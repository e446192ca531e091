----------------------------- MODULE MCCommits -----------------------------
(***************************************************************************)
(* Values for the constants of Commits.  CommitRace checks a liveness      *)
(* property, so no symmetry is used.                                       *)
(***************************************************************************)
EXTENDS Commits
=============================================================================
