----------------------------- MODULE MCJobQueue -----------------------------
(***************************************************************************)
(* Values for the constants of JobQueue.  One word of each kind is enough: *)
(* ErrorFor asks only whether there is one.                                *)
(***************************************************************************)
EXTENDS JobQueue
=============================================================================
