--------------------------- MODULE MCConnections ---------------------------
(***************************************************************************)
(* Values for the constants of Connections.  Requests and workers are      *)
(* interchangeable: no definition tells one from another.  URLs are not:   *)
(* ReadBack does.                                                          *)
(***************************************************************************)
EXTENDS Connections, TLC

\* The one that is cut, if it is among the URLs, reads as the first.
MCBeginning == [u \in Url \cap {"a=b"} |-> "a"]

ConnectSymmetry == Permutations(Connect) \cup Permutations(Worker)
=============================================================================
