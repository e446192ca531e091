---------------------------- MODULE MCCloneRefs ----------------------------
\* Values for the constants of CloneRefs: the connect requests are interchangeable.
EXTENDS CloneRefs, TLC

\* The URL that is cut, if it is among the URLs, reads as the other.
MCBeginning == [u \in Url \cap {"a=b"} |-> "a"]

RefsSymmetry == Permutations(Connect)
=============================================================================
