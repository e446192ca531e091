----------------------------- MODULE RemoteUrls -----------------------------
(***************************************************************************)
(* The URLs of remotes, and what the server reads back of one that it has  *)
(* written to the config of a clone.  RemoteUrl.of takes any string.       *)
(***************************************************************************)
CONSTANTS
  Url,       \* the remote URLs a consumer may give
  Beginning, \* of each of them that contains a "=", what comes before the first
  NoUrl      \* "no remote called origin", UnknownValue in the code

CutUrl == DOMAIN Beginning

\* What comes before a "=" may be a URL that a consumer gives as well, or nothing.
ASSUME CutUrls ==
  /\ NoUrl \notin Url
  /\ CutUrl \subseteq Url
  /\ \A u \in CutUrl : Beginning[u] \notin CutUrl

\* handleGetConfig splits the lines of `git config` at every "=", and keeps the part
\* that follows the key; DirectLocalClone.getOrigin takes an empty one for no origin.
ReadBack(u) == IF u \in CutUrl THEN Beginning[u] ELSE u

\* Everything that an origin may read as.
Shown == {ReadBack(u) : u \in Url \cup {NoUrl}}
=============================================================================
