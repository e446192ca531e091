------------------------------- MODULE Links -------------------------------
(***************************************************************************)
(* What connecting promises to a consumer, whatever runs behind it: the    *)
(* remote a repo is linked to changes in one step, to the URL of a request *)
(* that is still unanswered, and only that request may say it succeeded.   *)
(* A request that reads its own URL changes nothing, and says so too.  A   *)
(* refused request has changed nothing, except that it may have undone the *)
(* creation of the repo.                                                   *)
(***************************************************************************)
EXTENDS RemoteUrls

CONSTANTS Repo, Connect

VARIABLES
  target, \* the repo and the URL of each request, fixed
  link,   \* the remote each repo is linked to
  phase   \* of each request

vars == <<target, link, phase>>

TypeOK ==
  /\ target \in [Connect -> [repo : Repo, url : Url]]
  /\ link \in [Repo -> Url \cup {NoUrl}]
  /\ phase \in [Connect -> {"idle", "pending", "linked", "ok", "refused"}]

Init ==
  /\ target \in [Connect -> [repo : Repo, url : Url]]
  /\ link = [r \in Repo |-> NoUrl]
  /\ phase = [c \in Connect |-> "idle"]

Move(c, from, to) ==
  /\ phase[c] = from
  /\ phase' = [phase EXCEPT ![c] = to]
  /\ UNCHANGED target

Receive(c) == Move(c, "idle", "pending") /\ UNCHANGED link

\* The request takes effect.  The repo may have had this link before.
Link(c) ==
  /\ Move(c, "pending", "linked")
  /\ link' = [link EXCEPT ![target[c].repo] = target[c].url]

\* The link of the repo reads as the URL of the request, which is content with it.
Keep(c) ==
  /\ Move(c, "pending", "linked")
  /\ ReadBack(link[target[c].repo]) = target[c].url
  /\ UNCHANGED link

Confirm(c) == Move(c, "linked", "ok") /\ UNCHANGED link

Refuse(c) == Move(c, "pending", "refused") /\ UNCHANGED link

\* A request that created the repo takes the repo away when it fails.
Undo(c) ==
  /\ Move(c, "pending", "refused")
  /\ link' = [link EXCEPT ![target[c].repo] = NoUrl]

Next == \E c \in Connect :
  Receive(c) \/ Link(c) \/ Keep(c) \/ Confirm(c) \/ Refuse(c) \/ Undo(c)

Spec == Init /\ [][Next]_vars
=============================================================================
