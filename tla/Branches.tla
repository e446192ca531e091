------------------------------ MODULE Branches ------------------------------
(***************************************************************************)
(* What committing promises to a consumer, whatever runs behind it: the    *)
(* commit of a request that is still unanswered joins its branch of one    *)
(* remote, once and in one step, beside what the branch has already; only  *)
(* then may the request be told that it succeeded.  It brings nothing with *)
(* it but what has been on that branch, of this or another remote, before: *)
(* what a refused request has prepared never shows up later, and neither   *)
(* does what others have not pushed yet.  A request that is refused may    *)
(* have been taken, if the answer of the remote got lost.                  *)
(***************************************************************************)
CONSTANTS Request, Outside, Branch, Url, NoUrl

VARIABLES
  target,  \* the branch of each request, fixed
  content, \* the commits on each branch of each remote
  phase,   \* of each request
  landed,  \* the remote that has taken its commit
  shared   \* the commits of others that they have pushed

vars == <<target, content, phase, landed, shared>>

Init ==
  /\ target \in [Request -> Branch]
  /\ content = [u \in Url |-> [b \in Branch |-> {}]]
  /\ phase = [q \in Request |-> "idle"]
  /\ landed = [q \in Request |-> NoUrl]
  /\ shared = {}

\* What has been on a branch of some remote; of the others' commits it is not told which.
Public(b) == {q \in Request : target[q] = b /\ landed[q] # NoUrl} \cup shared

Move(q, from, to) ==
  /\ phase[q] = from
  /\ phase' = [phase EXCEPT ![q] = to]
  /\ UNCHANGED <<target, content, landed, shared>>

Receive(q) == Move(q, "idle", "open")

Confirm(q) == landed[q] # NoUrl /\ Move(q, "open", "ok")

Refuse(q) == Move(q, "open", "refused")

\* A remote takes the commit.
Take(q, u) ==
  /\ phase[q] = "open"
  /\ landed[q] = NoUrl
  /\ landed' = [landed EXCEPT ![q] = u]
  /\ \E more \in SUBSET Public(target[q]) :
       content' = [content EXCEPT ![u][target[q]] = @ \cup {q} \cup more]
  /\ UNCHANGED <<target, phase, shared>>

\* The others: each commit is pushed once, to some branch.
Share(c, u, b) ==
  /\ c \notin shared
  /\ shared' = shared \cup {c}
  /\ content' = [content EXCEPT ![u][b] = @ \cup {c}]
  /\ UNCHANGED <<target, phase, landed>>

Delete(u, b) ==
  /\ content' = [content EXCEPT ![u][b] = {}]
  /\ UNCHANGED <<target, phase, landed, shared>>

Next ==
  \/ \E q \in Request : Receive(q) \/ Confirm(q) \/ Refuse(q) \/ \E u \in Url : Take(q, u)
  \/ \E u \in Url, b \in Branch : Delete(u, b) \/ \E c \in Outside : Share(c, u, b)

Spec == Init /\ [][Next]_vars
=============================================================================
