------------------------------ MODULE Commits ------------------------------
(***************************************************************************)
(* Committing files to a branch of the remote repo.                        *)
(*                                                                         *)
(* A request to commit fetches from the origin through the job queue,      *)
(* builds the commit in the local clone from the server's own process (on  *)
(* an index file of its own, on top of the branch as last fetched), keeps  *)
(* it under a pending ref, and pushes that ref through the queue.          *)
(* Meanwhile other requests do the same in the same clone, requests to     *)
(* connect change its origin, workers fetch and push, and others push to   *)
(* and delete the branches of the remotes.                                 *)
(*                                                                         *)
(* This is one repo, whose clone exists throughout: Connections has its    *)
(* creation and removal.  A commit is known by the request that made it,   *)
(* or is one of Outside; a file by the commit that added it.               *)
(***************************************************************************)
EXTENDS Naturals, Sequences

CONSTANTS
  Request,   \* the requests to commit (POST /repos/:repoId/branches/:branchName/commits)
  Outside,   \* the commits that others make
  Connect,   \* the requests that connect the repo to a URL
  Branch,    \* the names of branches
  Url,       \* the remote repos
  Worker,    \* the background workers
  NoCommit,  \* "no such branch"
  NoUrl,     \* "nowhere"
  NoJob      \* "this worker is idle"

Commit == Request \cup Outside

ASSUME CommitsAreDistinct == Request \cap Outside = {}

ASSUME NoValues ==
  /\ NoCommit \notin Commit
  /\ NoUrl \notin Url
  /\ NoJob \notin [name : {"fetch", "push"}, caller : Request]
  /\ NoJob \notin [name : {"setOriginTo"}, url : Url]

VARIABLES
  \* Of the server: one entry for each request to commit.
  pc,       \* where its async function waits
  branch,   \* the branch to commit to
  base,     \* the commit to build on
  outcome,  \* what its last job ended with
  asked,    \* the requests to connect so far
  \* Of the local clone.
  origin,   \* the URL of its remote called origin
  tracking, \* refs/remotes/origin: each branch as last fetched or pushed
  pending,  \* refs/pending-commits
  index,    \* the index files: the files in each
  history,  \* of each commit made: itself and its ancestors
  tree,     \* of each commit made: its files
  \* Of the remote repos.
  remote,   \* refs/heads of each
  landed,   \* the remote that took the commit of a request
  deleted,  \* the branches that others have deleted
  \* Of Redis and the workers.
  queue,    \* the jobs waiting
  job,      \* the job each worker has
  stage,    \* how far it is
  heard     \* the remote that its git process talks to, and the refs it told

requests == <<pc, branch, base, asked>>
refs == <<origin, tracking, pending>>
objects == <<history, tree>>
remotes == <<remote, landed, deleted>>
workers == <<job, stage, heard>>
vars == <<requests, outcome, refs, index, objects, remotes, queue, workers>>

----------------------------------------------------------------------------
CallerJob == [name : {"fetch", "push"}, caller : Request]
OriginJob == [name : {"setOriginTo"}, url : Url]
Job == CallerJob \cup OriginJob

Step == {"idle", "fetching", "showing", "priming", "adding", "writing", "naming",
         "cleaning", "pushing", "ok", "failed"}
Settled == {"ok", "failed"}

\* Of a branch: the commits it has, and the files at its head.
HistoryOf(c) == IF c = NoCommit THEN {} ELSE history[c]
TreeOf(c) == IF c = NoCommit THEN {} ELSE tree[c]

\* The index files: the clone's own, which no commit uses, and those of requests.
DefaultIndex == "index"
IndexFile == Request \cup {DefaultIndex}
NoIndex == [exists |-> FALSE, files |-> {}]
IndexWith(files) == [exists |-> TRUE, files |-> files]

\* Mutant of IndexOf: commits are prepared on the index of the clone.
IndexShared(q) == DefaultIndex

\* withUniqueIndex names a file by a fresh uuid, here by the request.
IndexOf(q) == q

\* Mutant of PendingName: the pending ref is named by the branch only.
PendingNamedByBranch(q) == CHOOSE r \in Request : branch[r] = branch[q]

\* RefName.forPendingCommit adds a fresh uuid to the name of the branch.
PendingName(q) == q

Goto(q, step) == pc' = [pc EXCEPT ![q] = step]

Enqueue(j) == queue' = Append(queue, j)

\* The repo is connected to one of the remotes, and has not been fetched yet.
Init ==
  /\ pc = [q \in Request |-> "idle"]
  /\ branch \in [Request -> Branch]
  /\ base = [q \in Request |-> NoCommit]
  /\ outcome = [q \in Request |-> "none"]
  /\ asked = {}
  /\ origin \in Url
  /\ tracking = [b \in Branch |-> NoCommit]
  /\ pending = [q \in Request |-> NoCommit]
  /\ index = [i \in IndexFile |-> NoIndex]
  /\ history = [c \in Commit |-> {}]
  /\ tree = [c \in Commit |-> {}]
  /\ remote = [u \in Url |-> [b \in Branch |-> NoCommit]]
  /\ landed = [q \in Request |-> NoUrl]
  /\ deleted = {}
  /\ queue = <<>>
  /\ job = [w \in Worker |-> NoJob]
  /\ stage = [w \in Worker |-> "idle"]
  /\ heard = [w \in Worker |-> [url |-> NoUrl, heads |-> [b \in Branch |-> NoCommit]]]

----------------------------------------------------------------------------
(***************************************************************************)
(* LaBoite.commit, in the server                                           *)
(***************************************************************************)

\* The request arrives: the repo is found, and fetch adds its job.
ReceiveCommit(q) ==
  /\ pc[q] = "idle"
  /\ Goto(q, "fetching")
  /\ Enqueue([name |-> "fetch", caller |-> q])
  /\ UNCHANGED <<branch, base, asked, outcome, refs, index, objects, remotes, workers>>

\* The job to fetch has ended.
Fetched(q) ==
  /\ pc[q] = "fetching"
  /\ outcome[q] # "none"
  /\ Goto(q, IF outcome[q] = "ok" THEN "showing" ELSE "failed")
  /\ outcome' = [outcome EXCEPT ![q] = "none"]
  /\ UNCHANGED <<branch, base, asked, refs, index, objects, remotes, queue, workers>>

\* Mutant of ShowRef: a commit that is pending for the branch will do.
ShowRefPending(q) ==
  /\ pc[q] = "showing"
  /\ Goto(q, "priming")
  /\ base' \in {[base EXCEPT ![q] = tip] :
                tip \in {tracking[branch[q]], NoCommit}
                         \cup {pending[r] : r \in {r \in Request : branch[r] = branch[q]}}}
  /\ UNCHANGED <<branch, asked, outcome, refs, index, objects, remotes, queue, workers>>

\* handleCommit: `git show-ref` looks up the branch as last fetched.  If it fails,
\* for this reason or another, the commit will have no parent.
ShowRef(q) ==
  /\ pc[q] = "showing"
  /\ Goto(q, "priming")
  /\ base' \in {[base EXCEPT ![q] = tip] : tip \in {tracking[branch[q]], NoCommit}}
  /\ UNCHANGED <<branch, asked, outcome, refs, index, objects, remotes, queue, workers>>

\* `git read-tree` of the parent, or --empty, fills the index.
ReadTree(q) ==
  /\ pc[q] = "priming"
  /\ Goto(q, "adding")
  /\ index' = [index EXCEPT ![IndexOf(q)] = IndexWith(TreeOf(base[q]))]
  /\ UNCHANGED <<branch, base, asked, outcome, refs, objects, remotes, queue, workers>>

\* `git read-tree` of the parent fails: the catch that is there for show-ref takes
\* this as well, and the commit will have no parent.
ReadTreeFails(q) ==
  /\ pc[q] = "priming"
  /\ base[q] # NoCommit
  /\ base' = [base EXCEPT ![q] = NoCommit]
  /\ UNCHANGED <<pc, branch, asked, outcome, refs, index, objects, remotes, queue,
                 workers>>

\* `git hash-object` and `git update-index` add the files.
AddFiles(q) ==
  /\ pc[q] = "adding"
  /\ Goto(q, "writing")
  /\ index' = [index EXCEPT ![IndexOf(q)] = IndexWith(@.files \cup {q})]
  /\ UNCHANGED <<branch, base, asked, outcome, refs, objects, remotes, queue, workers>>

\* `git write-tree` and `git commit-tree` make the commit.
CommitIndex(q) ==
  /\ pc[q] = "writing"
  /\ Goto(q, "naming")
  /\ tree' = [tree EXCEPT ![q] = index[IndexOf(q)].files]
  /\ history' = [history EXCEPT ![q] = HistoryOf(base[q]) \cup {q}]
  /\ UNCHANGED <<branch, base, asked, outcome, refs, index, remotes, queue, workers>>

\* `git update-ref` gives it its pending ref, which nobody ever deletes.
UpdateRef(q) ==
  /\ pc[q] = "naming"
  /\ Goto(q, "cleaning")
  /\ pending' = [pending EXCEPT ![PendingName(q)] = q]
  /\ UNCHANGED <<branch, base, asked, outcome, origin, tracking, index, objects,
                 remotes, queue, workers>>

\* withUniqueIndex deletes the index file, and push adds its job.
RequestPush(q) ==
  /\ pc[q] = "cleaning"
  /\ Goto(q, "pushing")
  /\ index' = [index EXCEPT ![IndexOf(q)] = NoIndex]
  /\ Enqueue([name |-> "push", caller |-> q])
  /\ UNCHANGED <<branch, base, asked, outcome, refs, objects, remotes, workers>>

\* A git process of handleCommit fails, or the unlink: the index file stays.
CommitFails(q) ==
  /\ \/ pc[q] \in {"adding", "writing", "naming", "cleaning"}
     \/ pc[q] = "priming" /\ base[q] = NoCommit
  /\ Goto(q, "failed")
  /\ UNCHANGED <<branch, base, asked, outcome, refs, index, objects, remotes, queue,
                 workers>>

\* The job to push has ended, and the consumer is answered.
Pushed(q) ==
  /\ pc[q] = "pushing"
  /\ outcome[q] # "none"
  /\ Goto(q, IF outcome[q] = "ok" THEN "ok" ELSE "failed")
  /\ UNCHANGED <<branch, base, asked, outcome, refs, index, objects, remotes, queue,
                 workers>>

CommitSteps(q) ==
  \/ Fetched(q) \/ ShowRef(q) \/ ReadTree(q) \/ ReadTreeFails(q) \/ AddFiles(q)
  \/ CommitIndex(q) \/ UpdateRef(q) \/ RequestPush(q) \/ CommitFails(q) \/ Pushed(q)

\* A request connects the repo to another URL: see Connections.
ReceiveConnect(c) ==
  /\ c \notin asked
  /\ asked' = asked \cup {c}
  /\ \E u \in Url : Enqueue([name |-> "setOriginTo", url |-> u])
  /\ UNCHANGED <<pc, branch, base, outcome, refs, index, objects, remotes, workers>>

----------------------------------------------------------------------------
(***************************************************************************)
(* processJob, in a worker                                                 *)
(***************************************************************************)
TakeJob(w) ==
  /\ stage[w] = "idle"
  /\ queue # <<>>
  /\ job' = [job EXCEPT ![w] = Head(queue)]
  /\ queue' = Tail(queue)
  /\ stage' = [stage EXCEPT ![w] = "taken"]
  /\ UNCHANGED <<requests, outcome, refs, index, objects, remotes, heard>>

Idle(w) ==
  /\ job' = [job EXCEPT ![w] = NoJob]
  /\ stage' = [stage EXCEPT ![w] = "idle"]
  /\ UNCHANGED heard

\* Mutant of Finish: the caller is told of successes only.
FinishSilently(w, result) ==
  /\ outcome' = IF result = "ok" THEN [outcome EXCEPT ![job[w].caller] = result]
                ELSE outcome
  /\ Idle(w)

\* The worker tells the caller how its job ended, and is idle again.
Finish(w, result) ==
  /\ outcome' = [outcome EXCEPT ![job[w].caller] = result]
  /\ Idle(w)

\* Mutant of HearRefs: any job is taken for one of these.
HearRefsForAnyJob(w) ==
  /\ stage[w] = "taken"
  /\ stage' = [stage EXCEPT ![w] = "talking"]
  /\ heard' = [heard EXCEPT ![w] = [url |-> origin, heads |-> remote[origin]]]
  /\ UNCHANGED <<requests, outcome, refs, index, objects, remotes, queue, job>>

\* `git fetch` or `git push` asks the origin for its refs.
HearRefs(w) ==
  /\ stage[w] = "taken"
  /\ job[w] \in CallerJob
  /\ stage' = [stage EXCEPT ![w] = "talking"]
  /\ heard' = [heard EXCEPT ![w] = [url |-> origin, heads |-> remote[origin]]]
  /\ UNCHANGED <<requests, outcome, refs, index, objects, remotes, queue, job>>

\* refs/remotes/origin, when a fetch has stored those of the branches in it that the
\* remote told of, whatever was there; it leaves those that it did not hear of.
Stored(w, branches) ==
  [b \in Branch |-> IF b \in branches /\ heard[w].heads[b] # NoCommit
                    THEN heard[w].heads[b] ELSE tracking[b]]

\* handleFetch: `git fetch` stores the branches one by one, and may fail in between.
StoreRefs(w) ==
  /\ stage[w] = "talking"
  /\ job[w].name = "fetch"
  /\ \/ tracking' = Stored(w, Branch) /\ Finish(w, "ok")
     \/ \E branches \in SUBSET Branch :
          tracking' = Stored(w, branches) /\ Finish(w, "error")
  /\ UNCHANGED <<requests, origin, pending, index, objects, remotes, queue>>

\* Mutant of MayUpdate: the push is forced.
MayUpdateForced(tip, c) == TRUE

\* Without --force, git push only moves a branch to a descendant of its tip.
MayUpdate(tip, c) == tip = NoCommit \/ tip \in history[c]

\* handlePush: the remote takes the pending commit, unless the branch has moved
\* from what it told.  The answer may get lost on the way back.
Push(w) ==
  /\ stage[w] = "talking"
  /\ job[w].name = "push"
  /\ LET q == job[w].caller
         c == pending[PendingName(q)]
         u == heard[w].url
         b == branch[q]
     IN  /\ remote[u][b] = heard[w].heads[b]
         /\ MayUpdate(remote[u][b], c)
         /\ remote' = [remote EXCEPT ![u][b] = c]
         /\ landed' = [landed EXCEPT ![c] = u]
         /\ \/ tracking' = [tracking EXCEPT ![b] = c] /\ Finish(w, "ok")
            \/ UNCHANGED tracking /\ Finish(w, "error")
  /\ UNCHANGED <<requests, origin, pending, index, objects, deleted, queue>>

\* Mutant of JobFails: the job is tried again, as often as it takes.
JobFailsAndRetries(w) ==
  /\ stage[w] = "talking"
  /\ stage' = [stage EXCEPT ![w] = "taken"]
  /\ UNCHANGED <<requests, outcome, refs, index, objects, remotes, queue, job, heard>>

\* The remote denies access, cannot be reached or refuses the push, or the clone is
\* locked by another git process.
JobFails(w) ==
  /\ stage[w] # "idle"
  /\ job[w] \in CallerJob
  /\ Finish(w, "error")
  /\ UNCHANGED <<requests, refs, index, objects, remotes, queue>>

\* handleConnect sets the origin, if the validation of the URL has not failed.
SetOrigin(w) ==
  /\ stage[w] = "taken"
  /\ job[w] \in OriginJob
  /\ origin' \in {origin, job[w].url}
  /\ Idle(w)
  /\ UNCHANGED <<requests, outcome, tracking, pending, index, objects, remotes, queue>>

WorkerSteps(w) ==
  \/ TakeJob(w) \/ HearRefs(w) \/ StoreRefs(w) \/ Push(w) \/ JobFails(w) \/ SetOrigin(w)

----------------------------------------------------------------------------
(***************************************************************************)
(* The remotes, and the others that use them                               *)
(***************************************************************************)
OutsidePush(c, u, b) ==
  /\ history[c] = {}
  /\ history' = [history EXCEPT ![c] = HistoryOf(remote[u][b]) \cup {c}]
  /\ tree' = [tree EXCEPT ![c] = TreeOf(remote[u][b]) \cup {c}]
  /\ remote' = [remote EXCEPT ![u][b] = c]
  /\ UNCHANGED <<requests, outcome, refs, index, landed, deleted, queue, workers>>

OutsideDelete(u, b) ==
  /\ remote[u][b] # NoCommit
  /\ remote' = [remote EXCEPT ![u][b] = NoCommit]
  /\ deleted' = deleted \cup {<<u, b>>}
  /\ UNCHANGED <<requests, outcome, refs, index, objects, landed, queue, workers>>

----------------------------------------------------------------------------
\* Every consumer has its answer.
Terminated ==
  /\ \A q \in Request : pc[q] \in Settled
  /\ UNCHANGED vars

Next ==
  \/ \E q \in Request : ReceiveCommit(q) \/ CommitSteps(q)
  \/ \E c \in Connect : ReceiveConnect(c)
  \/ \E w \in Worker : WorkerSteps(w)
  \/ \E u \in Url, b \in Branch :
       OutsideDelete(u, b) \/ \E c \in Outside : OutsidePush(c, u, b)
  \/ Terminated

Spec == Init /\ [][Next]_vars

\* The event loop runs every request that can go on, and every worker works.
Fairness ==
  /\ \A q \in Request : WF_vars(CommitSteps(q))
  /\ \A w \in Worker : WF_vars(WorkerSteps(w))

FairSpec == Spec /\ Fairness

----------------------------------------------------------------------------
(***************************************************************************)
(* Properties                                                              *)
(***************************************************************************)

\* A worker has a job exactly while it is busy.
TypeOK ==
  /\ pc \in [Request -> Step]
  /\ branch \in [Request -> Branch]
  /\ base \in [Request -> Commit \cup {NoCommit}]
  /\ outcome \in [Request -> {"none", "ok", "error"}]
  /\ asked \subseteq Connect
  /\ origin \in Url
  /\ tracking \in [Branch -> Commit \cup {NoCommit}]
  /\ pending \in [Request -> Request \cup {NoCommit}]
  /\ index \in [IndexFile -> [exists : BOOLEAN, files : SUBSET Commit]]
  /\ history \in [Commit -> SUBSET Commit]
  /\ tree \in [Commit -> SUBSET Commit]
  /\ remote \in [Url -> [Branch -> Commit \cup {NoCommit}]]
  /\ landed \in [Request -> Url \cup {NoUrl}]
  /\ deleted \subseteq Url \X Branch
  /\ queue \in Seq(Job)
  /\ job \in [Worker -> Job \cup {NoJob}]
  /\ stage \in [Worker -> {"idle", "taken", "talking"}]
  /\ heard \in [Worker -> [url : Url \cup {NoUrl},
                           heads : [Branch -> Commit \cup {NoCommit}]]]
  /\ \A w \in Worker :
       /\ stage[w] = "idle" <=> job[w] = NoJob
       /\ stage[w] = "talking" => job[w] \in CallerJob /\ heard[w].url # NoUrl

\* However many commits are prepared in the clone at once, each holds the files of
\* the commits it builds on and its own, no more and no less.
CommitsHoldTheirHistory == \A c \in Commit : tree[c] = history[c]

\* No consumer undoes what is on a branch of a remote: a push only adds to it.
BranchesOnlyGrow ==
  [][\A u \in Url, b \in Branch :
       job' # job => HistoryOf(remote[u][b]) \subseteq HistoryOf(remote[u][b])']_vars

\* A consumer is told that its files are committed only when they are in the
\* branch of the remote repo, and there they stay unless others delete the branch.
CommittedMeansPushed == \A q \in Request :
  pc[q] = "ok" =>
    /\ landed[q] # NoUrl
    /\ \/ q \in HistoryOf(remote[landed[q]][branch[q]])
       \/ <<landed[q], branch[q]>> \in deleted

\* The job that a request waits for.
JobOf(q) == [name |-> IF pc[q] = "fetching" THEN "fetch" ELSE "push", caller |-> q]

\* Nobody waits for what nobody will do: a request that waits, and has not been told how
\* its job ended, has it in the queue or at a worker.
WaitersHaveJobs == \A q \in Request :
  pc[q] \in {"fetching", "pushing"} /\ outcome[q] = "none" =>
    \/ \E i \in 1..Len(queue) : queue[i] = JobOf(q)
    \/ \E w \in Worker : job[w] = JobOf(q)

\* The phase of a request, as its consumer sees it.
Phase(q) ==
  CASE pc[q] = "idle" -> "idle"
    [] pc[q] = "ok" -> "ok"
    [] pc[q] = "failed" -> "refused"
    [] OTHER -> "open"

\* The content of a branch is the history of its head.
Promise == INSTANCE Branches WITH
  target <- branch,
  content <- [u \in Url |-> [b \in Branch |-> HistoryOf(remote[u][b])]],
  phase <- [q \in Request |-> Phase(q)],
  shared <- {c \in Outside : history[c] # {}}

\* Committing implements Branches: a commit joins its branch at most once, beside what is
\* there, with nothing in its history that nobody has pushed, and only while its request
\* is open; who is told "committed" has been taken by a remote.
CommittingKeepsItsPromise == Promise!Spec

\* No request waits for ever.
EveryCommitSettles == \A q \in Request : pc[q] # "idle" ~> pc[q] \in Settled

----------------------------------------------------------------------------
\* What a test says of withUniqueIndex, git_directory.spec.ts: "cleans up the
\* index, but only once the operation is done".
IndexIsCleanedUp == \A q \in Request : pc[q] \in Settled => ~index[IndexOf(q)].exists
=============================================================================
