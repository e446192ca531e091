---------------------------- MODULE CommitsProofs ----------------------------
(***************************************************************************)
(* What Commits promises, for any requests, workers, branches and remotes. *)
(***************************************************************************)
EXTENDS Commits, TLAPS

----------------------------------------------------------------------------
(***************************************************************************)
(* Types                                                                   *)
(***************************************************************************)
LEMMA Jobs ==
  /\ NoJob \notin Job
  /\ \A j \in CallerJob : j.name \in {"fetch", "push"} /\ j.caller \in Request
  /\ \A j \in OriginJob : j.name = "setOriginTo" /\ j.url \in Url
  /\ \A q \in Request : /\ [name |-> "fetch", caller |-> q] \in CallerJob
                        /\ [name |-> "push", caller |-> q] \in CallerJob
  /\ \A u \in Url : [name |-> "setOriginTo", url |-> u] \in OriginJob
BY NoValues DEF Job, CallerJob, OriginJob

LEMMA TreesAndHistories ==
  ASSUME TypeOK, NEW c \in Commit \cup {NoCommit}
  PROVE  HistoryOf(c) \subseteq Commit /\ TreeOf(c) \subseteq Commit
BY DEF TypeOK, HistoryOf, TreeOf

LEMMA TypesInit == Init => TypeOK
<1> SUFFICES ASSUME Init PROVE TypeOK
  OBVIOUS
<1>1. /\ pc \in [Request -> Step] /\ branch \in [Request -> Branch]
      /\ base \in [Request -> Commit \cup {NoCommit}]
      /\ outcome \in [Request -> {"none", "ok", "error"}]
      /\ asked \subseteq Connect /\ origin \in Url /\ deleted \subseteq Url \X Branch
  BY DEF Init, Step
<1>2. /\ tracking \in [Branch -> Commit \cup {NoCommit}]
      /\ pending \in [Request -> Request \cup {NoCommit}]
      /\ index \in [IndexFile -> [exists : BOOLEAN, files : SUBSET Commit]]
      /\ history \in [Commit -> SUBSET Commit] /\ tree \in [Commit -> SUBSET Commit]
  BY DEF Init, NoIndex
<1>3. /\ remote \in [Url -> [Branch -> Commit \cup {NoCommit}]]
      /\ landed \in [Request -> Url \cup {NoUrl}]
      /\ heard \in [Worker -> [url : Url \cup {NoUrl},
                               heads : [Branch -> Commit \cup {NoCommit}]]]
  BY DEF Init
<1>4. queue = <<>> /\ \A w \in Worker : job[w] = NoJob /\ stage[w] = "idle"
  BY DEF Init
<1>5. /\ job \in [Worker -> Job \cup {NoJob}]
      /\ stage \in [Worker -> {"idle", "taken", "talking"}]
  BY DEF Init
<1>6. queue \in Seq(Job)
  BY <1>4
<1> QED
  BY <1>1, <1>2, <1>3, <1>4, <1>5, <1>6 DEF TypeOK

LEMMA TypesReceiveCommit == ASSUME TypeOK, NEW q \in Request, ReceiveCommit(q) PROVE TypeOK'
<1>1. [name |-> "fetch", caller |-> q] \in Job
  BY Jobs DEF Job
<1> QED
  BY <1>1
  DEF TypeOK, ReceiveCommit, Goto, Enqueue, Step, refs, objects, remotes, workers

LEMMA TypesCommitSteps == ASSUME TypeOK, NEW q \in Request, CommitSteps(q) PROVE TypeOK'
<1>1. CASE Fetched(q)
  BY <1>1 DEF TypeOK, Fetched, Goto, Step, refs, objects, remotes, workers
<1>2. CASE ShowRef(q)
  <2>1. PICK tip \in {tracking[branch[q]], NoCommit} : base' = [base EXCEPT ![q] = tip]
    BY <1>2 DEF ShowRef
  <2>2. tip \in Commit \cup {NoCommit}
    BY DEF TypeOK
  <2>3. base' \in [Request -> Commit \cup {NoCommit}]
    BY <2>1, <2>2 DEF TypeOK
  <2> QED
    BY <1>2, <2>3 DEF TypeOK, ShowRef, Goto, Step, refs, objects, remotes, workers
<1>3. CASE ReadTree(q)
  <2>1. IndexWith(TreeOf(base[q])) \in [exists : BOOLEAN, files : SUBSET Commit]
    BY TreesAndHistories DEF TypeOK, IndexWith
  <2> QED
    BY <1>3, <2>1
    DEF TypeOK, ReadTree, Goto, Step, IndexOf, IndexFile, refs, objects, remotes, workers
<1>4. CASE ReadTreeFails(q)
  BY <1>4 DEF TypeOK, ReadTreeFails, refs, objects, remotes, workers
<1>5. CASE AddFiles(q)
  <2>1. IndexWith(index[q].files \cup {q}) \in [exists : BOOLEAN, files : SUBSET Commit]
    BY DEF TypeOK, IndexWith, IndexFile, Commit
  <2> QED
    BY <1>5, <2>1
    DEF TypeOK, AddFiles, Goto, Step, IndexOf, IndexFile, refs, objects, remotes, workers
<1>6. CASE CommitIndex(q)
  <2>1. index[q].files \subseteq Commit /\ HistoryOf(base[q]) \cup {q} \subseteq Commit
    BY TreesAndHistories DEF TypeOK, IndexFile, Commit
  <2> QED
    BY <1>6, <2>1 DEF TypeOK, CommitIndex, Goto, Step, IndexOf, refs, remotes, workers
<1>7. CASE UpdateRef(q)
  BY <1>7 DEF TypeOK, UpdateRef, Goto, Step, PendingName, objects, remotes, workers
<1>8. CASE RequestPush(q)
  <2>1. [name |-> "push", caller |-> q] \in Job
    BY Jobs DEF Job
  <2> QED
    BY <1>8, <2>1
    DEF TypeOK, RequestPush, Goto, Enqueue, Step, IndexOf, IndexFile, NoIndex, refs, objects,
        remotes, workers
<1>9. CASE CommitFails(q)
  BY <1>9 DEF TypeOK, CommitFails, Goto, Step, refs, objects, remotes, workers
<1>10. CASE Pushed(q)
  BY <1>10 DEF TypeOK, Pushed, Goto, Step, refs, objects, remotes, workers
<1> QED
  BY <1>1, <1>2, <1>3, <1>4, <1>5, <1>6, <1>7, <1>8, <1>9, <1>10 DEF CommitSteps

LEMMA TypesReceiveConnect == ASSUME TypeOK, NEW c \in Connect, ReceiveConnect(c) PROVE TypeOK'
<1>1. \A u \in Url : [name |-> "setOriginTo", url |-> u] \in Job
  BY Jobs DEF Job
<1> QED
  BY <1>1 DEF TypeOK, ReceiveConnect, Enqueue, refs, objects, remotes, workers

LEMMA TypesWorkerSteps == ASSUME TypeOK, NEW w \in Worker, WorkerSteps(w) PROVE TypeOK'
<1>1. CASE TakeJob(w)
  <2>1. Head(queue) \in Job /\ Tail(queue) \in Seq(Job) /\ Head(queue) # NoJob
    BY <1>1, Jobs DEF TypeOK, TakeJob
  <2> QED
    BY <1>1, <2>1 DEF TypeOK, TakeJob, requests, refs, objects, remotes
<1>2. CASE HearRefs(w)
  <2>1. /\ stage' = [stage EXCEPT ![w] = "talking"] /\ job[w] \in CallerJob
        /\ heard' = [heard EXCEPT ![w] = [url |-> origin, heads |-> remote[origin]]]
        /\ UNCHANGED <<requests, outcome, refs, index, objects, remotes, queue, job>>
    BY <1>2 DEF HearRefs
  <2>2. [url |-> origin, heads |-> remote[origin]] \in
          [url : Url \cup {NoUrl}, heads : [Branch -> Commit \cup {NoCommit}]]
    BY DEF TypeOK
  <2>3. /\ heard' \in [Worker -> [url : Url \cup {NoUrl},
                                 heads : [Branch -> Commit \cup {NoCommit}]]]
        /\ stage' \in [Worker -> {"idle", "taken", "talking"}]
    BY <2>1, <2>2 DEF TypeOK
  <2>4. job[w] # NoJob /\ origin # NoUrl
    BY <2>1, Jobs, NoValues DEF TypeOK, Job
  <2>5. \A v \in Worker : /\ stage'[v] = "idle" <=> job[v] = NoJob
                          /\ stage'[v] = "talking" => job[v] \in CallerJob /\ heard'[v].url # NoUrl
    BY <2>1, <2>4 DEF TypeOK
  <2>6. UNCHANGED <<pc, branch, base, asked, outcome, origin, tracking, pending, index,
                   history, tree, remote, landed, deleted, queue, job>>
    BY <2>1 DEF requests, refs, objects, remotes
  <2>7. \A v \in Worker : /\ stage'[v] = "idle" <=> job'[v] = NoJob
                          /\ stage'[v] = "talking" => job'[v] \in CallerJob /\ heard'[v].url # NoUrl
    BY <2>5, <2>6
  <2>8. /\ pc' \in [Request -> Step] /\ branch' \in [Request -> Branch]
        /\ base' \in [Request -> Commit \cup {NoCommit}]
        /\ outcome' \in [Request -> {"none", "ok", "error"}]
        /\ asked' \subseteq Connect /\ origin' \in Url /\ deleted' \subseteq Url \X Branch
        /\ tracking' \in [Branch -> Commit \cup {NoCommit}]
        /\ pending' \in [Request -> Request \cup {NoCommit}]
        /\ index' \in [IndexFile -> [exists : BOOLEAN, files : SUBSET Commit]]
        /\ history' \in [Commit -> SUBSET Commit] /\ tree' \in [Commit -> SUBSET Commit]
        /\ remote' \in [Url -> [Branch -> Commit \cup {NoCommit}]]
        /\ landed' \in [Request -> Url \cup {NoUrl}]
        /\ queue' \in Seq(Job) /\ job' \in [Worker -> Job \cup {NoJob}]
    BY <2>6 DEF TypeOK
  <2> QED
    BY <2>3, <2>7, <2>8 DEF TypeOK
<1>3. CASE StoreRefs(w)
  <2>1. tracking' \in [Branch -> Commit \cup {NoCommit}]
    BY <1>3 DEF TypeOK, StoreRefs, Stored
  <2>2. \E result \in {"ok", "error"} : Finish(w, result)
    BY <1>3 DEF StoreRefs
  <2>3. UNCHANGED <<requests, origin, pending, index, objects, remotes, queue>>
    BY <1>3 DEF StoreRefs
  <2>4. job[w] \in CallerJob
    BY <1>3 DEF TypeOK, StoreRefs
  <2> QED
    BY <2>1, <2>2, <2>3, <2>4 DEF TypeOK, Finish, Idle, CallerJob, requests, objects, remotes
<1>4. CASE Push(w)
  <2> DEFINE q == job[w].caller
             c == pending[q]
             u == heard[w].url
             b == branch[q]
  <2>1. /\ stage[w] = "talking"
        /\ remote' = [remote EXCEPT ![u][b] = c]
        /\ landed' = [landed EXCEPT ![c] = u]
        /\ tracking' \in {tracking, [tracking EXCEPT ![b] = c]}
        /\ outcome' \in {[outcome EXCEPT ![q] = "ok"], [outcome EXCEPT ![q] = "error"]}
        /\ job' = [job EXCEPT ![w] = NoJob] /\ stage' = [stage EXCEPT ![w] = "idle"]
        /\ UNCHANGED <<heard, pc, branch, base, asked, origin, pending, index, history, tree,
                       deleted, queue>>
    BY <1>4 DEF Push, PendingName, Finish, Idle, requests, objects
  <2>2. q \in Request /\ u \in Url
    BY <2>1, Jobs DEF TypeOK
  <2>3. c \in Commit \cup {NoCommit} /\ b \in Branch
    BY <2>2 DEF TypeOK, Commit
  <2> HIDE DEF q, c, u, b
  <2>4. remote' \in [Url -> [Branch -> Commit \cup {NoCommit}]]
    BY <2>1, <2>2, <2>3 DEF TypeOK
  <2>5. landed' \in [Request -> Url \cup {NoUrl}]
    BY <2>1, <2>2 DEF TypeOK
  <2>6. tracking' \in [Branch -> Commit \cup {NoCommit}]
    BY <2>1, <2>3 DEF TypeOK
  <2>7. outcome' \in [Request -> {"none", "ok", "error"}]
    BY <2>1 DEF TypeOK
  <2> QED
    BY <2>1, <2>4, <2>5, <2>6, <2>7 DEF TypeOK
<1>5. CASE JobFails(w)
  BY <1>5 DEF TypeOK, JobFails, Finish, Idle, requests, refs, objects, remotes
<1>6. CASE SetOrigin(w)
  BY <1>6, Jobs DEF TypeOK, SetOrigin, Idle, requests, objects, remotes
<1> QED
  BY <1>1, <1>2, <1>3, <1>4, <1>5, <1>6 DEF WorkerSteps

LEMMA TypesOutside ==
  ASSUME TypeOK, NEW u \in Url, NEW b \in Branch,
         OutsideDelete(u, b) \/ \E c \in Outside : OutsidePush(c, u, b)
  PROVE  TypeOK'
<1>1. CASE OutsideDelete(u, b)
  BY <1>1 DEF TypeOK, OutsideDelete, requests, refs, objects, workers
<1>2. CASE \E c \in Outside : OutsidePush(c, u, b)
  <2>1. PICK c \in Outside : OutsidePush(c, u, b)
    BY <1>2
  <2>2. /\ HistoryOf(remote[u][b]) \cup {c} \subseteq Commit
        /\ TreeOf(remote[u][b]) \cup {c} \subseteq Commit
        /\ c \in Commit
    BY TreesAndHistories DEF TypeOK, Commit
  <2> QED
    BY <2>1, <2>2 DEF TypeOK, OutsidePush, requests, refs, workers
<1> QED
  BY <1>1, <1>2

LEMMA TypesNext == TypeOK /\ [Next]_vars => TypeOK'
<1> SUFFICES ASSUME TypeOK, [Next]_vars PROVE TypeOK'
  OBVIOUS
<1>1. CASE UNCHANGED vars
  BY <1>1 DEF vars, requests, refs, objects, remotes, workers, TypeOK
<1> QED
  BY <1>1, TypesReceiveCommit, TypesCommitSteps, TypesReceiveConnect, TypesWorkerSteps,
     TypesOutside
  DEF Next, Terminated

\* TypeOK is an invariant of Commits: refs name commits or nothing, and a worker has a job
\* exactly while it is busy.
THEOREM TypeCorrect == Spec => []TypeOK
BY TypesInit, TypesNext, PTL DEF Spec

----------------------------------------------------------------------------
(***************************************************************************)
(* Commits and their histories                                             *)
(***************************************************************************)
\* A ref names nothing, or a commit that is made.
IsMade(c) == c = NoCommit \/ c \in history[c]

\* The history of a commit is that of commits, itself last, ...
Histories ==
  /\ tree = history
  /\ \A c \in Commit : history[c] = {} \/ c \in history[c]
  /\ \A c \in Commit : \A a \in history[c] : a \in history[a] /\ history[a] \subseteq history[c]

\* ... a commit is not made before its files are written ...
Unmade == \A q \in Request :
  pc[q] \in {"idle", "fetching", "showing", "priming", "adding", "writing"} => history[q] = {}

\* ... from an index with the files of its parent ...
Indexes == \A q \in Request :
  /\ pc[q] = "adding" => index[q].files = TreeOf(base[q])
  /\ pc[q] = "writing" => index[q].files = TreeOf(base[q]) \cup {q}
  /\ pc[q] = "naming" => q \in history[q]

\* ... and no ref names a commit before.
RefsAreMade ==
  /\ \A q \in Request : IsMade(base[q]) /\ IsMade(pending[q])
  /\ \A b \in Branch : IsMade(tracking[b])
  /\ \A u \in Url, b \in Branch : IsMade(remote[u][b])
  /\ \A w \in Worker, b \in Branch : IsMade(heard[w].heads[b])

Objects == Histories /\ Unmade /\ Indexes /\ RefsAreMade

LEMMA ObjectsInit == Init => Objects
<1> SUFFICES ASSUME Init PROVE Objects
  OBVIOUS
<1>1. /\ tree = history /\ \A c \in Commit : history[c] = {}
      /\ \A q \in Request : /\ q \in Commit /\ pc[q] = "idle"
                            /\ base[q] = NoCommit /\ pending[q] = NoCommit
  BY DEF Init, Commit
<1>2. /\ \A b \in Branch : tracking[b] = NoCommit
      /\ \A u \in Url, b \in Branch : remote[u][b] = NoCommit
      /\ \A w \in Worker, b \in Branch : heard[w].heads[b] = NoCommit
  BY DEF Init
<1> QED
  BY <1>1, <1>2 DEF Objects, Histories, Unmade, Indexes, RefsAreMade, IsMade

\* A step that makes no commit, and moves refs to commits that are made.
LEMMA ObjectsMove ==
  ASSUME TypeOK, Objects, UNCHANGED <<history, tree>>,
         \A q \in Request : IsMade(base'[q]) /\ IsMade(pending'[q]),
         \A b \in Branch : IsMade(tracking'[b]),
         \A u \in Url, b \in Branch : IsMade(remote'[u][b]),
         \A w \in Worker, b \in Branch : IsMade(heard'[w].heads[b]),
         Unmade', Indexes'
  PROVE  Objects'
BY DEF Objects, Histories, RefsAreMade, IsMade

LEMMA ObjectsQuietly ==
  ASSUME TypeOK, Objects, UNCHANGED <<history, tree, pc, base, index, pending>>,
         \A b \in Branch : IsMade(tracking'[b]),
         \A u \in Url, b \in Branch : IsMade(remote'[u][b]),
         \A w \in Worker, b \in Branch : IsMade(heard'[w].heads[b])
  PROVE  Objects'
<1>1. Unmade' /\ Indexes'
  BY DEF Objects, Unmade, Indexes, TreeOf
<1> QED
  BY <1>1, ObjectsMove DEF Objects, RefsAreMade

\* A commit with the history of one that is made, or of none, is a commit like others.
LEMMA ObjectsGrow ==
  ASSUME TypeOK, Objects, NEW c \in Commit, NEW parent \in Commit \cup {NoCommit},
         history[c] = {}, IsMade(parent),
         history' = [history EXCEPT ![c] = HistoryOf(parent) \cup {c}],
         tree' = [tree EXCEPT ![c] = HistoryOf(parent) \cup {c}]
  PROVE  /\ Histories'
         /\ \A d \in Commit \cup {NoCommit} :
              IsMade(d) => /\ IsMade(d)'
                           /\ HistoryOf(d)' = HistoryOf(d) /\ TreeOf(d)' = TreeOf(d)
<1>1. /\ history'[c] = HistoryOf(parent) \cup {c}
      /\ \A d \in Commit \ {c} : history'[d] = history[d]
      /\ tree' = history'
  BY DEF TypeOK, Objects, Histories
<1>2. HistoryOf(parent) \subseteq Commit /\ c \notin HistoryOf(parent)
  BY TreesAndHistories, NoValues DEF HistoryOf, Objects, Histories, IsMade
<1>3. \A d \in Commit : history[d] \subseteq Commit \ {c}
  BY DEF TypeOK, Objects, Histories
<1>4. \A a \in HistoryOf(parent) : a \in history[a] /\ history[a] \subseteq HistoryOf(parent)
  BY DEF HistoryOf, Objects, Histories, TypeOK
<1>5. \A d \in Commit : history'[d] = {} \/ d \in history'[d]
  BY <1>1 DEF Objects, Histories
<1>6. ASSUME NEW d \in Commit, NEW a \in history'[d]
      PROVE  a \in history'[a] /\ history'[a] \subseteq history'[d]
  <2>1. CASE d = c
    BY <2>1, <1>1, <1>2, <1>4, <1>6
  <2>2. CASE d # c
    BY <2>2, <1>1, <1>3, <1>6 DEF Objects, Histories
  <2> QED
    BY <2>1, <2>2
<1>7. ASSUME NEW d \in Commit \cup {NoCommit}, IsMade(d)
      PROVE  IsMade(d)' /\ HistoryOf(d)' = HistoryOf(d) /\ TreeOf(d)' = TreeOf(d)
  <2>1. d = NoCommit \/ d \in Commit \ {c}
    BY <1>7 DEF IsMade
  <2> QED
    BY <2>1, <1>1, <1>7 DEF IsMade, HistoryOf, TreeOf, Objects, Histories
<1> QED
  BY <1>1, <1>5, <1>6, <1>7 DEF Histories

\* The steps of a request that makes no commit, each with what it does to its own state.
LEMMA ObjectsCommitSteps ==
  ASSUME TypeOK, Objects, NEW q \in Request,
         ReceiveCommit(q) \/ CommitSteps(q), ~CommitIndex(q)
  PROVE  Objects'
<1>1. /\ UNCHANGED <<history, tree, tracking, remote, heard>>
      /\ \A x \in Request \ {q} : /\ pc'[x] = pc[x] /\ base'[x] = base[x]
                                  /\ pending'[x] = pending[x] /\ index'[x] = index[x]
  <2>1. CASE ReceiveCommit(q) \/ Fetched(q) \/ CommitFails(q) \/ Pushed(q)
    BY <2>1 DEF TypeOK, ReceiveCommit, Fetched, CommitFails, Pushed, Goto, refs, objects,
                remotes, workers
  <2>2. CASE ShowRef(q) \/ ReadTreeFails(q)
    BY <2>2 DEF TypeOK, ShowRef, ReadTreeFails, Goto, refs, objects, remotes, workers
  <2>3. CASE ReadTree(q) \/ AddFiles(q) \/ RequestPush(q)
    BY <2>3 DEF TypeOK, ReadTree, AddFiles, RequestPush, Goto, IndexOf, IndexFile, refs,
                objects, remotes, workers
  <2>4. CASE UpdateRef(q)
    BY <2>4 DEF TypeOK, UpdateRef, Goto, PendingName, objects, remotes, workers
  <2> QED
    BY <2>1, <2>2, <2>3, <2>4 DEF CommitSteps
<1>2. /\ IsMade(base'[q]) /\ IsMade(pending'[q])
      /\ pc'[q] \in {"idle", "fetching", "showing", "priming", "adding", "writing"} =>
           history[q] = {}
      /\ pc'[q] = "adding" => index'[q].files = (IF base'[q] = NoCommit THEN {} ELSE tree[base'[q]])
      /\ pc'[q] = "writing" =>
           index'[q].files = (IF base'[q] = NoCommit THEN {} ELSE tree[base'[q]]) \cup {q}
      /\ pc'[q] # "naming"
  <2> IsMade(base[q]) /\ IsMade(pending[q]) /\ IsMade(NoCommit)
    BY DEF Objects, RefsAreMade, IsMade
  <2> DEFINE early == {"idle", "fetching", "showing", "priming", "adding", "writing"}
  <2>1. CASE ReceiveCommit(q) \/ Fetched(q) \/ CommitFails(q) \/ Pushed(q)
    <3>1. /\ pc'[q] \in early => pc[q] \in early
          /\ pc'[q] \notin {"adding", "writing", "naming"}
          /\ base' = base /\ pending' = pending
      BY <2>1 DEF TypeOK, ReceiveCommit, Fetched, CommitFails, Pushed, Goto, refs
    <3> QED
      BY <3>1 DEF Objects, Unmade
  <2>2. CASE ShowRef(q) \/ ReadTreeFails(q)
    <3>1. /\ pc[q] \in early /\ pc'[q] = "priming" /\ pending' = pending
          /\ base'[q] \in {base[q], tracking[branch[q]], NoCommit}
      BY <2>2 DEF TypeOK, ShowRef, ReadTreeFails, Goto, refs
    <3>2. IsMade(tracking[branch[q]])
      BY DEF TypeOK, Objects, RefsAreMade
    <3> QED
      BY <3>1, <3>2 DEF Objects, Unmade
  <2>3. CASE ReadTree(q)
    <3>1. /\ pc[q] \in early /\ pc'[q] = "adding" /\ base' = base /\ pending' = pending
          /\ index'[q].files = TreeOf(base[q])
      BY <2>3 DEF TypeOK, ReadTree, Goto, IndexOf, IndexFile, IndexWith, refs
    <3> QED
      BY <3>1 DEF Objects, Unmade, TreeOf
  <2>4. CASE AddFiles(q)
    <3>1. /\ pc[q] = "adding" /\ pc'[q] = "writing" /\ base' = base /\ pending' = pending
          /\ index'[q].files = index[q].files \cup {q}
      BY <2>4 DEF TypeOK, AddFiles, Goto, IndexOf, IndexFile, IndexWith, refs
    <3> QED
      BY <3>1 DEF Objects, Unmade, Indexes, TreeOf
  <2>5. CASE RequestPush(q)
    <3>1. pc'[q] = "pushing" /\ base' = base /\ pending' = pending
      BY <2>5 DEF TypeOK, RequestPush, Goto, refs
    <3> QED
      BY <3>1
  <2>6. CASE UpdateRef(q)
    <3>1. /\ pc[q] = "naming" /\ pc'[q] = "cleaning" /\ base' = base /\ pending'[q] = q
      BY <2>6 DEF TypeOK, UpdateRef, Goto, PendingName
    <3> QED
      BY <3>1 DEF Objects, Indexes, IsMade
  <2> QED
    BY <2>1, <2>2, <2>3, <2>4, <2>5, <2>6 DEF CommitSteps
<1>3. \A x \in Request : IsMade(base'[x]) /\ IsMade(pending'[x])
  BY <1>1, <1>2 DEF Objects, RefsAreMade
<1>4. Unmade'
  BY <1>1, <1>2 DEF Objects, Unmade
<1>5. Indexes'
  BY <1>1, <1>2 DEF Objects, Indexes, TreeOf
<1> QED
  BY <1>1, <1>3, <1>4, <1>5, ObjectsMove DEF Objects, RefsAreMade

\* The commit holds what its index does: the files of its parent, and its own.
LEMMA ObjectsCommitIndex ==
  ASSUME TypeOK, Objects, NEW q \in Request, CommitIndex(q)
  PROVE  Objects'
<1>1. /\ pc[q] = "writing" /\ pc'[q] = "naming"
      /\ \A x \in Request \ {q} : pc'[x] = pc[x]
      /\ tree' = [tree EXCEPT ![q] = index[q].files]
      /\ history' = [history EXCEPT ![q] = HistoryOf(base[q]) \cup {q}]
      /\ UNCHANGED <<base, index, tracking, pending, remote, heard>>
  BY DEF TypeOK, CommitIndex, Goto, IndexOf, refs, remotes, workers
<1>2. /\ base[q] \in Commit \cup {NoCommit} /\ IsMade(base[q])
      /\ q \in Commit /\ history[q] = {}
      /\ index[q].files = HistoryOf(base[q]) \cup {q}
  BY <1>1 DEF TypeOK, Commit, Objects, Histories, RefsAreMade, Unmade, Indexes, HistoryOf, TreeOf
<1>3. /\ Histories'
      /\ \A d \in Commit \cup {NoCommit} :
           IsMade(d) => /\ IsMade(d)'
                        /\ HistoryOf(d)' = HistoryOf(d) /\ TreeOf(d)' = TreeOf(d)
  BY <1>1, <1>2, ObjectsGrow
<1>4. RefsAreMade'
  BY <1>1, <1>3 DEF TypeOK, Commit, Objects, RefsAreMade
<1>5. Unmade'
  BY <1>1 DEF TypeOK, Commit, Objects, Unmade
<1>6. Indexes'
  <2>1. q \in history'[q] /\ \A x \in Request \ {q} : history'[x] = history[x]
    BY <1>1, <1>2 DEF TypeOK, Commit
  <2>2. \A x \in Request : TreeOf(base[x])' = TreeOf(base[x])
    BY <1>1, <1>3 DEF TypeOK, Objects, RefsAreMade, TreeOf
  <2> QED
    BY <1>1, <2>1, <2>2 DEF Objects, Indexes
<1> QED
  BY <1>3, <1>4, <1>5, <1>6 DEF Objects

LEMMA ObjectsOutside ==
  ASSUME TypeOK, Objects, NEW u \in Url, NEW b \in Branch,
         OutsideDelete(u, b) \/ \E c \in Outside : OutsidePush(c, u, b)
  PROVE  Objects'
<1>1. CASE OutsideDelete(u, b)
  <2>1. \A v \in Url, d \in Branch : remote'[v][d] \in {remote[v][d], NoCommit}
    BY <1>1 DEF TypeOK, OutsideDelete
  <2>2. \A v \in Url, d \in Branch : IsMade(remote'[v][d])
    BY <2>1 DEF Objects, RefsAreMade, IsMade
  <2>3. UNCHANGED <<history, tree, pc, base, index, pending, tracking, heard>>
    BY <1>1 DEF OutsideDelete, requests, refs, objects, workers
  <2> QED
    BY <2>2, <2>3, ObjectsQuietly DEF Objects, RefsAreMade
<1>2. CASE \E c \in Outside : OutsidePush(c, u, b)
  <2>1. PICK c \in Outside : OutsidePush(c, u, b)
    BY <1>2
  <2>2. /\ c \in Commit /\ history[c] = {}
        /\ remote[u][b] \in Commit \cup {NoCommit} /\ IsMade(remote[u][b])
        /\ history' = [history EXCEPT ![c] = HistoryOf(remote[u][b]) \cup {c}]
        /\ tree' = [tree EXCEPT ![c] = HistoryOf(remote[u][b]) \cup {c}]
        /\ UNCHANGED <<pc, base, index, pending, tracking, heard>>
    BY <2>1 DEF OutsidePush, TypeOK, Commit, Objects, RefsAreMade, Histories, HistoryOf, TreeOf,
                requests, refs, workers
  <2>3. /\ Histories'
        /\ \A d \in Commit \cup {NoCommit} :
             IsMade(d) => /\ IsMade(d)'
                          /\ HistoryOf(d)' = HistoryOf(d) /\ TreeOf(d)' = TreeOf(d)
    BY <2>2, ObjectsGrow
  <2>4. c \in history'[c] /\ c \notin Request
        /\ \A x \in Request : history'[x] = history[x]
    BY <2>2, CommitsAreDistinct DEF TypeOK, Commit
  <2>5. \A v \in Url, d \in Branch : remote'[v][d] \in {remote[v][d], c}
    BY <2>1 DEF TypeOK, OutsidePush
  <2>6. RefsAreMade'
    <3>1. \A v \in Url, d \in Branch : IsMade(remote[v][d])'
      <4>1. \A e \in Commit \cup {NoCommit} : IsMade(e) => e = NoCommit \/ e \in history'[e]
        BY <2>3 DEF IsMade
      <4>2. ASSUME NEW v \in Url, NEW d \in Branch PROVE IsMade(remote[v][d])'
        <5>1. /\ remote[v][d] \in Commit \cup {NoCommit} /\ IsMade(remote[v][d])
              /\ remote'[v][d] = remote[v][d] \/ remote'[v][d] = c
          BY <2>5 DEF TypeOK, Objects, RefsAreMade
        <5> QED
          BY <2>4, <4>1, <5>1 DEF IsMade
      <4> QED
        BY <4>2
    <3>2. \A x \in Request : IsMade(base[x])' /\ IsMade(pending[x])'
      BY <2>2, <2>3 DEF TypeOK, Commit, Objects, RefsAreMade
    <3>3. \A d \in Branch : IsMade(tracking[d])'
      BY <2>2, <2>3 DEF TypeOK, Objects, RefsAreMade
    <3>4. \A w \in Worker, d \in Branch : IsMade(heard[w].heads[d])'
      BY <2>2, <2>3 DEF TypeOK, Objects, RefsAreMade
    <3> QED
      BY <3>1, <3>2, <3>3, <3>4 DEF RefsAreMade
  <2>7. Unmade'
    BY <2>2, <2>4 DEF Objects, Unmade
  <2>8. \A x \in Request : TreeOf(base[x])' = TreeOf(base[x])
    BY <2>2, <2>3 DEF TypeOK, Objects, RefsAreMade, TreeOf
  <2>9. Indexes'
    BY <2>2, <2>4, <2>8 DEF Objects, Indexes
  <2> QED
    BY <2>3, <2>6, <2>7, <2>9 DEF Objects
<1> QED
  BY <1>1, <1>2

\* Workers move refs between the clone and the remotes.
LEMMA ObjectsWorkerSteps ==
  ASSUME TypeOK, Objects, NEW w \in Worker, WorkerSteps(w)
  PROVE  Objects'
<1>1. UNCHANGED <<history, tree, pc, base, index, pending>>
  BY DEF WorkerSteps, TakeJob, HearRefs, StoreRefs, Push, JobFails, SetOrigin, requests, refs,
         objects
<1>2. CASE TakeJob(w) \/ JobFails(w) \/ SetOrigin(w)
  <2>1. UNCHANGED <<tracking, remote, heard>>
    BY <1>2 DEF TakeJob, JobFails, SetOrigin, Finish, Idle, refs, remotes
  <2> QED
    BY <1>1, <2>1, ObjectsQuietly DEF Objects, RefsAreMade
<1>3. CASE HearRefs(w)
  <2>1. /\ UNCHANGED <<tracking, remote>>
        /\ \A v \in Worker, b \in Branch :
             heard'[v].heads[b] \in {heard[v].heads[b], remote[origin][b]}
    BY <1>3 DEF TypeOK, HearRefs, refs, remotes
  <2>2. \A v \in Worker, b \in Branch : IsMade(heard'[v].heads[b])
    BY <2>1 DEF TypeOK, Objects, RefsAreMade
  <2> QED
    BY <1>1, <2>1, <2>2, ObjectsQuietly DEF Objects, RefsAreMade
<1>4. CASE StoreRefs(w)
  <2>1. /\ UNCHANGED <<remote, heard>>
        /\ \A b \in Branch : tracking'[b] \in {tracking[b], heard[w].heads[b]}
    BY <1>4 DEF StoreRefs, Stored, Finish, Idle, remotes
  <2>2. \A b \in Branch : IsMade(tracking'[b])
    BY <2>1 DEF Objects, RefsAreMade
  <2> QED
    BY <1>1, <2>1, <2>2, ObjectsQuietly DEF Objects, RefsAreMade
<1>5. CASE Push(w)
  <2>1. PICK c : c = pending[job[w].caller]
    OBVIOUS
  <2>2. IsMade(c)
    BY <1>5, <2>1, Jobs DEF Push, TypeOK, Objects, RefsAreMade
  <2>3. /\ heard' = heard
        /\ \A b \in Branch : tracking'[b] \in {tracking[b], c}
        /\ \A u \in Url, b \in Branch : remote'[u][b] \in {remote[u][b], c}
    <3>1. heard' = heard
      BY <1>5 DEF Push, Finish, Idle
    <3>2. \A b \in Branch : tracking'[b] \in {tracking[b], c}
      <4>1. \/ tracking' = tracking
            \/ tracking' = [tracking EXCEPT ![branch[job[w].caller]] = c]
        BY <1>5, <2>1 DEF Push, PendingName
      <4> QED
        BY <4>1 DEF TypeOK
    <3>3. \A u \in Url, b \in Branch : remote'[u][b] \in {remote[u][b], c}
      <4>1. remote' = [remote EXCEPT ![heard[w].url][branch[job[w].caller]] = c]
        BY <1>5, <2>1 DEF Push, PendingName
      <4> QED
        BY <4>1 DEF TypeOK
    <3> QED
      BY <3>1, <3>2, <3>3
  <2>4. /\ \A b \in Branch : IsMade(tracking'[b])
        /\ \A u \in Url, b \in Branch : IsMade(remote'[u][b])
    BY <2>2, <2>3 DEF Objects, RefsAreMade
  <2> QED
    BY <1>1, <2>3, <2>4, ObjectsQuietly DEF Objects, RefsAreMade
<1> QED
  BY <1>2, <1>3, <1>4, <1>5 DEF WorkerSteps

LEMMA ObjectsNext == TypeOK /\ Objects /\ [Next]_vars => Objects'
<1> SUFFICES ASSUME TypeOK, Objects, [Next]_vars PROVE Objects'
  OBVIOUS
<1>1. CASE UNCHANGED vars
  BY <1>1, ObjectsQuietly
  DEF vars, requests, refs, objects, remotes, workers, Objects, RefsAreMade
<1>2. CASE \E c \in Connect : ReceiveConnect(c)
  BY <1>2, ObjectsQuietly
  DEF ReceiveConnect, refs, objects, remotes, workers, Objects, RefsAreMade
<1> QED
  BY <1>1, <1>2, ObjectsCommitSteps, ObjectsCommitIndex, ObjectsWorkerSteps, ObjectsOutside
  DEF Next, Terminated, CommitSteps

\* CommitsHoldTheirHistory is an invariant of Commits: however the steps of requests that
\* prepare commits interleave, no commit holds the files of another that it does not
\* build on, nor lacks those of one that it does.
THEOREM CommitsHold == Spec => []CommitsHoldTheirHistory
<1>1. Objects => CommitsHoldTheirHistory
  BY DEF Objects, Histories, CommitsHoldTheirHistory
<1> QED
  BY <1>1, ObjectsInit, ObjectsNext, TypeCorrect, PTL DEF Spec

----------------------------------------------------------------------------
(***************************************************************************)
(* Jobs and who waits for them                                             *)
(***************************************************************************)
\* A job to fetch or to push is waited for, and what is to be pushed has its pending ref.
Waits(j) ==
  /\ outcome[j.caller] = "none"
  /\ j.name = "fetch" => pc[j.caller] = "fetching"
  /\ j.name = "push" => pc[j.caller] = "pushing" /\ pending[j.caller] = j.caller

JobsAreWaitedFor ==
  /\ \A i \in 1..Len(queue) : queue[i] \in CallerJob => Waits(queue[i])
  /\ \A w \in Worker : job[w] \in CallerJob => Waits(job[w])

\* Each is in one place, once.
JobsAreOnce ==
  /\ \A i, k \in 1..Len(queue) : queue[i] \in CallerJob /\ queue[i] = queue[k] => i = k
  /\ \A v, w \in Worker : job[v] \in CallerJob /\ job[v] = job[w] => v = w
  /\ \A i \in 1..Len(queue), w \in Worker : queue[i] \in CallerJob => queue[i] # job[w]

\* What a request knows of its jobs, when it waits for none.
Knows == \A q \in Request :
  /\ pc[q] \notin {"fetching", "pushing", "ok", "failed"} => outcome[q] = "none"
  /\ pc[q] = "cleaning" => pending[q] = q

Tasks == JobsAreWaitedFor /\ JobsAreOnce /\ Knows

LEMMA TasksInit == Init => Tasks
<1> SUFFICES ASSUME Init PROVE Tasks
  OBVIOUS
<1>1. queue = <<>>
  BY DEF Init
<1>2. 1..Len(queue) = {}
  BY <1>1
<1>3. /\ \A w \in Worker : job[w] \notin CallerJob
      /\ \A q \in Request : pc[q] = "idle" /\ outcome[q] = "none"
  BY Jobs DEF Init, Job
<1> QED
  BY <1>2, <1>3 DEF Tasks, JobsAreWaitedFor, JobsAreOnce, Knows

\* A request that waits for no job moves, and adds none.
LEMMA TasksMove ==
  ASSUME TypeOK, Tasks, NEW q \in Request,
         UNCHANGED <<queue, job>>,
         \A x \in Request \ {q} : /\ pc'[x] = pc[x] /\ outcome'[x] = outcome[x]
                                  /\ pending'[x] = pending[x],
         \A j \in CallerJob : Waits(j) => j.caller # q,
         pc'[q] \notin {"fetching", "pushing", "ok", "failed"} => outcome'[q] = "none",
         pc'[q] = "cleaning" => pending'[q] = q
  PROVE  Tasks'
<1>1. \A j \in CallerJob : Waits(j) => Waits(j)'
  BY Jobs DEF Waits
<1>2. JobsAreWaitedFor'
  BY <1>1 DEF Tasks, JobsAreWaitedFor
<1>3. JobsAreOnce'
  BY DEF Tasks, JobsAreOnce
<1>4. Knows'
  BY DEF Tasks, Knows
<1> QED
  BY <1>2, <1>3, <1>4 DEF Tasks

\* What joins the queue is waited for, and new there if it is a request's.
LEMMA TasksAppend ==
  ASSUME TypeOK, Tasks, NEW j \in Job, queue' = Append(queue, j), job' = job,
         \A k \in CallerJob : Waits(k) => Waits(k)',
         j \in CallerJob => Waits(j)' /\ ~Waits(j),
         Knows'
  PROVE  Tasks'
<1>1. /\ Len(queue) \in Nat /\ Len(queue') = Len(queue) + 1
      /\ \A i \in 1..Len(queue) : queue'[i] = queue[i] /\ queue[i] \in Job
      /\ queue'[Len(queue) + 1] = j
  BY DEF TypeOK
<1>2. \A i \in 1..Len(queue') : i \in 1..Len(queue) \/ i = Len(queue) + 1
  BY <1>1
<1>3. j \in CallerJob => /\ \A i \in 1..Len(queue) : queue[i] # j
                         /\ \A w \in Worker : job[w] # j
  BY DEF Tasks, JobsAreWaitedFor
<1>4. \A i \in 1..Len(queue'), k \in CallerJob : k = queue'[i] => Waits(k)'
  <2> SUFFICES ASSUME NEW i \in 1..Len(queue'), NEW k \in CallerJob, k = queue'[i]
               PROVE  Waits(k)'
    OBVIOUS
  <2>1. CASE i \in 1..Len(queue)
    BY <2>1, <1>1 DEF Tasks, JobsAreWaitedFor
  <2>2. CASE i = Len(queue) + 1
    BY <2>2, <1>1
  <2> QED
    BY <1>2, <2>1, <2>2
<1>5. \A w \in Worker, k \in CallerJob : k = job'[w] => Waits(k)'
  BY DEF Tasks, JobsAreWaitedFor
<1>6. JobsAreOnce'
  BY <1>1, <1>2, <1>3 DEF Tasks, JobsAreOnce
<1> QED
  BY <1>4, <1>5, <1>6 DEF Tasks, JobsAreWaitedFor

LEMMA TasksReceiveCommit == ASSUME TypeOK, Tasks, NEW q \in Request, ReceiveCommit(q) PROVE Tasks'
<1>1. /\ pc[q] = "idle" /\ pc'[q] = "fetching"
      /\ \A x \in Request \ {q} : pc'[x] = pc[x]
      /\ queue' = Append(queue, [name |-> "fetch", caller |-> q])
      /\ UNCHANGED <<outcome, pending, job>>
  BY DEF TypeOK, ReceiveCommit, Goto, Enqueue, refs, workers
<1>2. PICK j \in CallerJob : j = [name |-> "fetch", caller |-> q]
  BY Jobs
<1>3. outcome[q] = "none"
  BY <1>1 DEF Tasks, Knows
<1>4. \A k \in CallerJob : Waits(k) => Waits(k)'
  BY <1>1, Jobs DEF Waits
<1>5. Waits(j)' /\ ~Waits(j)
  BY <1>1, <1>2, <1>3 DEF Waits
<1>6. Knows'
  BY <1>1 DEF Tasks, Knows
<1> QED
  BY <1>1, <1>2, <1>4, <1>5, <1>6, TasksAppend DEF Job

LEMMA TasksRequestPush == ASSUME TypeOK, Tasks, NEW q \in Request, RequestPush(q) PROVE Tasks'
<1>1. /\ pc[q] = "cleaning" /\ pc'[q] = "pushing"
      /\ \A x \in Request \ {q} : pc'[x] = pc[x]
      /\ queue' = Append(queue, [name |-> "push", caller |-> q])
      /\ UNCHANGED <<outcome, pending, job>>
  BY DEF TypeOK, RequestPush, Goto, Enqueue, refs, workers
<1>2. PICK j \in CallerJob : j = [name |-> "push", caller |-> q]
  BY Jobs
<1>3. outcome[q] = "none" /\ pending[q] = q
  BY <1>1 DEF Tasks, Knows
<1>4. \A k \in CallerJob : Waits(k) => Waits(k)'
  BY <1>1, Jobs DEF Waits
<1>5. Waits(j)' /\ ~Waits(j)
  BY <1>1, <1>2, <1>3 DEF Waits
<1>6. Knows'
  BY <1>1 DEF Tasks, Knows
<1> QED
  BY <1>1, <1>2, <1>4, <1>5, <1>6, TasksAppend DEF Job

LEMMA TasksReceiveConnect ==
  ASSUME TypeOK, Tasks, NEW c \in Connect, ReceiveConnect(c)
  PROVE  Tasks'
<1>1. PICK u \in Url : queue' = Append(queue, [name |-> "setOriginTo", url |-> u])
  BY DEF ReceiveConnect, Enqueue
<1>2. UNCHANGED <<pc, outcome, pending, job>>
  BY DEF ReceiveConnect, refs, workers
<1>3. PICK j \in Job : j = [name |-> "setOriginTo", url |-> u] /\ j \notin CallerJob
  BY Jobs DEF Job
<1>4. (\A k \in CallerJob : Waits(k) => Waits(k)') /\ Knows'
  BY <1>2 DEF Waits, Tasks, Knows
<1> QED
  BY <1>1, <1>2, <1>3, <1>4, TasksAppend

LEMMA TasksCommitSteps ==
  ASSUME TypeOK, Tasks, NEW q \in Request, CommitSteps(q), ~RequestPush(q)
  PROVE  Tasks'
<1>1. /\ UNCHANGED <<queue, job>>
      /\ \A x \in Request \ {q} : /\ pc'[x] = pc[x] /\ outcome'[x] = outcome[x]
                                  /\ pending'[x] = pending[x]
  <2>1. CASE Fetched(q)
    BY <2>1 DEF TypeOK, Fetched, Goto, refs, workers
  <2>2. CASE ShowRef(q) \/ ReadTree(q) \/ ReadTreeFails(q) \/ AddFiles(q)
    BY <2>2 DEF TypeOK, ShowRef, ReadTree, ReadTreeFails, AddFiles, Goto, refs, workers
  <2>3. CASE CommitIndex(q) \/ UpdateRef(q) \/ CommitFails(q) \/ Pushed(q)
    BY <2>3 DEF TypeOK, CommitIndex, UpdateRef, CommitFails, Pushed, Goto, PendingName, refs,
                workers
  <2> QED
    BY <2>1, <2>2, <2>3 DEF CommitSteps
<1>2. \/ pc[q] \in {"fetching", "pushing"} /\ outcome[q] # "none"
      \/ pc[q] \in {"showing", "priming", "adding", "writing", "naming", "cleaning"}
  BY DEF CommitSteps, Fetched, ShowRef, ReadTree, ReadTreeFails, AddFiles, CommitIndex, UpdateRef,
         RequestPush, CommitFails, Pushed
<1>3. \A j \in CallerJob : Waits(j) => j.caller # q
  BY <1>2, Jobs DEF Waits
<1>4. /\ pc'[q] \notin {"fetching", "pushing", "ok", "failed"} => outcome'[q] = "none"
      /\ pc'[q] = "cleaning" => pending'[q] = q
  <2>1. CASE Fetched(q)
    BY <2>1 DEF TypeOK, Fetched, Goto
  <2>2. CASE ShowRef(q) \/ ReadTree(q) \/ ReadTreeFails(q) \/ AddFiles(q) \/ CommitIndex(q)
    BY <2>2 DEF TypeOK, ShowRef, ReadTree, ReadTreeFails, AddFiles, CommitIndex, Goto, Tasks, Knows
  <2>3. CASE UpdateRef(q)
    BY <2>3 DEF TypeOK, UpdateRef, Goto, PendingName, Tasks, Knows
  <2>4. CASE CommitFails(q) \/ Pushed(q)
    BY <2>4 DEF TypeOK, CommitFails, Pushed, Goto
  <2> QED
    BY <2>1, <2>2, <2>3, <2>4 DEF CommitSteps
<1> QED
  BY <1>1, <1>3, <1>4, TasksMove

LEMMA TasksTakeJob == ASSUME TypeOK, Tasks, NEW w \in Worker, TakeJob(w) PROVE Tasks'
<1>1. /\ UNCHANGED <<pc, outcome, pending>>
      /\ job' = [job EXCEPT ![w] = Head(queue)]
      /\ queue' = Tail(queue) /\ queue # <<>>
  BY DEF TakeJob, requests, refs
<1>2. /\ Len(queue) \in Nat \ {0} /\ Len(queue') = Len(queue) - 1
      /\ Head(queue) = queue[1]
      /\ \A i \in 1..Len(queue') : i + 1 \in 1..Len(queue) /\ queue'[i] = queue[i + 1]
  BY <1>1 DEF TypeOK
<1>3. job'[w] = queue[1] /\ 1 \in 1..Len(queue) /\ \A v \in Worker \ {w} : job'[v] = job[v]
  BY <1>1, <1>2 DEF TypeOK
<1>4. JobsAreWaitedFor'
  BY <1>1, <1>2, <1>3 DEF Tasks, JobsAreWaitedFor, Waits
<1>5. JobsAreOnce'
  BY <1>1, <1>2, <1>3 DEF Tasks, JobsAreOnce
<1> QED
  BY <1>1, <1>4, <1>5 DEF Tasks, Knows

\* A job that has ended was the last that its request had about.
LEMMA TasksFinish ==
  ASSUME TypeOK, Tasks, NEW w \in Worker, job[w] \in CallerJob,
         NEW result \in {"ok", "error"}, Finish(w, result),
         UNCHANGED <<pc, pending, queue>>
  PROVE  Tasks'
<1>1. PICK j \in CallerJob : j = job[w]
  OBVIOUS
<1>2. /\ j.caller \in Request
      /\ \A x \in Request \ {j.caller} : outcome'[x] = outcome[x]
      /\ job'[w] = NoJob /\ \A v \in Worker \ {w} : job'[v] = job[v]
  BY <1>1, Jobs DEF TypeOK, Finish, Idle
<1>3. Waits(j) /\ NoJob \notin CallerJob
  BY <1>1, Jobs DEF Tasks, JobsAreWaitedFor, Job
<1>4. \A k \in CallerJob : Waits(k) /\ k # j => Waits(k)'
  <2>1. \A k \in CallerJob : Waits(k) /\ k.caller = j.caller => k = j
    BY <1>3, Jobs DEF Waits, CallerJob
  <2> QED
    BY <1>2, <2>1, Jobs DEF Waits
<1>5. /\ \A i \in 1..Len(queue) : queue[i] \in CallerJob => queue[i] # j
      /\ \A v \in Worker \ {w} : job[v] # j
  BY <1>1 DEF Tasks, JobsAreOnce
<1>6. JobsAreWaitedFor'
  <2>1. \A i \in 1..Len(queue), k \in CallerJob : k = queue'[i] => Waits(k)'
    BY <1>4, <1>5 DEF Tasks, JobsAreWaitedFor
  <2>2. \A v \in Worker, k \in CallerJob : k = job'[v] => Waits(k)'
    BY <1>2, <1>3, <1>4, <1>5 DEF Tasks, JobsAreWaitedFor
  <2> QED
    BY <2>1, <2>2 DEF JobsAreWaitedFor
<1>7. JobsAreOnce'
  BY <1>2, <1>3 DEF Tasks, JobsAreOnce
<1>8. Knows'
  BY <1>2, <1>3, Jobs DEF Tasks, Knows, Waits
<1> QED
  BY <1>6, <1>7, <1>8 DEF Tasks

LEMMA TasksWorkerSteps == ASSUME TypeOK, Tasks, NEW w \in Worker, WorkerSteps(w) PROVE Tasks'
<1>1. CASE TakeJob(w)
  BY <1>1, TasksTakeJob
<1>2. CASE HearRefs(w)
  BY <1>2
  DEF HearRefs, requests, refs, Tasks, JobsAreWaitedFor, JobsAreOnce, Knows, Waits
<1>3. CASE StoreRefs(w) \/ Push(w) \/ JobFails(w)
  <2>1. /\ job[w] \in CallerJob /\ UNCHANGED <<pc, pending, queue>>
        /\ \E result \in {"ok", "error"} : Finish(w, result)
    BY <1>3 DEF TypeOK, StoreRefs, Push, JobFails, requests, refs
  <2> QED
    BY <2>1, TasksFinish
<1>4. CASE SetOrigin(w)
  <2>1. /\ UNCHANGED <<pc, outcome, pending, queue>>
        /\ \A v \in Worker : job'[v] = job[v] \/ job'[v] = NoJob
    BY <1>4 DEF TypeOK, SetOrigin, Idle, requests
  <2>2. NoJob \notin CallerJob
    BY Jobs DEF Job
  <2>3. JobsAreWaitedFor'
    BY <2>1, <2>2 DEF Tasks, JobsAreWaitedFor, Waits
  <2>4. JobsAreOnce'
    BY <2>1, <2>2 DEF Tasks, JobsAreOnce
  <2> QED
    BY <2>1, <2>3, <2>4 DEF Tasks, Knows
<1> QED
  BY <1>1, <1>2, <1>3, <1>4 DEF WorkerSteps

LEMMA TasksNext == TypeOK /\ Tasks /\ [Next]_vars => Tasks'
<1> SUFFICES ASSUME TypeOK, Tasks, [Next]_vars PROVE Tasks'
  OBVIOUS
<1>1. CASE UNCHANGED <<pc, outcome, pending, queue, job>>
  BY <1>1 DEF Tasks, JobsAreWaitedFor, JobsAreOnce, Knows, Waits
<1>2. CASE UNCHANGED vars
  BY <1>1, <1>2 DEF vars, requests, refs, workers
<1>3. CASE \E u \in Url, b \in Branch :
            OutsideDelete(u, b) \/ \E c \in Outside : OutsidePush(c, u, b)
  BY <1>1, <1>3 DEF OutsideDelete, OutsidePush, requests, refs, workers
<1> QED
  BY <1>2, <1>3, TasksReceiveCommit, TasksCommitSteps, TasksRequestPush, TasksReceiveConnect,
     TasksWorkerSteps
  DEF Next, Terminated

----------------------------------------------------------------------------
(***************************************************************************)
(* What is on the remotes                                                  *)
(***************************************************************************)
\* What a push does: the remote has the caller's commit, on top of what it had.
LEMMA PushGrows ==
  ASSUME TypeOK, Objects, Tasks, NEW w \in Worker, Push(w)
  PROVE  \E q \in Request, u \in Url :
           /\ q = job[w].caller /\ pc[q] = "pushing" /\ outcome[q] = "none"
           /\ remote' = [remote EXCEPT ![u][branch[q]] = q]
           /\ landed' = [landed EXCEPT ![q] = u]
           /\ UNCHANGED <<history, branch, deleted>>
           /\ q \in history[q]
           /\ HistoryOf(remote[u][branch[q]]) \subseteq history[q]
<1>1. PICK j \in CallerJob : j = job[w]
  BY DEF TypeOK, Push
<1>2. PICK u \in Url : u = heard[w].url
  BY DEF TypeOK, Push
<1>3. j.name = "push" /\ Waits(j) /\ j.caller \in Request
  BY <1>1, Jobs DEF Push, Tasks, JobsAreWaitedFor
<1>4. PICK q \in Request : q = j.caller /\ pending[q] = q
  BY <1>3 DEF Waits
<1>5. /\ MayUpdate(remote[u][branch[q]], q)
      /\ remote' = [remote EXCEPT ![u][branch[q]] = q]
      /\ landed' = [landed EXCEPT ![q] = u]
      /\ UNCHANGED <<history, branch, deleted>>
  BY <1>1, <1>2, <1>4 DEF Push, PendingName, requests, objects
<1>6. q \in Commit /\ q \in history[q]
  BY <1>4, NoValues DEF Commit, Objects, RefsAreMade, IsMade
<1>7. HistoryOf(remote[u][branch[q]]) \subseteq history[q]
  BY <1>5, <1>6 DEF MayUpdate, HistoryOf, Objects, Histories
<1>8. q = job[w].caller /\ pc[q] = "pushing" /\ outcome[q] = "none"
  BY <1>1, <1>3, <1>4 DEF Waits
<1> QED
  BY <1>5, <1>6, <1>7, <1>8

\* A branch of a remote loses nothing, unless others delete it.
RemotesGrow == \A u \in Url, b \in Branch :
  \/ HistoryOf(remote[u][b]) \subseteq HistoryOf(remote[u][b])'
  \/ <<u, b>> \in deleted'

LEMMA RemotesGrowPush ==
  ASSUME TypeOK, Objects, Tasks, NEW w \in Worker, Push(w), NEW v \in Url, NEW d \in Branch
  PROVE  HistoryOf(remote[v][d]) \subseteq HistoryOf(remote[v][d])'
<1>1. PICK q \in Request, u \in Url :
           /\ remote' = [remote EXCEPT ![u][branch[q]] = q]
           /\ history' = history
           /\ HistoryOf(remote[u][branch[q]]) \subseteq history[q]
  BY PushGrows
<1>2. branch[q] \in Branch /\ q # NoCommit
  BY NoValues DEF TypeOK, Commit
<1>3. CASE v = u /\ d = branch[q]
  <2>1. remote'[v][d] = q
    BY <1>1, <1>2, <1>3 DEF TypeOK
  <2> QED
    BY <1>1, <1>2, <1>3, <2>1 DEF HistoryOf
<1>4. CASE ~(v = u /\ d = branch[q])
  <2>1. remote'[v][d] = remote[v][d]
    BY <1>1, <1>4 DEF TypeOK
  <2> QED
    BY <1>1, <2>1 DEF HistoryOf
<1> QED
  BY <1>3, <1>4

LEMMA RemotesGrowOutsidePush ==
  ASSUME TypeOK, Objects, NEW u \in Url, NEW b \in Branch, NEW c \in Outside, OutsidePush(c, u, b),
         NEW v \in Url, NEW d \in Branch
  PROVE  HistoryOf(remote[v][d]) \subseteq HistoryOf(remote[v][d])'
<1>1. /\ c \in Commit /\ c # NoCommit /\ history[c] = {}
      /\ history'[c] = HistoryOf(remote[u][b]) \cup {c}
      /\ \A e \in Commit \ {c} : history'[e] = history[e]
      /\ remote' = [remote EXCEPT ![u][b] = c]
  BY NoValues DEF TypeOK, Commit, OutsidePush
<1>2. remote[v][d] \in Commit \cup {NoCommit}
  BY DEF TypeOK
<1>3. CASE v = u /\ d = b
  <2>1. remote'[v][d] = c
    BY <1>1, <1>3 DEF TypeOK
  <2> QED
    BY <1>1, <1>3, <2>1 DEF HistoryOf
<1>4. CASE ~(v = u /\ d = b)
  <2>1. remote'[v][d] = remote[v][d]
    BY <1>1, <1>4 DEF TypeOK
  <2> QED
    BY <1>1, <1>2, <2>1 DEF HistoryOf
<1> QED
  BY <1>3, <1>4

LEMMA RemotesGrowNext == TypeOK /\ Objects /\ Tasks /\ [Next]_vars => RemotesGrow
<1> SUFFICES ASSUME TypeOK, Objects, Tasks, [Next]_vars PROVE RemotesGrow
  OBVIOUS
<1>1. CASE UNCHANGED <<remote, history>>
  BY <1>1 DEF RemotesGrow, HistoryOf
<1>2. CASE UNCHANGED vars
  BY <1>1, <1>2 DEF vars, remotes, objects
<1>3. ASSUME NEW q \in Request, ReceiveCommit(q) \/ CommitSteps(q) PROVE RemotesGrow
  <2>1. CASE CommitIndex(q)
    <3>1. /\ remote' = remote /\ history[q] = {}
          /\ \A e \in Commit \ {q} : history'[e] = history[e]
      BY <2>1 DEF TypeOK, CommitIndex, remotes, Objects, Unmade
    <3>2. ASSUME NEW u \in Url, NEW b \in Branch
          PROVE  HistoryOf(remote[u][b]) \subseteq HistoryOf(remote[u][b])'
      <4>1. remote[u][b] \in Commit \cup {NoCommit}
        BY DEF TypeOK
      <4> QED
        BY <3>1, <4>1 DEF HistoryOf
    <3> QED
      BY <3>2 DEF RemotesGrow
  <2>2. CASE ~CommitIndex(q)
    BY <1>1, <1>3, <2>2
    DEF ReceiveCommit, CommitSteps, Fetched, ShowRef, ReadTree, ReadTreeFails, AddFiles,
        UpdateRef, RequestPush, CommitFails, Pushed, objects, remotes
  <2> QED
    BY <2>1, <2>2
<1>4. CASE \E c \in Connect : ReceiveConnect(c)
  BY <1>1, <1>4 DEF ReceiveConnect, objects, remotes
<1>5. ASSUME NEW w \in Worker, WorkerSteps(w) PROVE RemotesGrow
  <2>1. CASE Push(w)
    BY <2>1, RemotesGrowPush DEF RemotesGrow
  <2>2. CASE ~Push(w)
    BY <1>1, <1>5, <2>2
    DEF WorkerSteps, TakeJob, HearRefs, StoreRefs, JobFails, SetOrigin, objects, remotes
  <2> QED
    BY <2>1, <2>2
<1>6. ASSUME NEW u \in Url, NEW b \in Branch, OutsideDelete(u, b) PROVE RemotesGrow
  <2>1. /\ history' = history /\ deleted' = deleted \cup {<<u, b>>}
        /\ \A v \in Url, d \in Branch : v # u \/ d # b => remote'[v][d] = remote[v][d]
    BY <1>6 DEF TypeOK, OutsideDelete, objects
  <2> QED
    BY <2>1 DEF RemotesGrow, HistoryOf
<1>7. ASSUME NEW u \in Url, NEW b \in Branch, NEW c \in Outside, OutsidePush(c, u, b)
      PROVE  RemotesGrow
  BY <1>7, RemotesGrowOutsidePush DEF RemotesGrow
<1> QED
  BY <1>2, <1>3, <1>4, <1>5, <1>6, <1>7 DEF Next, Terminated

\* BranchesOnlyGrow holds of Commits: no step of a worker takes anything from a branch of
\* a remote, whatever others have pushed since the commit was prepared.
THEOREM BranchesGrow == Spec => BranchesOnlyGrow
<1>1. ASSUME TypeOK, Objects, Tasks, [Next]_vars, job' # job,
             NEW u \in Url, NEW b \in Branch
      PROVE  HistoryOf(remote[u][b]) \subseteq HistoryOf(remote[u][b])'
  <2>1. PICK w \in Worker : WorkerSteps(w)
    BY <1>1
    DEF Next, Terminated, vars, ReceiveCommit, CommitSteps, Fetched, ShowRef, ReadTree,
        ReadTreeFails, AddFiles, CommitIndex, UpdateRef, RequestPush, CommitFails, Pushed,
        ReceiveConnect, OutsideDelete, OutsidePush, workers
  <2>2. CASE Push(w)
    BY <1>1, <2>2, RemotesGrowPush
  <2>3. CASE ~Push(w)
    <3>1. UNCHANGED <<remote, history>>
      BY <2>1, <2>3
      DEF WorkerSteps, TakeJob, HearRefs, StoreRefs, JobFails, SetOrigin, objects, remotes
    <3> QED
      BY <3>1 DEF HistoryOf
  <2> QED
    BY <2>2, <2>3
<1>2. TypeOK /\ Objects /\ Tasks /\ [Next]_vars =>
        [\A u \in Url, b \in Branch :
           job' # job => HistoryOf(remote[u][b]) \subseteq HistoryOf(remote[u][b])']_vars
  BY <1>1
<1> QED
  BY <1>2, TypeCorrect, ObjectsInit, ObjectsNext, TasksInit, TasksNext, PTL
  DEF Spec, BranchesOnlyGrow

\* The remote that took a commit has it still, or others have deleted the branch.
HasLanded(q) ==
  /\ landed[q] \in Url
  /\ \/ q \in HistoryOf(remote[landed[q]][branch[q]])
     \/ <<landed[q], branch[q]>> \in deleted

Landings == \A q \in Request :
  pc[q] = "ok" \/ (pc[q] = "pushing" /\ outcome[q] = "ok") => HasLanded(q)

LEMMA StaysLanded ==
  ASSUME TypeOK, RemotesGrow, NEW q \in Request, HasLanded(q),
         landed'[q] = landed[q], branch' = branch, deleted \subseteq deleted'
  PROVE  HasLanded(q)'
<1>1. branch[q] \in Branch /\ landed[q] \in Url
  BY DEF TypeOK, HasLanded
<1>2. \/ HistoryOf(remote[landed[q]][branch[q]]) \subseteq HistoryOf(remote[landed[q]][branch[q]])'
      \/ <<landed[q], branch[q]>> \in deleted'
  <2> PICK u \in Url, b \in Branch : u = landed[q] /\ b = branch[q]
    BY <1>1
  <2>1. u = landed'[q] /\ b = branch'[q]
    OBVIOUS
  <2> QED
    BY <2>1 DEF RemotesGrow, HistoryOf
<1> QED
  BY <1>1, <1>2 DEF HasLanded

LEMMA LandingsCommitSteps ==
  ASSUME TypeOK, Tasks, RemotesGrow, Landings, NEW q \in Request, ReceiveCommit(q) \/ CommitSteps(q)
  PROVE  Landings'
<1>1. /\ UNCHANGED <<landed, branch, deleted>>
      /\ \A x \in Request \ {q} : pc'[x] = pc[x] /\ outcome'[x] = outcome[x]
  <2>1. CASE ReceiveCommit(q) \/ Fetched(q) \/ RequestPush(q)
    BY <2>1 DEF TypeOK, ReceiveCommit, Fetched, RequestPush, Goto, remotes
  <2>2. CASE ShowRef(q) \/ ReadTree(q) \/ ReadTreeFails(q) \/ AddFiles(q)
    BY <2>2 DEF TypeOK, ShowRef, ReadTree, ReadTreeFails, AddFiles, Goto, remotes
  <2>3. CASE CommitIndex(q) \/ UpdateRef(q) \/ CommitFails(q) \/ Pushed(q)
    BY <2>3 DEF TypeOK, CommitIndex, UpdateRef, CommitFails, Pushed, Goto, remotes
  <2> QED
    BY <2>1, <2>2, <2>3 DEF CommitSteps
<1>2. pc'[q] = "ok" \/ (pc'[q] = "pushing" /\ outcome'[q] = "ok") =>
        pc[q] = "pushing" /\ outcome[q] = "ok"
  <2>1. CASE ReceiveCommit(q) \/ Fetched(q)
    BY <2>1 DEF TypeOK, ReceiveCommit, Fetched, Goto
  <2>2. CASE RequestPush(q)
    <3>1. outcome'[q] = "none" /\ pc'[q] = "pushing"
      BY <2>2 DEF TypeOK, RequestPush, Goto, Tasks, Knows
    <3> QED
      BY <3>1
  <2>3. CASE ShowRef(q) \/ ReadTree(q) \/ ReadTreeFails(q) \/ AddFiles(q)
    BY <2>3 DEF TypeOK, ShowRef, ReadTree, ReadTreeFails, AddFiles, Goto
  <2>4. CASE CommitIndex(q) \/ UpdateRef(q) \/ CommitFails(q)
    BY <2>4 DEF TypeOK, CommitIndex, UpdateRef, CommitFails, Goto
  <2>5. CASE Pushed(q)
    BY <2>5 DEF TypeOK, Pushed, Goto
  <2> QED
    BY <2>1, <2>2, <2>3, <2>4, <2>5 DEF CommitSteps
<1>3. ASSUME NEW x \in Request, pc'[x] = "ok" \/ (pc'[x] = "pushing" /\ outcome'[x] = "ok")
      PROVE  HasLanded(x)'
  <2>1. HasLanded(x)
    BY <1>1, <1>2, <1>3 DEF Landings
  <2> QED
    BY <1>1, <2>1, StaysLanded
<1> QED
  BY <1>3 DEF Landings

LEMMA LandingsPush ==
  ASSUME TypeOK, Objects, Tasks, RemotesGrow, Landings, NEW w \in Worker, Push(w)
  PROVE  Landings'
<1>1. PICK q \in Request, u \in Url :
           /\ q = job[w].caller /\ pc[q] = "pushing" /\ outcome[q] = "none"
           /\ remote' = [remote EXCEPT ![u][branch[q]] = q]
           /\ landed' = [landed EXCEPT ![q] = u]
           /\ UNCHANGED <<history, branch, deleted>>
           /\ q \in history[q]
  BY PushGrows
<1>2. HasLanded(q)'
  <2>1. branch[q] \in Branch /\ q # NoCommit
    BY NoValues DEF TypeOK, Commit
  <2>2. landed'[q] = u /\ remote'[u][branch[q]] = q
    BY <1>1, <2>1 DEF TypeOK
  <2> QED
    BY <1>1, <2>1, <2>2 DEF HasLanded, HistoryOf
<1>3. ASSUME NEW x \in Request \ {q}, pc'[x] = "ok" \/ (pc'[x] = "pushing" /\ outcome'[x] = "ok")
      PROVE  HasLanded(x)'
  <2>1. pc'[x] = pc[x] /\ outcome'[x] = outcome[x] /\ landed'[x] = landed[x]
    BY <1>1 DEF TypeOK, Push, Finish, requests
  <2>2. HasLanded(x)
    BY <1>3, <2>1 DEF Landings
  <2> QED
    BY <1>1, <2>1, <2>2, StaysLanded
<1> QED
  BY <1>2, <1>3 DEF Landings

LEMMA LandingsWorkerSteps ==
  ASSUME TypeOK, Objects, Tasks, RemotesGrow, Landings, NEW w \in Worker, WorkerSteps(w)
  PROVE  Landings'
<1>1. CASE Push(w)
  BY <1>1, LandingsPush
<1>2. CASE ~Push(w)
  <2>1. UNCHANGED <<pc, landed, branch, deleted>>
    BY <1>2
    DEF WorkerSteps, TakeJob, HearRefs, StoreRefs, JobFails, SetOrigin, requests, remotes
  <2>2. ASSUME NEW x \in Request, pc[x] = "pushing", outcome'[x] = "ok" PROVE outcome[x] = "ok"
    <3>1. CASE StoreRefs(w)
      <4>1. pc[job[w].caller] = "fetching"
        BY <3>1, Jobs DEF TypeOK, StoreRefs, Tasks, JobsAreWaitedFor, Waits
      <4>2. x # job[w].caller
        BY <2>2, <4>1
      <4> QED
        BY <2>2, <3>1, <4>2 DEF TypeOK, StoreRefs, Finish
    <3>2. CASE JobFails(w)
      BY <2>2, <3>2 DEF TypeOK, JobFails, Finish
    <3>3. CASE TakeJob(w) \/ HearRefs(w) \/ SetOrigin(w)
      BY <2>2, <3>3 DEF TakeJob, HearRefs, SetOrigin
    <3> QED
      BY <1>2, <3>1, <3>2, <3>3 DEF WorkerSteps
  <2>3. ASSUME NEW x \in Request, pc'[x] = "ok" \/ (pc'[x] = "pushing" /\ outcome'[x] = "ok")
        PROVE  HasLanded(x)'
    <3>1. HasLanded(x)
      BY <2>1, <2>2, <2>3 DEF Landings
    <3> QED
      BY <2>1, <3>1, StaysLanded
  <2> QED
    BY <2>3 DEF Landings
<1> QED
  BY <1>1, <1>2

LEMMA LandingsNext ==
  TypeOK /\ Objects /\ Tasks /\ Landings /\ [Next]_vars => Landings'
<1> SUFFICES ASSUME TypeOK, Objects, Tasks, Landings, [Next]_vars PROVE Landings'
  OBVIOUS
<1>1. RemotesGrow
  BY RemotesGrowNext
<1>2. CASE UNCHANGED <<pc, outcome, landed, branch>> /\ deleted \subseteq deleted'
  BY <1>1, <1>2, StaysLanded DEF Landings
<1>3. CASE UNCHANGED vars
  BY <1>2, <1>3 DEF vars, requests, remotes
<1>4. CASE \E c \in Connect : ReceiveConnect(c)
  BY <1>2, <1>4 DEF ReceiveConnect, remotes
<1>5. CASE \E u \in Url, b \in Branch :
            OutsideDelete(u, b) \/ \E c \in Outside : OutsidePush(c, u, b)
  BY <1>2, <1>5 DEF OutsideDelete, OutsidePush, requests
<1> QED
  BY <1>1, <1>3, <1>4, <1>5, LandingsCommitSteps, LandingsWorkerSteps DEF Next, Terminated

\* CommittedMeansPushed is an invariant of Commits: a consumer who is told that its files
\* are committed finds its commit in the history of the branch of the remote that took it,
\* whoever pushes afterwards, unless others have deleted that branch.
THEOREM CommittedIsPushed == Spec => []CommittedMeansPushed
<1>1. Init => Landings
  BY DEF Init, Landings
<1>2. Landings /\ TypeOK => CommittedMeansPushed
  BY NoValues DEF Landings, HasLanded, CommittedMeansPushed
<1> QED
  BY <1>1, <1>2, TypeCorrect, ObjectsInit, ObjectsNext, TasksInit, TasksNext, LandingsNext, PTL
  DEF Spec
=============================================================================
