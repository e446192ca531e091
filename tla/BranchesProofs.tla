--------------------------- MODULE BranchesProofs ---------------------------
(***************************************************************************)
(* Nobody waits for a job that is not there, and committing keeps the      *)
(* promise of Branches, for any requests, workers, branches and remotes.   *)
(***************************************************************************)
EXTENDS CommitsProofs

----------------------------------------------------------------------------
(***************************************************************************)
(* Who waits has a job                                                     *)
(***************************************************************************)
\* A job is about while it is queued, or a worker has it.
About(j) ==
  \/ \E i \in 1..Len(queue) : queue[i] = j
  \/ \E w \in Worker : job[w] = j

\* What joins the queue is about, and what was about still is.
LEMMA AppendAbout ==
  ASSUME TypeOK, NEW j, queue' = Append(queue, j), job' = job
  PROVE  About(j)' /\ \A k : About(k) => About(k)'
<1>1. /\ Len(queue) \in Nat /\ Len(queue') = Len(queue) + 1
      /\ \A i \in 1..Len(queue) : queue'[i] = queue[i]
      /\ queue'[Len(queue) + 1] = j
  BY DEF TypeOK
<1>2. Len(queue) + 1 \in 1..Len(queue') /\ \A i \in 1..Len(queue) : i \in 1..Len(queue')
  BY <1>1
<1>3. About(j)'
  BY <1>1, <1>2 DEF About
<1>4. ASSUME NEW k, About(k) PROVE About(k)'
  BY <1>1, <1>2, <1>4 DEF About
<1> QED
  BY <1>3, <1>4

\* A worker takes its job from the head of the queue: no job gets lost on the way.
LEMMA TakeJobAbout ==
  ASSUME TypeOK, NEW w \in Worker, TakeJob(w), NEW k \in Job, About(k)
  PROVE  About(k)'
<1>1. /\ Len(queue) \in Nat \ {0} /\ Len(queue') = Len(queue) - 1
      /\ \A i \in 1..Len(queue') : queue'[i] = queue[i + 1]
      /\ job'[w] = queue[1] /\ job[w] = NoJob
      /\ \A v \in Worker \ {w} : job'[v] = job[v]
  BY DEF TypeOK, TakeJob
<1>2. CASE \E v \in Worker : job[v] = k
  BY <1>1, <1>2, Jobs DEF About
<1>3. ASSUME NEW i \in 1..Len(queue), queue[i] = k PROVE About(k)'
  <2>1. CASE i = 1
    BY <1>1, <1>3, <2>1 DEF About
  <2>2. CASE i # 1
    <3>1. i - 1 \in 1..Len(queue') /\ queue'[i - 1] = k
      BY <1>1, <1>3, <2>2
    <3> QED
      BY <3>1 DEF About
  <2> QED
    BY <2>1, <2>2
<1> QED
  BY <1>2, <1>3 DEF About

\* The only job that a worker ends is its own.
LEMMA IdleAbout ==
  ASSUME TypeOK, NEW w \in Worker, Idle(w), queue' = queue, NEW k, k # job[w], About(k)
  PROVE  About(k)'
<1>1. \A v \in Worker \ {w} : job'[v] = job[v]
  BY DEF TypeOK, Idle
<1> QED
  BY <1>1 DEF About

\* Who waits for a job: WaitersHaveJobs says that each of these has it about.
Awaits(q) == pc[q] \in {"fetching", "pushing"} /\ outcome[q] = "none"

LEMMA WaitersAbout == WaitersHaveJobs <=> \A q \in Request : Awaits(q) => About(JobOf(q))
BY DEF WaitersHaveJobs, Awaits, About

LEMMA JobsOfWaiters ==
  ASSUME NEW q \in Request
  PROVE  JobOf(q) \in CallerJob /\ JobOf(q) \in Job /\ JobOf(q).caller = q
BY Jobs DEF JobOf, Job

\* A step that keeps the jobs of those who wait, and sends nobody else to wait.
LEMMA WaitersStay ==
  ASSUME WaitersHaveJobs,
         \A q \in Request : pc'[q] \in {"fetching", "pushing"} /\ outcome'[q] = "none" =>
                              pc'[q] = pc[q] /\ outcome[q] = "none",
         \A j \in CallerJob : About(j) /\ outcome'[j.caller] = "none" => About(j)'
  PROVE  WaitersHaveJobs'
<1> SUFFICES ASSUME NEW q \in Request, Awaits(q)', NEW j, j = JobOf(q)' PROVE About(j)'
  BY DEF WaitersHaveJobs, Awaits, About
<1>1. Awaits(q) /\ j = JobOf(q) /\ outcome'[q] = "none"
  BY DEF Awaits, JobOf
<1>2. About(j) /\ j \in CallerJob /\ j.caller = q
  BY <1>1, WaitersAbout, JobsOfWaiters
<1> QED
  BY <1>1, <1>2

\* A request that sends a job waits for that one, the others for theirs.
LEMMA WaitersAsk ==
  ASSUME TypeOK, WaitersHaveJobs, NEW q \in Request,
         ReceiveCommit(q) \/ RequestPush(q)
  PROVE  WaitersHaveJobs'
<1>1. /\ \A x \in Request \ {q} : pc'[x] = pc[x]
      /\ UNCHANGED <<outcome, job>>
      /\ \E j : j = JobOf(q)' /\ queue' = Append(queue, j)
  <2>1. CASE ReceiveCommit(q)
    BY <2>1 DEF TypeOK, ReceiveCommit, Goto, Enqueue, JobOf, workers
  <2>2. CASE RequestPush(q)
    BY <2>2 DEF TypeOK, RequestPush, Goto, Enqueue, JobOf, workers
  <2> QED
    BY <2>1, <2>2
<1>2. PICK j : j = JobOf(q)' /\ queue' = Append(queue, j)
  BY <1>1
<1>3. About(j)' /\ \A k : About(k) => About(k)'
  BY <1>1, <1>2, AppendAbout
<1>4. ASSUME NEW x \in Request, Awaits(x)', NEW k, k = JobOf(x)' PROVE About(k)'
  <2>1. CASE x = q
    BY <1>2, <1>3, <1>4, <2>1
  <2>2. CASE x # q
    <3>1. Awaits(x) /\ k = JobOf(x)
      BY <1>1, <1>4, <2>2 DEF Awaits, JobOf
    <3> QED
      BY <1>3, <3>1, WaitersAbout
  <2> QED
    BY <2>1, <2>2
<1> QED
  BY <1>4 DEF WaitersHaveJobs, Awaits, About

\* The other steps of a request send it away from its job, if it had one.
LEMMA WaitersCommitSteps ==
  ASSUME TypeOK, WaitersHaveJobs, NEW q \in Request, CommitSteps(q), ~RequestPush(q)
  PROVE  WaitersHaveJobs'
<1>1. /\ UNCHANGED <<queue, job>>
      /\ \A x \in Request \ {q} : pc'[x] = pc[x] /\ outcome'[x] = outcome[x]
      /\ pc'[q] \notin {"fetching", "pushing"}
  <2>1. CASE Fetched(q) \/ Pushed(q)
    BY <2>1 DEF TypeOK, Fetched, Pushed, Goto, workers
  <2>2. CASE ShowRef(q) \/ ReadTree(q) \/ ReadTreeFails(q) \/ AddFiles(q)
    BY <2>2 DEF TypeOK, ShowRef, ReadTree, ReadTreeFails, AddFiles, Goto, workers
  <2>3. CASE CommitIndex(q) \/ UpdateRef(q) \/ CommitFails(q)
    BY <2>3 DEF TypeOK, CommitIndex, UpdateRef, CommitFails, Goto, workers
  <2> QED
    BY <2>1, <2>2, <2>3 DEF CommitSteps
<1> QED
  BY <1>1, WaitersStay DEF About

LEMMA WaitersWorkerSteps ==
  ASSUME TypeOK, WaitersHaveJobs, NEW w \in Worker, WorkerSteps(w)
  PROVE  WaitersHaveJobs'
<1>1. CASE TakeJob(w)
  <2>1. UNCHANGED <<pc, outcome>>
    BY <1>1 DEF TakeJob, requests
  <2>2. \A j \in CallerJob : About(j) => About(j)'
    BY <1>1, TakeJobAbout DEF Job
  <2> QED
    BY <1>1, <2>1, <2>2, WaitersStay
<1>2. CASE HearRefs(w)
  <2>1. UNCHANGED <<pc, outcome, queue, job>>
    BY <1>2 DEF HearRefs, requests
  <2> QED
    BY <2>1, WaitersStay DEF About
<1>3. CASE StoreRefs(w) \/ Push(w) \/ JobFails(w)
  <2>1. /\ job[w] \in CallerJob /\ UNCHANGED <<pc, queue>> /\ Idle(w)
        /\ \E result \in {"ok", "error"} :
             outcome' = [outcome EXCEPT ![job[w].caller] = result]
    BY <1>3 DEF TypeOK, StoreRefs, Push, JobFails, Finish, requests
  <2>2. /\ outcome'[job[w].caller] # "none"
        /\ \A x \in Request : outcome'[x] = "none" => outcome[x] = "none"
    BY <2>1, Jobs DEF TypeOK
  <2>3. \A j \in CallerJob : About(j) /\ outcome'[j.caller] = "none" => About(j)'
    BY <2>1, <2>2, IdleAbout
  <2> QED
    BY <2>1, <2>2, <2>3, WaitersStay
<1>4. CASE SetOrigin(w)
  <2>1. /\ UNCHANGED <<pc, outcome, queue>> /\ Idle(w)
        /\ \A j \in CallerJob : j # job[w]
    BY <1>4, Jobs DEF SetOrigin, requests
  <2>2. \A j \in CallerJob : About(j) => About(j)'
    BY <2>1, IdleAbout
  <2> QED
    BY <2>1, <2>2, WaitersStay
<1> QED
  BY <1>1, <1>2, <1>3, <1>4 DEF WorkerSteps

LEMMA WaitersNext == TypeOK /\ WaitersHaveJobs /\ [Next]_vars => WaitersHaveJobs'
<1> SUFFICES ASSUME TypeOK, WaitersHaveJobs, [Next]_vars PROVE WaitersHaveJobs'
  OBVIOUS
<1>1. CASE UNCHANGED <<pc, outcome, queue, job>>
  BY <1>1, WaitersStay DEF About
<1>2. CASE UNCHANGED vars
  BY <1>1, <1>2 DEF vars, requests, workers
<1>3. ASSUME NEW c \in Connect, ReceiveConnect(c) PROVE WaitersHaveJobs'
  <2>1. PICK j : queue' = Append(queue, j)
    BY <1>3 DEF ReceiveConnect, Enqueue
  <2>2. UNCHANGED <<pc, outcome, job>>
    BY <1>3 DEF ReceiveConnect, workers
  <2> QED
    BY <2>1, <2>2, AppendAbout, WaitersStay
<1>4. CASE \E u \in Url, b \in Branch :
            OutsideDelete(u, b) \/ \E c \in Outside : OutsidePush(c, u, b)
  BY <1>1, <1>4 DEF OutsideDelete, OutsidePush, requests, workers
<1> QED
  BY <1>2, <1>3, <1>4, WaitersAsk, WaitersCommitSteps, WaitersWorkerSteps
  DEF Next, Terminated, CommitSteps

\* WaitersHaveJobs is an invariant of Commits: whichever worker takes which job, and however
\* the job ends, a request that waits has its job about, or has been told how it ended.
THEOREM WaitersAreServed == Spec => []WaitersHaveJobs
<1>1. Init => WaitersHaveJobs
  BY DEF Init, WaitersHaveJobs
<1> QED
  BY <1>1, TypeCorrect, WaitersNext, PTL DEF Spec

----------------------------------------------------------------------------
(***************************************************************************)
(* What is public                                                          *)
(***************************************************************************)
\* Only these three make commits, or have remotes take them.
LEMMA WhatMakesCommits ==
  ASSUME [Next]_vars
  PROVE  /\ branch' = branch
         /\ \/ \E q \in Request : CommitIndex(q)
            \/ \E w \in Worker : Push(w)
            \/ \E u \in Url, b \in Branch, c \in Outside : OutsidePush(c, u, b)
            \/ UNCHANGED <<history, landed>>
<1>1. ASSUME NEW q \in Request, ReceiveCommit(q) \/ CommitSteps(q), ~CommitIndex(q)
      PROVE  UNCHANGED <<branch, history, landed>>
  BY <1>1
  DEF ReceiveCommit, CommitSteps, Fetched, ShowRef, ReadTree, ReadTreeFails, AddFiles, UpdateRef,
      RequestPush, CommitFails, Pushed, objects, remotes
<1>2. ASSUME NEW w \in Worker, WorkerSteps(w), ~Push(w)
      PROVE  UNCHANGED <<branch, history, landed>>
  BY <1>2
  DEF WorkerSteps, TakeJob, HearRefs, StoreRefs, JobFails, SetOrigin, requests, objects, remotes
<1>3. CASE UNCHANGED vars \/ \E c \in Connect : ReceiveConnect(c)
  BY <1>3 DEF vars, ReceiveConnect, requests, objects, remotes
<1>4. ASSUME NEW u \in Url, NEW b \in Branch, OutsideDelete(u, b)
      PROVE  UNCHANGED <<branch, history, landed>>
  BY <1>4 DEF OutsideDelete, requests, objects
<1>5. ASSUME NEW q \in Request, CommitIndex(q) PROVE branch' = branch
  BY <1>5 DEF CommitIndex
<1>6. ASSUME NEW w \in Worker, Push(w) PROVE branch' = branch
  BY <1>6 DEF Push, requests
<1>7. ASSUME NEW u \in Url, NEW b \in Branch, NEW c \in Outside, OutsidePush(c, u, b)
      PROVE  branch' = branch
  BY <1>7 DEF OutsidePush, requests
<1> QED
  BY <1>1, <1>2, <1>3, <1>4, <1>5, <1>6, <1>7 DEF Next, Terminated, CommitSteps

\* A commit that is made keeps its history.
LEMMA HistoriesStay ==
  ASSUME TypeOK, Objects, [Next]_vars, NEW c \in Commit, history[c] # {}
  PROVE  history'[c] = history[c]
<1>1. ASSUME NEW q \in Request, CommitIndex(q) PROVE history'[c] = history[c]
  BY <1>1 DEF TypeOK, CommitIndex, Objects, Unmade
<1>2. ASSUME NEW w \in Worker, Push(w) PROVE history'[c] = history[c]
  BY <1>2 DEF Push, objects
<1>3. ASSUME NEW u \in Url, NEW b \in Branch, NEW d \in Outside, OutsidePush(d, u, b)
      PROVE  history'[c] = history[c]
  BY <1>3 DEF TypeOK, OutsidePush
<1> QED
  BY <1>1, <1>2, <1>3, WhatMakesCommits

\* What has been on a branch of some remote, or is another's commit.
PublicOn(b) ==
  {q \in Request : branch[q] = b /\ landed[q] # NoUrl} \cup {c \in Outside : history[c] # {}}

LEMMA PublicGrows ==
  ASSUME TypeOK, Objects, [Next]_vars, NEW b \in Branch
  PROVE  PublicOn(b) \subseteq PublicOn(b)'
<1>1. \A c \in Outside : history[c] # {} => history'[c] # {}
  BY HistoriesStay DEF Commit
<1>2. branch' = branch
  BY WhatMakesCommits
<1>3. \A q \in Request : landed[q] # NoUrl => landed'[q] # NoUrl
  <2>1. ASSUME NEW w \in Worker, Push(w)
        PROVE  \A q \in Request : landed[q] # NoUrl => landed'[q] # NoUrl
    <3>1. landed' = [landed EXCEPT ![pending[job[w].caller]] = heard[w].url]
      BY <2>1 DEF Push, PendingName
    <3>2. heard[w].url # NoUrl
      BY <2>1 DEF TypeOK, Push
    <3> QED
      BY <3>1, <3>2 DEF TypeOK
  <2>2. ASSUME NEW q \in Request, CommitIndex(q) PROVE landed' = landed
    BY <2>2 DEF CommitIndex, remotes
  <2>3. ASSUME NEW u \in Url, NEW d \in Branch, NEW c \in Outside, OutsidePush(c, u, d)
        PROVE  landed' = landed
    BY <2>3 DEF OutsidePush
  <2> QED
    BY <2>1, <2>2, <2>3, WhatMakesCommits
<1> QED
  BY <1>1, <1>2, <1>3 DEF PublicOn

\* What is known as the tip of a branch: by the clone, by a remote, by a git process that
\* talks to one, and by a request that builds on it.
IsTip(c, b) ==
  \/ c = tracking[b]
  \/ \E u \in Url : c = remote[u][b]
  \/ \E w \in Worker : c = heard[w].heads[b]
  \/ \E q \in Request : b = branch[q] /\ c = base[q]

\* All that such a tip has is public on its branch, ...
TipsArePublic ==
  \A b \in Branch, c \in Commit : IsTip(c, b) => history[c] \subseteq PublicOn(b)

\* ... so that a commit prepared on one adds to that only itself, ...
PreparedOnPublic == \A q \in Request : history[q] \subseteq {q} \cup PublicOn(branch[q])

\* ... and a remote takes it once, while its request waits for that.
TakenOnce == \A q \in Request :
  landed[q] # NoUrl => pc[q] \in Settled \/ (pc[q] = "pushing" /\ outcome[q] # "none")

Publishing == TipsArePublic /\ PreparedOnPublic /\ TakenOnce

LEMMA TipsAreMade ==
  ASSUME TypeOK, Objects, NEW b \in Branch, NEW c \in Commit, IsTip(c, b)
  PROVE  c \in history[c]
BY NoValues DEF IsTip, Objects, RefsAreMade, IsMade

\* A step that leaves the tips as they are, or makes tips of others, or of what is public
\* from now on.
LEMMA TipsStay ==
  ASSUME TypeOK, Objects, TipsArePublic, [Next]_vars,
         \A b \in Branch, c \in Commit :
           IsTip(c, b)' => IsTip(c, b) \/ history'[c] \subseteq PublicOn(b)'
  PROVE  TipsArePublic'
<1> SUFFICES ASSUME NEW b \in Branch, NEW c \in Commit, IsTip(c, b)'
             PROVE  history'[c] \subseteq PublicOn(b)'
  BY DEF TipsArePublic
<1>1. CASE IsTip(c, b)
  <2>1. history'[c] = history[c] /\ history[c] \subseteq PublicOn(b)
    BY <1>1, TipsAreMade, HistoriesStay DEF TipsArePublic
  <2> QED
    BY <2>1, PublicGrows
<1> QED
  BY <1>1

LEMMA TipsCommitSteps ==
  ASSUME TypeOK, Objects, Publishing, [Next]_vars, NEW q \in Request,
         ReceiveCommit(q) \/ CommitSteps(q)
  PROVE  TipsArePublic'
<1>1. CASE ShowRef(q)
  <2>1. /\ UNCHANGED <<branch, tracking, remote, heard>>
        /\ \A x \in Request : x # q => base'[x] = base[x]
        /\ base'[q] \in {tracking[branch[q]], NoCommit}
    BY <1>1 DEF TypeOK, ShowRef, refs, remotes, workers
  <2>2. NoCommit \notin Commit
    BY NoValues
  <2> QED
    BY <2>1, <2>2, TipsStay DEF IsTip, Publishing
<1>2. CASE ReadTreeFails(q)
  <2>1. /\ UNCHANGED <<branch, tracking, remote, heard>>
        /\ \A x \in Request : x # q => base'[x] = base[x]
        /\ base'[q] = NoCommit
    BY <1>2 DEF TypeOK, ReadTreeFails, refs, remotes, workers
  <2>2. NoCommit \notin Commit
    BY NoValues
  <2> QED
    BY <2>1, <2>2, TipsStay DEF IsTip, Publishing
<1>3. CASE ~ShowRef(q) /\ ~ReadTreeFails(q)
  <2>1. UNCHANGED <<branch, base, tracking, remote, heard>>
    BY <1>3
    DEF ReceiveCommit, CommitSteps, Fetched, ReadTree, AddFiles, CommitIndex, UpdateRef,
        RequestPush, CommitFails, Pushed, refs, remotes, workers
  <2> QED
    BY <2>1, TipsStay DEF IsTip, Publishing
<1> QED
  BY <1>1, <1>2, <1>3

\* What a push does, seen from the outside: the commit that its request has prepared
\* becomes public, and the tip of its branch.
LEMMA PushPublishes ==
  ASSUME TypeOK, Objects, Tasks, Publishing, [Next]_vars, NEW w \in Worker, Push(w)
  PROVE  \E q \in Request, u \in Url :
           /\ q = job[w].caller /\ pc[q] = "pushing" /\ outcome[q] = "none"
           /\ remote' = [remote EXCEPT ![u][branch[q]] = q]
           /\ landed' = [landed EXCEPT ![q] = u] /\ landed[q] = NoUrl
           /\ tracking' \in {tracking, [tracking EXCEPT ![branch[q]] = q]}
           /\ UNCHANGED <<pc, branch, base, history, heard>>
           /\ HistoryOf(remote[u][branch[q]]) \cup {q} \subseteq history[q]
           /\ history[q] \subseteq PublicOn(branch[q])'
<1>1. PICK q \in Request, u \in Url :
           /\ q = job[w].caller /\ pc[q] = "pushing" /\ outcome[q] = "none"
           /\ remote' = [remote EXCEPT ![u][branch[q]] = q]
           /\ landed' = [landed EXCEPT ![q] = u]
           /\ UNCHANGED <<history, branch, deleted>>
           /\ q \in history[q]
           /\ HistoryOf(remote[u][branch[q]]) \subseteq history[q]
  BY PushGrows
<1>2. pending[q] = q
  BY <1>1, Jobs DEF TypeOK, Push, Tasks, JobsAreWaitedFor, Waits
<1>3. /\ tracking' \in {tracking, [tracking EXCEPT ![branch[q]] = q]}
      /\ UNCHANGED <<pc, base, heard>>
  BY <1>1, <1>2 DEF Push, PendingName, Finish, Idle, requests
<1>4. landed[q] = NoUrl
  BY <1>1 DEF Publishing, TakenOnce, Settled
<1>5. branch[q] \in Branch /\ landed'[q] # NoUrl
  BY <1>1, NoValues DEF TypeOK
<1>6. q \in PublicOn(branch[q])'
  BY <1>1, <1>5 DEF PublicOn
<1>7. history[q] \subseteq PublicOn(branch[q])'
  BY <1>1, <1>5, <1>6, PublicGrows DEF Publishing, PreparedOnPublic
<1> QED
  BY <1>1, <1>3, <1>4, <1>7

LEMMA TipsPush ==
  ASSUME TypeOK, Objects, Tasks, Publishing, [Next]_vars, NEW w \in Worker, Push(w)
  PROVE  TipsArePublic'
<1>1. PICK q \in Request, u \in Url :
           /\ remote' = [remote EXCEPT ![u][branch[q]] = q]
           /\ tracking' \in {tracking, [tracking EXCEPT ![branch[q]] = q]}
           /\ UNCHANGED <<branch, base, history, heard>>
           /\ history[q] \subseteq PublicOn(branch[q])'
  BY PushPublishes
<1>2. ASSUME NEW b \in Branch, NEW c \in Commit, IsTip(c, b)'
      PROVE  IsTip(c, b) \/ (c = q /\ b = branch[q])
  <2>1. \A v \in Url : remote'[v][b] = remote[v][b] \/ (remote'[v][b] = q /\ b = branch[q])
    BY <1>1 DEF TypeOK
  <2>2. tracking'[b] = tracking[b] \/ (tracking'[b] = q /\ b = branch[q])
    BY <1>1 DEF TypeOK
  <2> QED
    BY <1>1, <1>2, <2>1, <2>2 DEF IsTip
<1>3. ASSUME NEW b \in Branch, NEW c \in Commit, IsTip(c, b)'
      PROVE  IsTip(c, b) \/ history'[c] \subseteq PublicOn(b)'
  BY <1>1, <1>2, <1>3
<1> QED
  BY <1>3, TipsStay DEF Publishing

LEMMA TipsWorkerSteps ==
  ASSUME TypeOK, Objects, Tasks, Publishing, [Next]_vars, NEW w \in Worker, WorkerSteps(w)
  PROVE  TipsArePublic'
<1>1. CASE Push(w)
  BY <1>1, TipsPush
<1>2. CASE HearRefs(w)
  <2>1. /\ UNCHANGED <<branch, base, tracking, remote>>
        /\ \A v \in Worker : v # w => heard'[v] = heard[v]
        /\ heard'[w].heads = remote[origin] /\ origin \in Url
    BY <1>2 DEF TypeOK, HearRefs, requests, refs, remotes
  <2> QED
    BY <2>1, TipsStay DEF IsTip, Publishing
<1>3. CASE StoreRefs(w)
  <2>1. /\ UNCHANGED <<branch, base, remote, heard>>
        /\ \A b \in Branch : tracking'[b] \in {tracking[b], heard[w].heads[b]}
    BY <1>3 DEF StoreRefs, Stored, Finish, Idle, requests, remotes
  <2> QED
    BY <2>1, TipsStay DEF IsTip, Publishing
<1>4. CASE TakeJob(w) \/ JobFails(w) \/ SetOrigin(w)
  <2>1. UNCHANGED <<branch, base, tracking, remote, heard>>
    BY <1>4 DEF TakeJob, JobFails, SetOrigin, Finish, Idle, requests, refs, remotes
  <2> QED
    BY <2>1, TipsStay DEF IsTip, Publishing
<1> QED
  BY <1>1, <1>2, <1>3, <1>4 DEF WorkerSteps

LEMMA TipsOutside ==
  ASSUME TypeOK, Objects, Publishing, [Next]_vars, NEW u \in Url, NEW b \in Branch,
         OutsideDelete(u, b) \/ \E c \in Outside : OutsidePush(c, u, b)
  PROVE  TipsArePublic'
<1>1. CASE OutsideDelete(u, b)
  <2>1. /\ UNCHANGED <<branch, base, tracking, heard>>
        /\ \A v \in Url, d \in Branch : remote'[v][d] \in {remote[v][d], NoCommit}
    BY <1>1 DEF TypeOK, OutsideDelete, requests, refs, workers
  <2>2. NoCommit \notin Commit
    BY NoValues
  <2> QED
    BY <2>1, <2>2, TipsStay DEF IsTip, Publishing
<1>2. ASSUME NEW o \in Outside, OutsidePush(o, u, b) PROVE TipsArePublic'
  <2>1. /\ UNCHANGED <<branch, base, tracking, heard>>
        /\ \A v \in Url, d \in Branch :
             remote'[v][d] = remote[v][d] \/ (remote'[v][d] = o /\ d = b)
        /\ history'[o] = HistoryOf(remote[u][b]) \cup {o}
    BY <1>2 DEF TypeOK, OutsidePush, requests, refs, workers, Commit
  <2>2. HistoryOf(remote[u][b]) \subseteq PublicOn(b)
    BY DEF TypeOK, Publishing, TipsArePublic, IsTip, HistoryOf
  <2>3. o \in PublicOn(b)'
    BY <2>1 DEF PublicOn
  <2>4. history'[o] \subseteq PublicOn(b)'
    BY <2>1, <2>2, <2>3, PublicGrows
  <2>5. ASSUME NEW d \in Branch, NEW c \in Commit, IsTip(c, d)'
        PROVE  IsTip(c, d) \/ (c = o /\ d = b)
    BY <2>1, <2>5 DEF IsTip
  <2>6. ASSUME NEW d \in Branch, NEW c \in Commit, IsTip(c, d)'
        PROVE  IsTip(c, d) \/ history'[c] \subseteq PublicOn(d)'
    BY <2>4, <2>5, <2>6
  <2> QED
    BY <2>6, TipsStay DEF Publishing
<1> QED
  BY <1>1, <1>2

LEMMA TipsNext ==
  TypeOK /\ Objects /\ Tasks /\ Publishing /\ [Next]_vars => TipsArePublic'
<1> SUFFICES ASSUME TypeOK, Objects, Tasks, Publishing, [Next]_vars PROVE TipsArePublic'
  OBVIOUS
<1>1. CASE UNCHANGED vars \/ \E c \in Connect : ReceiveConnect(c)
  <2>1. UNCHANGED <<branch, base, tracking, remote, heard>>
    BY <1>1 DEF vars, ReceiveConnect, requests, refs, remotes, workers
  <2> QED
    BY <2>1, TipsStay DEF IsTip, Publishing
<1> QED
  BY <1>1, TipsCommitSteps, TipsWorkerSteps, TipsOutside DEF Next, Terminated

LEMMA PreparedNext ==
  TypeOK /\ Objects /\ Tasks /\ Publishing /\ [Next]_vars => PreparedOnPublic'
<1> SUFFICES ASSUME TypeOK, Objects, Publishing, [Next]_vars,
                    NEW q \in Request, NEW b \in Branch, b = branch[q]
             PROVE  history'[q] \subseteq {q} \cup PublicOn(b)'
  BY WhatMakesCommits DEF TypeOK, PreparedOnPublic, PublicOn
<1>1. q \in Commit
  BY DEF Commit
<1>2. CASE history'[q] = history[q]
  BY <1>1, <1>2, PublicGrows DEF Publishing, PreparedOnPublic
<1>3. CASE CommitIndex(q)
  <2>1. history'[q] = HistoryOf(base[q]) \cup {q}
    BY <1>1, <1>3 DEF TypeOK, CommitIndex
  <2>2. HistoryOf(base[q]) \subseteq PublicOn(b)
    BY DEF TypeOK, HistoryOf, Publishing, TipsArePublic, IsTip
  <2> QED
    BY <1>1, <2>1, <2>2, PublicGrows
<1>4. CASE ~CommitIndex(q) /\ history'[q] # history[q]
  <2>1. ~ \E x \in Request : CommitIndex(x)
    BY <1>1, <1>4 DEF TypeOK, CommitIndex
  <2>2. ~ \E u \in Url, d \in Branch, c \in Outside : OutsidePush(c, u, d)
    BY <1>1, <1>4, CommitsAreDistinct DEF TypeOK, OutsidePush
  <2>3. ~ \E w \in Worker : Push(w)
    BY <1>4 DEF Push, objects
  <2> QED
    BY <1>4, <2>1, <2>2, <2>3, WhatMakesCommits
<1> QED
  BY <1>2, <1>3, <1>4

\* A request whose commit is taken waits for nothing but to be told.
LEMMA TakenCommitSteps ==
  ASSUME TypeOK, Publishing, NEW q \in Request, ReceiveCommit(q) \/ CommitSteps(q)
  PROVE  TakenOnce'
<1>1. /\ landed' = landed
      /\ \A x \in Request : x # q => pc'[x] = pc[x] /\ outcome'[x] = outcome[x]
  <2>1. CASE ReceiveCommit(q) \/ Fetched(q) \/ Pushed(q) \/ RequestPush(q)
    BY <2>1 DEF TypeOK, ReceiveCommit, Fetched, Pushed, RequestPush, Goto, remotes
  <2>2. CASE ShowRef(q) \/ ReadTree(q) \/ ReadTreeFails(q) \/ AddFiles(q)
    BY <2>2 DEF TypeOK, ShowRef, ReadTree, ReadTreeFails, AddFiles, Goto, remotes
  <2>3. CASE CommitIndex(q) \/ UpdateRef(q) \/ CommitFails(q)
    BY <2>3 DEF TypeOK, CommitIndex, UpdateRef, CommitFails, Goto, remotes
  <2> QED
    BY <2>1, <2>2, <2>3 DEF CommitSteps
<1>2. landed[q] # NoUrl => Pushed(q)
  BY DEF ReceiveCommit, CommitSteps, Fetched, ShowRef, ReadTree, ReadTreeFails, AddFiles,
        CommitIndex,
         UpdateRef, RequestPush, CommitFails, Publishing, TakenOnce, Settled
<1>3. Pushed(q) => pc'[q] \in Settled
  BY DEF TypeOK, Pushed, Goto, Settled
<1> QED
  BY <1>1, <1>2, <1>3 DEF Publishing, TakenOnce

LEMMA TakenNext ==
  TypeOK /\ Objects /\ Tasks /\ Publishing /\ [Next]_vars => TakenOnce'
<1> SUFFICES ASSUME TypeOK, Objects, Tasks, Publishing, [Next]_vars PROVE TakenOnce'
  OBVIOUS
<1>1. CASE UNCHANGED <<pc, outcome, landed>>
  BY <1>1 DEF Publishing, TakenOnce
<1>2. CASE UNCHANGED vars \/ \E c \in Connect : ReceiveConnect(c)
  BY <1>1, <1>2 DEF vars, ReceiveConnect, requests, remotes
<1>3. ASSUME NEW w \in Worker, WorkerSteps(w) PROVE TakenOnce'
  <2>1. CASE TakeJob(w) \/ HearRefs(w) \/ SetOrigin(w)
    BY <1>1, <2>1 DEF TakeJob, HearRefs, SetOrigin, requests, remotes
  <2>2. CASE StoreRefs(w) \/ Push(w) \/ JobFails(w)
    <3>1. /\ pc' = pc
          /\ \E result \in {"ok", "error"} :
               outcome' = [outcome EXCEPT ![job[w].caller] = result]
      BY <2>2 DEF StoreRefs, Push, JobFails, Finish, requests
    <3>2. \A x \in Request : outcome'[x] # "none" \/ outcome'[x] = outcome[x]
      BY <3>1 DEF TypeOK
    <3>3. CASE landed' = landed
      BY <3>1, <3>2, <3>3 DEF Publishing, TakenOnce
    <3>4. CASE Push(w)
      <4>1. PICK q \in Request, u \in Url :
                   /\ q = job[w].caller /\ pc[q] = "pushing"
                   /\ landed' = [landed EXCEPT ![q] = u]
        BY <1>3, <3>4, PushGrows
      <4>2. pc'[q] = "pushing" /\ outcome'[q] # "none"
        BY <3>1, <4>1 DEF TypeOK
      <4>3. \A x \in Request : x # q => landed'[x] = landed[x]
        BY <4>1 DEF TypeOK
      <4> QED
        BY <3>1, <3>2, <4>2, <4>3 DEF Publishing, TakenOnce
    <3> QED
      BY <2>2, <3>3, <3>4 DEF StoreRefs, JobFails, remotes
  <2> QED
    BY <1>3, <2>1, <2>2 DEF WorkerSteps
<1>4. CASE \E u \in Url, b \in Branch :
            OutsideDelete(u, b) \/ \E c \in Outside : OutsidePush(c, u, b)
  BY <1>1, <1>4 DEF OutsideDelete, OutsidePush, requests
<1> QED
  BY <1>2, <1>3, <1>4, TakenCommitSteps DEF Next, Terminated

LEMMA PublishingInit == Init => Publishing
<1> SUFFICES ASSUME Init PROVE Publishing
  OBVIOUS
<1>1. \A c \in Commit : history[c] = {}
  BY DEF Init
<1>2. \A q \in Request : landed[q] = NoUrl /\ history[q] = {}
  BY DEF Init, Commit
<1> QED
  BY <1>1, <1>2 DEF Publishing, TipsArePublic, PreparedOnPublic, TakenOnce

LEMMA PublishingCorrect == Spec => [](TypeOK /\ Objects /\ Tasks /\ Landings /\ Publishing)
<1>1. Init => Landings
  BY DEF Init, Landings
<1>2. TypeOK /\ Objects /\ Tasks /\ Publishing /\ [Next]_vars => Publishing'
  BY TipsNext, PreparedNext, TakenNext DEF Publishing
<1> QED
  BY <1>1, <1>2, TypeCorrect, ObjectsInit, ObjectsNext, TasksInit, TasksNext, LandingsNext,
     PublishingInit, PTL
  DEF Spec

----------------------------------------------------------------------------
(***************************************************************************)
(* The promise, step by step                                               *)
(***************************************************************************)
LEMMA PublicIsPublic == \A b \in Branch : PublicOn(b) = Promise!Public(b)
BY DEF PublicOn, Promise!Public

\* A step that moves no request on, and changes no branch of a remote.
LEMMA PromiseStays ==
  ASSUME UNCHANGED <<branch, landed>>,
         \A q \in Request : Phase(q)' = Phase(q),
         \A u \in Url, b \in Branch : HistoryOf(remote[u][b])' = HistoryOf(remote[u][b]),
         \A c \in Outside : history'[c] = {} <=> history[c] = {}
  PROVE  UNCHANGED Promise!vars
BY DEF Promise!vars

\* A step that moves one request on, and changes nothing else.
LEMMA PhaseMoves ==
  ASSUME NEW q \in Request, NEW from, NEW to, Phase(q) = from, Phase(q)' = to,
         \A x \in Request \ {q} : Phase(x)' = Phase(x),
         UNCHANGED <<branch, landed, remote, history>>
  PROVE  Promise!Move(q, from, to)
<1> DEFINE phase == [x \in Request |-> Phase(x)]
<1>1. phase[q] = from
  OBVIOUS
<1>2. phase' = [phase EXCEPT ![q] = to]
  OBVIOUS
<1>3. UNCHANGED [u \in Url |-> [b \in Branch |-> HistoryOf(remote[u][b])]]
  BY DEF HistoryOf
<1>4. UNCHANGED {c \in Outside : history[c] # {}}
  OBVIOUS
<1> QED
  BY <1>1, <1>2, <1>3, <1>4 DEF Promise!Move

LEMMA PhasesOfOthers ==
  ASSUME TypeOK, NEW q \in Request, NEW step, pc' = [pc EXCEPT ![q] = step]
  PROVE  pc'[q] = step /\ \A x \in Request \ {q} : Phase(x)' = Phase(x)
BY DEF TypeOK, Phase

\* Requests come, go on, and are answered.
LEMMA RequestsKeepThePromise ==
  ASSUME TypeOK, Objects, Landings, NEW q \in Request,
         ReceiveCommit(q) \/ CommitSteps(q), ~CommitIndex(q)
  PROVE  Promise!Next \/ UNCHANGED Promise!vars
<1>1. UNCHANGED <<branch, landed, remote, history>>
  BY DEF ReceiveCommit, CommitSteps, Fetched, ShowRef, ReadTree, ReadTreeFails, AddFiles, UpdateRef,
         RequestPush, CommitFails, Pushed, objects, remotes
<1>2. CASE ReceiveCommit(q)
  <2>1. pc[q] = "idle" /\ pc' = [pc EXCEPT ![q] = "fetching"]
    BY <1>2 DEF ReceiveCommit, Goto
  <2>2. pc'[q] = "fetching"
    BY <2>1, PhasesOfOthers
  <2>3. Phase(q) = "idle" /\ Phase(q)' = "open"
    BY <2>1, <2>2 DEF Phase
  <2> QED
    BY <1>1, <2>1, <2>3, PhasesOfOthers, PhaseMoves DEF Promise!Receive, Promise!Next
<1>3. CASE Pushed(q) /\ outcome[q] = "ok"
  <2>1. pc[q] = "pushing" /\ pc' = [pc EXCEPT ![q] = "ok"]
    BY <1>3 DEF Pushed, Goto
  <2>2. Phase(q) = "open" /\ Phase(q)' = "ok"
    BY <2>1, PhasesOfOthers DEF Phase
  <2>3. landed[q] # NoUrl
    BY <1>3, <2>1, NoValues DEF Landings, HasLanded
  <2> QED
    BY <1>1, <2>1, <2>2, <2>3, PhasesOfOthers, PhaseMoves DEF Promise!Confirm, Promise!Next
<1>4. CASE \/ Pushed(q) /\ outcome[q] # "ok"
           \/ Fetched(q) /\ outcome[q] # "ok"
           \/ CommitFails(q)
  <2>1. /\ pc[q] \notin {"idle", "ok", "failed"}
        /\ pc' = [pc EXCEPT ![q] = "failed"]
    BY <1>4 DEF Pushed, Fetched, CommitFails, Goto
  <2>2. Phase(q) = "open" /\ Phase(q)' = "refused"
    BY <2>1, PhasesOfOthers DEF Phase
  <2> QED
    BY <1>1, <2>1, <2>2, PhasesOfOthers, PhaseMoves DEF Promise!Refuse, Promise!Next
<1>5. CASE \/ Fetched(q) /\ outcome[q] = "ok"
           \/ ShowRef(q) \/ ReadTree(q) \/ ReadTreeFails(q) \/ AddFiles(q)
           \/ UpdateRef(q) \/ RequestPush(q)
  <2>1. /\ pc[q] \notin {"idle", "ok", "failed"}
        /\ \E step \in Step \ {"idle", "ok", "failed"} : pc' = [pc EXCEPT ![q] = step]
    <3>1. CASE Fetched(q) /\ outcome[q] = "ok"
      BY <3>1 DEF Fetched, Goto, Step
    <3>2. CASE ShowRef(q) \/ ReadTree(q) \/ AddFiles(q) \/ UpdateRef(q) \/ RequestPush(q)
      BY <3>2 DEF ShowRef, ReadTree, AddFiles, UpdateRef, RequestPush, Goto, Step
    <3>3. CASE ReadTreeFails(q)
      <4>1. pc[q] = "priming" /\ pc' = [pc EXCEPT ![q] = "priming"]
        BY <3>3 DEF TypeOK, ReadTreeFails
      <4> QED
        BY <4>1 DEF Step
    <3> QED
      BY <1>5, <3>1, <3>2, <3>3
  <2>2. Phase(q) = "open" /\ Phase(q)' = "open"
    BY <2>1, PhasesOfOthers DEF Phase
  <2>3. \A x \in Request : Phase(x)' = Phase(x)
    BY <2>1, <2>2, PhasesOfOthers
  <2> QED
    BY <1>1, <2>3, PromiseStays DEF HistoryOf
<1> QED
  BY <1>2, <1>3, <1>4, <1>5 DEF CommitSteps

\* A commit that is made shows nowhere yet.
LEMMA CommitIndexKeepsThePromise ==
  ASSUME TypeOK, Objects, [Next]_vars, NEW q \in Request, CommitIndex(q)
  PROVE  UNCHANGED Promise!vars
<1>1. /\ pc[q] = "writing" /\ pc' = [pc EXCEPT ![q] = "naming"]
      /\ UNCHANGED <<branch, landed, remote>>
      /\ \A c \in Commit : c # q => history'[c] = history[c]
      /\ history[q] = {}
  BY DEF TypeOK, CommitIndex, Goto, remotes, Objects, Unmade
<1>2. \A x \in Request : Phase(x)' = Phase(x)
  <2>1. Phase(q)' = Phase(q)
    BY <1>1, PhasesOfOthers DEF Phase
  <2> QED
    BY <1>1, <2>1, PhasesOfOthers
<1>3. \A c \in Outside : history'[c] = history[c]
  BY <1>1, CommitsAreDistinct DEF Commit
<1>4. ASSUME NEW u \in Url, NEW b \in Branch
      PROVE  HistoryOf(remote[u][b])' = HistoryOf(remote[u][b])
  <2>1. remote[u][b] = NoCommit \/ (remote[u][b] \in Commit /\ remote[u][b] # q)
    BY <1>1 DEF TypeOK, Objects, RefsAreMade, IsMade
  <2> QED
    BY <1>1, <2>1 DEF HistoryOf
<1> QED
  BY <1>1, <1>2, <1>3, <1>4, PromiseStays

\* A push has a remote take the commit, with what was public before.
LEMMA PushKeepsThePromise ==
  ASSUME TypeOK, Objects, Tasks, Publishing, [Next]_vars, NEW w \in Worker, Push(w)
  PROVE  Promise!Next
<1>1. PICK q \in Request, u \in Url :
           /\ pc[q] = "pushing"
           /\ remote' = [remote EXCEPT ![u][branch[q]] = q]
           /\ landed' = [landed EXCEPT ![q] = u] /\ landed[q] = NoUrl
           /\ UNCHANGED <<pc, branch, history>>
           /\ HistoryOf(remote[u][branch[q]]) \cup {q} \subseteq history[q]
  BY PushPublishes
<1> DEFINE content == [v \in Url |-> [b \in Branch |-> HistoryOf(remote[v][b])]]
           more == history[q] \ {q}
<1>2. branch[q] \in Branch /\ q # NoCommit
  BY NoValues DEF TypeOK, Commit
<1>3. more \in SUBSET Promise!Public(branch[q])
  BY <1>2, PublicIsPublic DEF Publishing, PreparedOnPublic
<1>4. content' = [content EXCEPT ![u][branch[q]] = @ \cup {q} \cup more]
  <2>1. content[u][branch[q]] \cup {q} \cup more = history[q]
    BY <1>1, <1>2
  <2>2. ASSUME NEW v \in Url, NEW b \in Branch
        PROVE  HistoryOf(remote[v][b])' = IF v = u /\ b = branch[q] THEN history[q]
                                          ELSE HistoryOf(remote[v][b])
    BY <1>1, <1>2 DEF TypeOK, HistoryOf
  <2> QED
    BY <1>2, <2>1, <2>2
<1>5. [x \in Request |-> Phase(x)][q] = "open" /\ UNCHANGED [x \in Request |-> Phase(x)]
  BY <1>1 DEF Phase
<1>6. UNCHANGED {c \in Outside : history[c] # {}}
  BY <1>1
<1>7. Promise!Take(q, u)
  BY <1>1, <1>3, <1>4, <1>5, <1>6 DEF Promise!Take
<1> QED
  BY <1>7 DEF Promise!Next

\* Others push commits of their own, each once, and delete branches.
LEMMA OutsideKeepsThePromise ==
  ASSUME TypeOK, Objects, NEW u \in Url, NEW b \in Branch,
         OutsideDelete(u, b) \/ \E c \in Outside : OutsidePush(c, u, b)
  PROVE  Promise!Next
<1> DEFINE content == [v \in Url |-> [d \in Branch |-> HistoryOf(remote[v][d])]]
           shared == {c \in Outside : history[c] # {}}
<1>1. UNCHANGED <<branch, landed, pc>>
  BY DEF OutsideDelete, OutsidePush, requests
<1>2. UNCHANGED [x \in Request |-> Phase(x)]
  BY <1>1 DEF Phase
<1>3. CASE OutsideDelete(u, b)
  <2>1. UNCHANGED history /\ remote' = [remote EXCEPT ![u][b] = NoCommit]
    BY <1>3 DEF OutsideDelete, objects
  <2>2. ASSUME NEW v \in Url, NEW d \in Branch
        PROVE  HistoryOf(remote[v][d])' = IF v = u /\ d = b THEN {} ELSE HistoryOf(remote[v][d])
    BY <2>1 DEF TypeOK, HistoryOf
  <2>3. content' = [content EXCEPT ![u][b] = {}]
    BY <2>2
  <2>4. UNCHANGED shared
    BY <2>1
  <2>5. Promise!Delete(u, b)
    BY <1>1, <1>2, <2>3, <2>4 DEF Promise!Delete
  <2> QED
    BY <2>5 DEF Promise!Next
<1>4. ASSUME NEW c \in Outside, OutsidePush(c, u, b) PROVE Promise!Next
  <2>1. /\ c \in Commit /\ c # NoCommit /\ history[c] = {}
        /\ history'[c] = HistoryOf(remote[u][b]) \cup {c}
        /\ \A d \in Commit : d # c => history'[d] = history[d]
        /\ remote' = [remote EXCEPT ![u][b] = c]
    BY <1>4, NoValues DEF TypeOK, OutsidePush, Commit
  <2>2. ASSUME NEW v \in Url, NEW d \in Branch
        PROVE  HistoryOf(remote[v][d])' = IF v = u /\ d = b THEN HistoryOf(remote[u][b]) \cup {c}
                                          ELSE HistoryOf(remote[v][d])
    <3>1. remote[v][d] = NoCommit \/ (remote[v][d] \in Commit /\ remote[v][d] # c)
      BY <2>1 DEF TypeOK, Objects, RefsAreMade, IsMade
    <3> QED
      BY <2>1, <3>1 DEF TypeOK, HistoryOf
  <2>3. content' = [content EXCEPT ![u][b] = @ \cup {c}]
    BY <2>2
  <2>4. c \notin shared /\ shared' = shared \cup {c}
    BY <2>1 DEF Commit
  <2>5. Promise!Share(c, u, b)
    BY <1>1, <1>2, <2>3, <2>4 DEF Promise!Share
  <2> QED
    BY <2>5 DEF Promise!Next
<1> QED
  BY <1>3, <1>4

LEMMA StepsKeepThePromise ==
  TypeOK /\ Objects /\ Tasks /\ Landings /\ Publishing /\ [Next]_vars =>
    [Promise!Next]_(Promise!vars)
<1> SUFFICES ASSUME TypeOK, Objects, Tasks, Landings, Publishing, [Next]_vars
             PROVE  Promise!Next \/ UNCHANGED Promise!vars
  OBVIOUS
<1>1. CASE UNCHANGED <<pc, branch, landed, remote, history>>
  BY <1>1, PromiseStays DEF Phase, HistoryOf
<1>2. CASE UNCHANGED vars \/ \E c \in Connect : ReceiveConnect(c)
  BY <1>1, <1>2 DEF vars, ReceiveConnect, requests, objects, remotes
<1>3. ASSUME NEW w \in Worker, WorkerSteps(w), ~Push(w)
      PROVE  Promise!Next \/ UNCHANGED Promise!vars
  BY <1>1, <1>3
  DEF WorkerSteps, TakeJob, HearRefs, StoreRefs, JobFails, SetOrigin, requests, objects, remotes
<1> QED
  BY <1>2, <1>3, RequestsKeepThePromise, CommitIndexKeepsThePromise, PushKeepsThePromise,
     OutsideKeepsThePromise
  DEF Next, Terminated, CommitSteps

\* Committing keeps the promise of Branches, for any number of requests, workers, branches
\* and remotes: a commit joins its branch of one remote, once, in one step and while its
\* request is unanswered, brings nothing with it that was not public, and is never
\* confirmed before; what a refused request has prepared never shows up later.
THEOREM CommittingImplementsBranches == Spec => CommittingKeepsItsPromise
<1>1. Init => Promise!Init
  <2> SUFFICES ASSUME Init PROVE Promise!Init
    OBVIOUS
  <2>1. \A q \in Request : Phase(q) = "idle"
    BY DEF Init, Phase
  <2>2. \A u \in Url, b \in Branch : HistoryOf(remote[u][b]) = {}
    BY DEF Init, HistoryOf
  <2>3. \A c \in Outside : history[c] = {}
    BY DEF Init, Commit
  <2> QED
    BY <2>1, <2>2, <2>3 DEF Init, Promise!Init
<1> QED
  BY <1>1, StepsKeepThePromise, PublishingCorrect, PTL
  DEF Spec, CommittingKeepsItsPromise, Promise!Spec

=============================================================================
