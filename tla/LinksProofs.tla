---------------------------- MODULE LinksProofs ----------------------------
(***************************************************************************)
(* Connecting implements Links, for any number of repos, requests and      *)
(* workers, and however often the server dies: what becomes of a job, of   *)
(* what a request has seen, and of the origin of a clone.                  *)
(***************************************************************************)
EXTENDS ConnectionsProofs

\* A request that may have a job about.
MayHaveJob == {"waiting", "cutOff"}

\* The job asks for what its caller wants, which is not what the caller has seen,
\* and has not ended.
JobOK(j) ==
  /\ pc[j.caller] \in MayHaveJob
  /\ outcome[j.caller] = "none"
  /\ j.repo = repo[j.caller]
  /\ j.caller \in Connect => j.url = url[j.caller] /\ seen[j.caller] # url[j.caller]

JobsAreOK ==
  /\ \A i \in DOMAIN queue : JobOK(queue[i])
  /\ \A w \in Worker : job[w] # NoJob => JobOK(job[w])

JobsAreSingle ==
  /\ \A i, k \in DOMAIN queue : queue[i].caller = queue[k].caller => i = k
  /\ \A v, w \in Worker :
       job[v] # NoJob /\ job[w] # NoJob /\ job[v].caller = job[w].caller => v = w
  /\ \A i \in DOMAIN queue, w \in Worker : job[w] # NoJob => queue[i].caller # job[w].caller

\* A job ends only for a request that has asked for one.
OutcomesAreAsked == \A q \in Request : outcome[q] # "none" => pc[q] \in {"waiting"} \cup Over

\* The automatic fetch starts when its connect request succeeds.
FetchesAreStarted == \A c \in Connect : pc[AutoFetch(c)] # "idle" => pc[c] = "ok"

\* A request has seen no origin until it has read it, asks for a job only if that
\* is not the one it wants, and succeeds once one of the two has taken effect.
SeenOK(c) ==
  /\ seen[c] # NoUrl => pc[c] \in {"deciding", "waiting"} \cup Over
  /\ pc[c] = "waiting" => seen[c] # url[c]
  /\ pc[c] = "ok" => TookEffect(c)

SeenIsRead == \A c \in Connect : SeenOK(c)

JobInv == JobsAreOK /\ JobsAreSingle /\ OutcomesAreAsked /\ FetchesAreStarted /\ SeenIsRead

\* Some request has linked the repo to the URL.
LinkedBy(d, r, u) == repo[d] = r /\ url[d] = u /\ outcome[d] = "ok"
IsLinked(r, u) == \E d \in Connect : LinkedBy(d, r, u)
IsShown(r, u) == \E d \in Connect : repo[d] = r /\ ReadBack(url[d]) = u /\ outcome[d] = "ok"

OriginsAreLinked == \A r \in Repo : origin[r] # NoUrl => IsLinked(r, origin[r])
SeenIsShown == \A c \in Connect : seen[c] # NoUrl => IsShown(repo[c], seen[c])
ReconnectedHasSeen == \A c \in Connect : Emitted("repo.reconnected", c) => seen[c] = url[c]
LinkedMeansFetch == \A d \in Connect :
  outcome[d] = "ok" =>
    pc[d] \in MayHaveJob \/ (pc[d] = "ok" /\ pc[AutoFetch(d)] # "idle")

\* The clone that a request has created, and seen or made linked, stays linked.
CreatedStaysLinked == \A c \in creators :
  clone[repo[c]] = c /\ pc[c] # "failed" /\ (seen[c] # NoUrl \/ outcome[c] = "ok") =>
    bare[repo[c]] /\ origin[repo[c]] # NoUrl

OriginInv ==
  OriginsAreLinked /\ SeenIsShown /\ ReconnectedHasSeen /\ LinkedMeansFetch /\ CreatedStaysLinked

----------------------------------------------------------------------------
(***************************************************************************)
(* Jobs and their callers                                                  *)
(***************************************************************************)

\* The caller of a job is a request; only a connect request sets an origin.
LEMMA CallersAreRequests ==
  ASSUME NEW j \in Job
  PROVE  /\ j.caller \in Request
         /\ j.repo \in Repo
         /\ j.caller \in Connect <=> j \in SetOriginJob
PROOF
<1>1. CASE j \in SetOriginJob
  BY <1>1, RequestKinds DEF SetOriginJob
<1>2. CASE j \in FetchJob
  <2>1. j.caller \in Fetcher /\ j.repo \in Repo
    BY <1>2 DEF FetchJob
  <2>2. j \notin SetOriginJob
    BY <1>2 DEF FetchJob, SetOriginJob
  <2> QED
    BY <2>1, <2>2, RequestKinds
<1> QED
  BY <1>1, <1>2 DEF Job

\* A connect request and its automatic fetch name each other.
LEMMA AutoFetchNames ==
  /\ \A c, d \in Connect : AutoFetch(c) = AutoFetch(d) => c = d
  /\ \A c \in Connect : AutoFetch(c) \in Request /\ AutoFetch(c) \in AutoFetches
  /\ \A c, d \in Connect : AutoFetch(c) # d
PROOF BY RequestKinds DEF AutoFetch, AutoFetches

\* A request goes on that has no job about.
LEMMA RequestStepKeepsJobs ==
  ASSUME TypeOK, JobInv, NEW q \in Request, NEW next,
         pc' = [pc EXCEPT ![q] = next], next # "idle", pc[q] # "ok",
         pc[q] = "idle" => q \notin AutoFetches,
         outcome[q] = "none" => pc[q] \notin MayHaveJob,
         outcome[q] # "none" => next \in Over,
         \A c \in Connect : c # q => seen'[c] = seen[c],
         q \in Connect => SeenOK(q)',
         UNCHANGED <<repo, url, outcome, queue, job>>
  PROVE  JobInv'
PROOF
<1>1. \A r \in Request : r # q => pc'[r] = pc[r]
  BY DEF TypeOK, ServerTypeOK
<1>2. pc'[q] = next
  BY DEF TypeOK, ServerTypeOK
<1>3. ASSUME NEW j \in Job, JobOK(j) PROVE JobOK(j)'
  <2>1. j.caller \in Request /\ j.caller # q
    BY <1>3, CallersAreRequests DEF JobOK
  <2> QED
    BY <1>1, <1>3, <2>1 DEF JobOK
<1>4. JobsAreOK'
  BY <1>3 DEF JobInv, JobsAreOK, TypeOK, WorkerTypeOK
<1>5. JobsAreSingle'
  BY DEF JobInv, JobsAreSingle
<1>6. OutcomesAreAsked'
  BY <1>1, <1>2 DEF JobInv, OutcomesAreAsked
<1>7. FetchesAreStarted'
  BY <1>1, <1>2, AutoFetchNames, RequestKinds DEF JobInv, FetchesAreStarted
<1>8. SeenIsRead'
  BY <1>1, RequestKinds DEF JobInv, SeenIsRead, SeenOK, TookEffect
<1> QED
  BY <1>4, <1>5, <1>6, <1>7, <1>8 DEF JobInv

\* A request asks for a job.
LEMMA AskKeepsJobs ==
  ASSUME TypeOK, JobInv, NEW j \in Job, NEW q \in Request, j.caller = q, j.repo = repo[q],
         q \in Connect => j.url = url[q] /\ seen[q] # url[q],
         pc[q] \notin MayHaveJob \cup Over \cup {"idle"},
         pc' = [pc EXCEPT ![q] = "waiting"],
         queue' = Append(queue, j),
         UNCHANGED <<repo, url, seen, outcome, job>>
  PROVE  JobInv'
PROOF
<1>1. \A r \in Request : r # q => pc'[r] = pc[r]
  BY DEF TypeOK, ServerTypeOK
<1>2. pc'[q] = "waiting"
  BY DEF TypeOK, ServerTypeOK
<1>3. outcome[q] = "none"
  BY DEF JobInv, OutcomesAreAsked, MayHaveJob
<1>4. ASSUME NEW k \in Job, JobOK(k) PROVE JobOK(k)' /\ k.caller # q
  <2>1. k.caller \in Request /\ k.caller # q
    BY <1>4, CallersAreRequests DEF JobOK
  <2> QED
    BY <1>1, <1>4, <2>1 DEF JobOK
<1>5. JobOK(j)'
  BY <1>2, <1>3 DEF JobOK, MayHaveJob
<1>6. /\ queue \in Seq(Job)
      /\ DOMAIN queue' = 1..(Len(queue) + 1)
      /\ \A i \in DOMAIN queue : queue'[i] = queue[i] /\ queue[i] \in Job
      /\ queue'[Len(queue) + 1] = j
  BY DEF TypeOK
<1>7. \A i \in DOMAIN queue : JobOK(queue[i])' /\ queue[i].caller # q
  BY <1>4, <1>6 DEF JobInv, JobsAreOK
<1>8. \A w \in Worker : job[w] # NoJob => JobOK(job[w])' /\ job[w].caller # q
  BY <1>4 DEF JobInv, JobsAreOK, TypeOK, WorkerTypeOK
<1>9. \A i \in DOMAIN queue' : i \in DOMAIN queue \/ i = Len(queue) + 1
  BY <1>6
<1>10. JobsAreOK'
  <2>1. \A i \in DOMAIN queue' : JobOK(queue[i])'
    BY <1>5, <1>6, <1>7, <1>9
  <2> QED
    BY <1>8, <2>1 DEF JobsAreOK
<1>11. JobsAreSingle'
  BY <1>6, <1>7, <1>8, <1>9 DEF JobInv, JobsAreSingle
<1>12. OutcomesAreAsked'
  BY <1>1, <1>2 DEF JobInv, OutcomesAreAsked
<1>13. FetchesAreStarted'
  BY <1>1, AutoFetchNames, RequestKinds DEF JobInv, FetchesAreStarted, Over, Settled
<1>14. SeenIsRead'
  BY <1>1, <1>2, RequestKinds DEF JobInv, SeenIsRead, SeenOK, TookEffect
<1> QED
  BY <1>10, <1>11, <1>12, <1>13, <1>14 DEF JobInv

\* A worker ends a job.
LEMMA FinishKeepsJobs ==
  ASSUME TypeOK, JobInv, NEW w \in Worker, stage[w] # "idle", NEW result \in Outcome,
         Finish(w, result), UNCHANGED <<pc, repo, url, seen, queue>>
  PROVE  /\ JobInv'
         /\ outcome[job[w].caller] = "none"
PROOF
<1>1. job[w] \in Job /\ job[w] # NoJob /\ job[w].caller \in Request
  BY CallersAreRequests DEF TypeOK, WorkerTypeOK
<1> DEFINE q == job[w].caller
<1>2. JobOK(job[w])
  BY <1>1 DEF JobInv, JobsAreOK
<1>3. /\ \A r \in Request : r # q => outcome'[r] = outcome[r]
      /\ \A v \in Worker : v # w => job'[v] = job[v]
      /\ job'[w] = NoJob
  BY <1>1 DEF Finish, TypeOK, ServerTypeOK, WorkerTypeOK
<1>4. ASSUME NEW k \in Job, JobOK(k), k.caller # q PROVE JobOK(k)'
  BY <1>3, <1>4, CallersAreRequests DEF JobOK
<1>5. JobsAreOK'
  <2>1. \A i \in DOMAIN queue : JobOK(queue[i])'
    BY <1>1, <1>4 DEF JobInv, JobsAreOK, JobsAreSingle, TypeOK
  <2>2. \A v \in Worker : job'[v] # NoJob => JobOK(job[v])'
    BY <1>1, <1>3, <1>4 DEF JobInv, JobsAreOK, JobsAreSingle, TypeOK, WorkerTypeOK
  <2> QED
    BY <2>1, <2>2 DEF JobsAreOK
<1>6. JobsAreSingle'
  BY <1>3 DEF JobInv, JobsAreSingle
<1>7. OutcomesAreAsked'
  BY <1>2, <1>3 DEF JobInv, OutcomesAreAsked, JobOK, MayHaveJob, Over
<1>8. FetchesAreStarted' /\ SeenIsRead'
  BY <1>2, <1>3, RequestKinds
    DEF JobOK, MayHaveJob, JobInv, FetchesAreStarted, SeenIsRead, SeenOK, TookEffect
<1> QED
  BY <1>2, <1>5, <1>6, <1>7, <1>8 DEF JobInv, JobOK

LEMMA JobsHoldFirst == Init => JobInv
PROOF
<1> SUFFICES ASSUME Init PROVE JobInv
  OBVIOUS
<1>1. JobsAreOK /\ JobsAreSingle
  BY DEF Init, JobsAreOK, JobsAreSingle
<1>2. OutcomesAreAsked /\ FetchesAreStarted /\ SeenIsRead
  BY AutoFetchNames, RequestKinds
    DEF Init, OutcomesAreAsked, FetchesAreStarted, SeenIsRead, SeenOK, TookEffect
<1> QED
  BY <1>1, <1>2 DEF JobInv

\* A connect request that fails has no job about.
LEMMA FailKeepsJobs ==
  ASSUME TypeOK, JobInv, NEW q \in Request, NEW why, Fail(q, why),
         pc[q] \notin Over \cup {"idle"}, pc[q] = "waiting" => outcome[q] # "none",
         UNCHANGED <<repo, url, seen, outcome, queue, job>>
  PROVE  JobInv'
PROOF
<1>1. /\ pc' = [pc EXCEPT ![q] = "failed"]
      /\ "failed" # "idle" /\ pc[q] # "ok" /\ pc[q] # "idle"
      /\ outcome[q] = "none" => pc[q] \notin MayHaveJob
      /\ "failed" \in Over
  BY DEF Fail, MayHaveJob, Over, Settled
<1>2. pc'[q] = "failed"
  BY <1>1 DEF TypeOK, ServerTypeOK
<1>3. q \in Connect => SeenOK(q)'
  BY <1>2 DEF SeenOK, TookEffect, Over, Settled
<1> QED
  BY <1>1, <1>3, RequestStepKeepsJobs

\* A request goes from one step to a later one before it has a job.
LEMMA GotoKeepsJobs ==
  ASSUME TypeOK, JobInv, NEW q \in Request, NEW step, Goto(q, step),
         pc[q] \in {"idle", "finding", "opening", "creating", "making", "initialising",
                    "configuring"},
         q \notin AutoFetches, step \notin {"idle", "waiting", "ok"},
         UNCHANGED <<repo, url, seen, outcome, queue, job>>
  PROVE  JobInv'
PROOF
<1>1. /\ pc' = [pc EXCEPT ![q] = step]
      /\ pc[q] # "ok" /\ pc[q] \notin MayHaveJob
  BY DEF Goto, MayHaveJob
<1>2. outcome[q] = "none"
  BY DEF JobInv, OutcomesAreAsked, Over, Settled
<1>3. pc'[q] = step
  BY <1>1 DEF TypeOK, ServerTypeOK
<1>4. q \in Connect => SeenOK(q)'
  BY <1>3 DEF JobInv, SeenIsRead, SeenOK, TookEffect, Over, Settled
<1> QED
  BY <1>1, <1>2, <1>4, RequestStepKeepsJobs

\* A connect request is no fetch, and a consumer's fetch is not an automatic one.
LEMMA ConsumersRequests ==
  /\ \A c \in Connect : c \in Request /\ c \notin AutoFetches
  /\ \A f \in Fetch : f \in Request /\ f \notin AutoFetches /\ f \notin Connect
  /\ \A f \in Fetcher : f \in Request /\ f \notin Connect
PROOF BY RequestKinds, RequestsAreDistinct DEF AutoFetches, Fetcher

LEMMA JobsAreKept == TypeOK /\ JobInv /\ [Next]_vars => JobInv'
PROOF
<1> SUFFICES ASSUME TypeOK, JobInv, [Next]_vars PROVE JobInv'
  OBVIOUS
<1> USE DEF server, disk, workers
<1>1. ASSUME NEW c \in Connect, ReceiveConnect(c) PROVE JobInv'
  BY <1>1, GotoKeepsJobs, ConsumersRequests DEF ReceiveConnect
<1>2. ASSUME NEW c \in Connect, FindRepo(c) \/ OpenClone(c) \/ CreateRepo(c) \/ MakeDirectory(c)
      PROVE JobInv'
  <2>1. /\ pc[c] \in {"finding", "opening", "creating", "making"}
        /\ UNCHANGED <<repo, url, seen, outcome, queue, job>>
    BY <1>2 DEF FindRepo, OpenClone, CreateRepo, MakeDirectory
  <2>2. \/ \E why \in Reason : Fail(c, why)
        \/ \E step \in ConnectStep \ {"waiting"} : Goto(c, step)
    BY <1>2 DEF FindRepo, OpenClone, CreateRepo, MakeDirectory, Reason, ConnectStep, InTransaction
  <2>3. pc[c] \notin Over \cup {"idle", "waiting"}
    BY <2>1 DEF Over, Settled
  <2> QED
    BY <2>1, <2>2, <2>3, GotoKeepsJobs, FailKeepsJobs, ConsumersRequests
      DEF ConnectStep, InTransaction
<1>3. ASSUME NEW c \in Connect, InitBare(c) \/ Configure(c) PROVE JobInv'
  BY <1>3, GotoKeepsJobs, ConsumersRequests DEF InitBare, Configure
<1>4. ASSUME NEW c \in Connect, FailInit(c) PROVE JobInv'
  BY <1>4, FailKeepsJobs, ConsumersRequests DEF FailInit, Over, Settled
<1>5. ASSUME NEW c \in Connect, ReadOrigin(c) PROVE JobInv'
  <2>1. CASE /\ pc[c] = "reading" /\ pc' = [pc EXCEPT ![c] = "deciding"]
             /\ seen' = [seen EXCEPT ![c] = ReadBack(origin[repo[c]])]
             /\ UNCHANGED <<repo, url, outcome, queue, job>>
    <3>1. outcome[c] = "none" /\ pc[c] \notin MayHaveJob
      BY <2>1, ConsumersRequests DEF JobInv, OutcomesAreAsked, MayHaveJob, Over, Settled
    <3>2. pc'[c] = "deciding" /\ \A d \in Connect : d # c => seen'[d] = seen[d]
      BY <2>1, ConsumersRequests DEF TypeOK, ServerTypeOK
    <3>3. SeenOK(c)'
      BY <3>2 DEF SeenOK, TookEffect
    <3> QED
      BY <2>1, <3>1, <3>2, <3>3, RequestStepKeepsJobs, ConsumersRequests
  <2>2. CASE /\ pc[c] = "reading" /\ GiveUp(c, "gitError")
             /\ UNCHANGED <<repo, url, seen, outcome, queue, job>>
    BY <2>2, FailKeepsJobs, ConsumersRequests DEF GiveUp, Over, Settled
  <2> QED
    BY <1>5, <2>1, <2>2, ReadOriginCases
<1>6. ASSUME NEW c \in Connect, Reconnect(c) PROVE JobInv'
  <2>1. /\ pc[c] = "deciding" /\ pc' = [pc EXCEPT ![c] = "ok"] /\ seen[c] = url[c]
        /\ UNCHANGED <<repo, url, seen, outcome, queue, job>>
    BY <1>6 DEF Reconnect, Goto
  <2>2. pc'[c] = "ok"
    BY <2>1, ConsumersRequests DEF TypeOK, ServerTypeOK
  <2>3. SeenOK(c)'
    BY <2>1, <2>2 DEF SeenOK, TookEffect, Over, Settled
  <2> QED
    BY <2>1, <2>3, RequestStepKeepsJobs, ConsumersRequests DEF MayHaveJob, Over, Settled
<1>7. ASSUME NEW c \in Connect, RequestOrigin(c) PROVE JobInv'
  <2> DEFINE j == [name |-> "setOriginTo", repo |-> repo[c], url |-> url[c], caller |-> c]
  <2>1. j \in Job
    BY ConsumersRequests DEF Job, SetOriginJob, TypeOK, ServerTypeOK
  <2>2. /\ pc[c] \notin MayHaveJob \cup Over \cup {"idle"}
        /\ pc' = [pc EXCEPT ![c] = "waiting"] /\ seen[c] # url[c]
        /\ queue' = Append(queue, j)
        /\ UNCHANGED <<repo, url, seen, outcome, job>>
    BY <1>7 DEF RequestOrigin, Goto, MayHaveJob, Over, Settled
  <2>3. j.caller = c /\ j.repo = repo[c] /\ j.url = url[c]
    OBVIOUS
  <2> HIDE DEF j
  <2> QED
    BY <2>1, <2>2, <2>3, AskKeepsJobs, ConsumersRequests
<1>8. ASSUME NEW c \in Connect, Connected(c) PROVE JobInv'
  <2> DEFINE f == AutoFetch(c)
  <2>1. /\ pc[c] = "waiting" /\ outcome[c] = "ok"
        /\ pc' = [pc EXCEPT ![c] = "ok", ![f] = FetchStart(f).step]
        /\ FetchStart(f).step \in {"opening", "failed"}
        /\ UNCHANGED <<repo, url, seen, outcome, queue, job>>
    BY <1>8 DEF Connected, FetchStart
  <2>2. /\ \A q \in Request : q # c /\ q # f => pc'[q] = pc[q]
        /\ pc'[c] = "ok" /\ pc'[f] # "idle"
    BY <2>1, AutoFetchNames, ConsumersRequests DEF TypeOK, ServerTypeOK
  <2>3. pc[f] = "idle" /\ outcome[f] = "none"
    BY <2>1, AutoFetchNames DEF JobInv, FetchesAreStarted, OutcomesAreAsked, Over, Settled
  <2>4. ASSUME NEW j \in Job, JobOK(j) PROVE JobOK(j)'
    <3>1. j.caller \in Request /\ j.caller # c /\ j.caller # f
      BY <2>1, <2>3, <2>4, CallersAreRequests DEF JobOK, MayHaveJob
    <3> QED
      BY <2>1, <2>2, <2>4, <3>1 DEF JobOK
  <2>5. JobsAreOK' /\ JobsAreSingle'
    BY <2>1, <2>4 DEF JobInv, JobsAreOK, JobsAreSingle, TypeOK, WorkerTypeOK
  <2>6. OutcomesAreAsked'
    BY <2>1, <2>2, <2>3 DEF JobInv, OutcomesAreAsked, Over, Settled
  <2>7. \A d \in Connect : d # c => d # f /\ AutoFetch(d) # f /\ AutoFetch(d) # c
    BY AutoFetchNames, ConsumersRequests
  <2>8. \A d \in Connect : d # c =>
          pc'[d] = pc[d] /\ pc'[AutoFetch(d)] = pc[AutoFetch(d)]
    BY <2>2, <2>7, AutoFetchNames, ConsumersRequests
  <2> HIDE DEF f
  <2>9. FetchesAreStarted'
    BY <2>2, <2>8 DEF JobInv, FetchesAreStarted
  <2>10. SeenIsRead'
    BY <2>1, <2>2, <2>8 DEF JobInv, SeenIsRead, SeenOK, TookEffect, Over, Settled
  <2> QED
    BY <2>5, <2>6, <2>9, <2>10 DEF JobInv
<1>9. ASSUME NEW c \in Connect, NotConnected(c) PROVE JobInv'
  BY <1>9, FailKeepsJobs, ConsumersRequests DEF NotConnected, GiveUp, Failure, Over, Settled
<1>10. ASSUME NEW f \in Fetch, ReceiveFetch(f) PROVE JobInv'
  <2>1. Goto(f, FetchStart(f).step) /\ FetchStart(f).step \in {"opening", "failed"}
    BY <1>10 DEF ReceiveFetch, FetchStart
  <2> QED
    BY <1>10, <2>1, GotoKeepsJobs, ConsumersRequests DEF ReceiveFetch
<1>11. ASSUME NEW f \in Fetcher, RequestFetch(f) PROVE JobInv'
  <2>1. CASE Exists(repo[f])
    <3> DEFINE j == [name |-> "fetch", repo |-> repo[f], caller |-> f]
    <3>1. j \in Job
      BY ConsumersRequests DEF Job, FetchJob, TypeOK, ServerTypeOK
    <3>2. /\ pc[f] \notin MayHaveJob \cup Over \cup {"idle"}
          /\ pc' = [pc EXCEPT ![f] = "waiting"]
          /\ queue' = Append(queue, j)
          /\ UNCHANGED <<repo, url, seen, outcome, job>>
      BY <1>11, <2>1 DEF RequestFetch, Goto, MayHaveJob, Over, Settled
    <3>3. j.caller = f /\ j.repo = repo[f]
      OBVIOUS
    <3> HIDE DEF j
    <3> QED
      BY <3>1, <3>2, <3>3, AskKeepsJobs, ConsumersRequests
  <2>2. CASE ~Exists(repo[f])
    BY <1>11, <2>2, FailKeepsJobs, ConsumersRequests DEF RequestFetch, Over, Settled
  <2> QED
    BY <2>1, <2>2
<1>12. ASSUME NEW f \in Fetcher, Fetched(f) PROVE JobInv'
  BY <1>12, RequestStepKeepsJobs, ConsumersRequests DEF Fetched, Goto, Over, Settled
<1>13. ASSUME NEW f \in Fetcher, FetchFailed(f) PROVE JobInv'
  BY <1>13, FailKeepsJobs, ConsumersRequests DEF FetchFailed, Failure, Over, Settled
<1>14. ASSUME NEW w \in Worker, TakeJob(w) PROVE JobInv'
  <2>1. /\ queue \in Seq(Job) /\ queue # <<>>
        /\ job' = [job EXCEPT ![w] = queue[1]] /\ job[w] = NoJob
        /\ queue' = Tail(queue)
        /\ UNCHANGED <<pc, repo, url, seen, outcome>>
    BY <1>14 DEF TakeJob, TypeOK, WorkerTypeOK
  <2>2. /\ 1 \in DOMAIN queue
        /\ \A i \in DOMAIN queue' : queue'[i] = queue[i + 1] /\ i + 1 \in DOMAIN queue /\ i \in Nat /\ i + 1 # 1
    BY <2>1
  <2>3. job'[w] = queue[1] /\ \A v \in Worker : v # w => job'[v] = job[v]
    BY <2>1 DEF TypeOK, WorkerTypeOK
  <2>4. JobsAreOK'
    <3>1. \A i \in DOMAIN queue : JobOK(queue[i])
      BY DEF JobInv, JobsAreOK
    <3>2. \A i \in DOMAIN queue' : JobOK(queue[i])'
      BY <2>1, <2>2, <3>1 DEF JobOK
    <3>3. \A v \in Worker : job'[v] # NoJob => JobOK(job[v])'
      BY <2>1, <2>2, <2>3, <3>1 DEF JobOK, JobInv, JobsAreOK
    <3> QED
      BY <3>2, <3>3 DEF JobsAreOK
  <2>5. JobsAreSingle'
    <3>1. \A i, k \in DOMAIN queue' : queue'[i].caller = queue'[k].caller => i = k
      BY <2>2 DEF JobInv, JobsAreSingle
    <3>2. \A v, u \in Worker : job'[v] # NoJob /\ job'[u] # NoJob /\ job'[v].caller = job'[u].caller => v = u
      BY <2>2, <2>3 DEF JobInv, JobsAreSingle
    <3>3. \A i \in DOMAIN queue', v \in Worker : job'[v] # NoJob => queue'[i].caller # job'[v].caller
      BY <2>2, <2>3 DEF JobInv, JobsAreSingle
    <3> QED
      BY <3>1, <3>2, <3>3 DEF JobsAreSingle
  <2>6. OutcomesAreAsked' /\ FetchesAreStarted' /\ SeenIsRead'
    BY <2>1 DEF JobInv, OutcomesAreAsked, FetchesAreStarted, SeenIsRead, SeenOK, TookEffect
  <2> QED
    BY <2>4, <2>5, <2>6 DEF JobInv
<1>15. ASSUME UNCHANGED <<pc, repo, url, seen, outcome, queue, job>> PROVE JobInv'
  BY <1>15
    DEF JobInv, JobsAreOK, JobOK, JobsAreSingle, OutcomesAreAsked, FetchesAreStarted,
        SeenIsRead, SeenOK, TookEffect
<1>16. ASSUME NEW w \in Worker, stage[w] # "idle", NEW result \in Outcome, Finish(w, result),
              UNCHANGED <<pc, repo, url, seen, queue>>
       PROVE JobInv'
  BY <1>16, FinishKeepsJobs
<1>17. ASSUME NEW w \in Worker, OpenForJob(w) \/ ValidateRemote(w) \/ ListRemotes(w) PROVE JobInv'
  <2>1. \A result \in ValidationResults(w) : result \in Outcome
    BY DEF ValidationResults, Outcome, Failure
  <2>2. "error" \in Outcome
    BY DEF Outcome, Failure
  <2> QED
    BY <1>15, <1>16, <1>17, <2>1, <2>2 DEF OpenForJob, ValidateRemote, ListRemotes
<1>18. ASSUME NEW w \in Worker, WriteOrigin(w) \/ FailSetOrigin(w) \/ EndFetch(w) PROVE JobInv'
  <2>1. \A result \in FetchResults(w) : result \in Outcome
    BY DEF FetchResults, Outcome, Failure
  <2>2. {"ok", "error"} \subseteq Outcome
    BY DEF Outcome, Failure
  <2> QED
    BY <1>16, <1>18, <2>1, <2>2 DEF WriteOrigin, FailSetOrigin, EndFetch
<1>19. ASSUME ServerDies PROVE JobInv'
  <2>1. /\ \A q \in Request : pc'[q] = IF pc[q] \in Settled \cup {"idle"} THEN pc[q] ELSE "cutOff"
        /\ UNCHANGED <<repo, url, seen, outcome, queue, job>>
    BY <1>19 DEF ServerDies
  <2>2. ASSUME NEW j \in Job, JobOK(j) PROVE JobOK(j)'
    BY <2>1, <2>2, CallersAreRequests DEF JobOK, MayHaveJob, Settled
  <2>3. JobsAreOK' /\ JobsAreSingle'
    BY <2>1, <2>2 DEF JobInv, JobsAreOK, JobsAreSingle, TypeOK, WorkerTypeOK
  <2>4. OutcomesAreAsked' /\ FetchesAreStarted' /\ SeenIsRead'
    BY <2>1, AutoFetchNames, ConsumersRequests
      DEF JobInv, OutcomesAreAsked, FetchesAreStarted, SeenIsRead, SeenOK, TookEffect, Over,
          Settled
  <2> QED
    BY <2>3, <2>4 DEF JobInv
<1>20. ASSUME NEW c \in Connect, OrphanInit(c) PROVE JobInv'
  BY <1>15, <1>20 DEF OrphanInit
<1>21. CASE UNCHANGED vars
  BY <1>15, <1>21 DEF vars
<1> QED
  BY <1>1, <1>2, <1>3, <1>4, <1>5, <1>6, <1>7, <1>8, <1>9, <1>10, <1>11, <1>12, <1>13, <1>14,
     <1>17, <1>18, <1>19, <1>20, <1>21, RequestKinds
    DEF Next, ConnectSteps, FetchSteps, WorkerSteps, Terminated

\* However requests and workers interleave, and whenever the server dies, a job
\* belongs to one request that has heard nothing of it, and no request has two.
THEOREM OneJobHolds == Spec => []OneJobPerWaiter
PROOF
<1>1. ASSUME TypeOK, JobInv PROVE OneJobPerWaiter
  <2>1. ASSUME NEW q \in Request, JobsOf(q) # {}
        PROVE pc[q] \in {"waiting", "cutOff"} /\ outcome[q] = "none"
    BY <1>1, <2>1 DEF JobsOf, JobInv, JobsAreOK, JobOK, MayHaveJob
  <2>2. ASSUME NEW q \in Request, NEW i \in JobsOf(q), NEW k \in JobsOf(q) PROVE i = k
    BY <1>1, <2>2 DEF JobsOf, JobInv, JobsAreSingle
  <2> QED
    BY <2>1, <2>2 DEF OneJobPerWaiter
<1>2. Init => TypeOK /\ JobInv
  BY TypesHoldFirst, JobsHoldFirst
<1>3. TypeOK /\ JobInv /\ [Next]_vars => (TypeOK /\ JobInv)'
  BY TypesAreKept, JobsAreKept
<1> QED
  BY <1>1, <1>2, <1>3, PTL DEF Spec

----------------------------------------------------------------------------
(***************************************************************************)
(* Who waits has a job                                                     *)
(***************************************************************************)
\* The request has a job, queued or at a worker.
HasJob(q) ==
  \/ \E i \in DOMAIN queue : queue[i].caller = q
  \/ \E w \in Worker : job[w] # NoJob /\ job[w].caller = q

LEMMA JobsOfRequests == \A q \in Request : JobsOf(q) # {} <=> HasJob(q)
BY DEF JobsOf, HasJob

LEMMA WaitersAfter ==
  ASSUME \A q \in Request : pc'[q] = "waiting" /\ outcome'[q] = "none" => HasJob(q)'
  PROVE  WaitersHaveJobs'
<1>1. ASSUME NEW q \in Request, HasJob(q)' PROVE JobsOf(q)' # {}
  <2>1. ASSUME NEW i \in DOMAIN queue', queue'[i].caller = q PROVE JobsOf(q)' # {}
    <3>1. <<"queued", i>> \in JobsOf(q)'
      BY <2>1 DEF JobsOf
    <3> QED
      BY <3>1
  <2>2. ASSUME NEW w \in Worker, job'[w] # NoJob, job'[w].caller = q PROVE JobsOf(q)' # {}
    <3>1. <<"taken", w>> \in JobsOf(q)'
      BY <2>2 DEF JobsOf
    <3> QED
      BY <3>1
  <2> QED
    BY <1>1, <2>1, <2>2 DEF HasJob
<1> QED
  BY <1>1 DEF WaitersHaveJobs

\* A step that sends nobody to wait, and takes no job from one who waits.
LEMMA WaitersStay ==
  ASSUME WaitersHaveJobs,
         \A q \in Request : pc'[q] = "waiting" /\ outcome'[q] = "none" =>
                              /\ pc[q] = "waiting" /\ outcome[q] = "none"
                              /\ HasJob(q) => HasJob(q)'
  PROVE  WaitersHaveJobs'
<1> SUFFICES ASSUME NEW q \in Request, pc'[q] = "waiting", outcome'[q] = "none"
             PROVE  HasJob(q)'
  BY WaitersAfter
<1>1. HasJob(q)
  BY JobsOfRequests DEF WaitersHaveJobs
<1> QED
  BY <1>1

\* A request asks for a job, and waits.
LEMMA WaitersAsk ==
  ASSUME TypeOK, WaitersHaveJobs, NEW q \in Request, NEW j, j.caller = q,
         Goto(q, "waiting"), queue' = Append(queue, j), UNCHANGED <<outcome, job>>
  PROVE  WaitersHaveJobs'
<1>1. /\ DOMAIN queue' = DOMAIN queue \cup {Len(queue) + 1}
      /\ \A i \in DOMAIN queue : queue'[i] = queue[i]
      /\ queue'[Len(queue) + 1] = j
  BY DEF TypeOK
<1>2. HasJob(q)'
  BY <1>1 DEF HasJob
<1>3. \A r \in Request : HasJob(r) => HasJob(r)'
  BY <1>1 DEF HasJob
<1>4. \A r \in Request : r # q => pc'[r] = pc[r]
  BY DEF Goto, TypeOK, ServerTypeOK
<1> SUFFICES ASSUME NEW r \in Request, pc'[r] = "waiting", outcome'[r] = "none"
             PROVE  HasJob(r)'
  BY WaitersAfter
<1>5. CASE r = q
  BY <1>2, <1>5
<1>6. CASE r # q
  BY <1>3, <1>4, <1>6, JobsOfRequests DEF WaitersHaveJobs
<1> QED
  BY <1>5, <1>6

\* A worker that ends a job tells its caller, and leaves the jobs of others alone.
LEMMA WaitersFinish ==
  ASSUME TypeOK, WaitersHaveJobs, NEW w \in Worker, stage[w] # "idle",
         NEW result \in Outcome \ {"none"}, Finish(w, result), UNCHANGED <<pc, queue>>
  PROVE  WaitersHaveJobs'
<1>1. job[w] \in Job /\ job[w].caller \in Request
  BY CallersAreRequests DEF TypeOK, WorkerTypeOK
<1>2. /\ outcome'[job[w].caller] # "none"
      /\ \A q \in Request : q # job[w].caller => outcome'[q] = outcome[q]
      /\ \A v \in Worker : v # w => job'[v] = job[v]
  BY <1>1 DEF Finish, TypeOK, ServerTypeOK, WorkerTypeOK
<1>3. \A q \in Request : q # job[w].caller /\ HasJob(q) => HasJob(q)'
  BY <1>2 DEF HasJob
<1> QED
  BY <1>2, <1>3, WaitersStay

\* A worker takes the first job: it is not lost on the way.
LEMMA WaitersTakeJob ==
  ASSUME TypeOK, WaitersHaveJobs, NEW w \in Worker, TakeJob(w)
  PROVE  WaitersHaveJobs'
<1>1. /\ queue \in Seq(Job) /\ queue # <<>>
      /\ job' = [job EXCEPT ![w] = queue[1]] /\ job[w] = NoJob
      /\ queue' = Tail(queue)
      /\ UNCHANGED <<pc, outcome>>
  BY DEF server, TakeJob, TypeOK, WorkerTypeOK
<1>2. /\ queue[1] # NoJob
      /\ \A i \in DOMAIN queue : i = 1 \/ (i - 1 \in DOMAIN queue' /\ queue'[i - 1] = queue[i])
  BY <1>1, NoValues DEF Job, SetOriginJob, FetchJob
<1>3. job'[w] = queue[1] /\ \A v \in Worker : v # w => job'[v] = job[v]
  BY <1>1 DEF TypeOK, WorkerTypeOK
<1>4. ASSUME NEW q \in Request, HasJob(q) PROVE HasJob(q)'
  <2>1. CASE \E v \in Worker : job[v] # NoJob /\ job[v].caller = q
    BY <1>1, <1>3, <2>1 DEF HasJob
  <2>2. ASSUME NEW i \in DOMAIN queue, queue[i].caller = q PROVE HasJob(q)'
    BY <1>2, <1>3, <2>2 DEF HasJob
  <2> QED
    BY <1>4, <2>1, <2>2 DEF HasJob
<1> QED
  BY <1>1, <1>4, WaitersStay

\* A step of a request that asks for no job.
LEMMA WaitersGoOn ==
  ASSUME TypeOK, WaitersHaveJobs, UNCHANGED <<outcome, queue, job>>,
         \A q \in Request : pc'[q] = "waiting" => pc[q] = "waiting"
  PROVE  WaitersHaveJobs'
BY WaitersStay DEF HasJob

LEMMA WaitersServer ==
  ASSUME TypeOK, WaitersHaveJobs, NEW q \in Request,
         \/ q \in Connect /\ (ReceiveConnect(q) \/ ConnectSteps(q))
         \/ q \in Fetcher /\ (ReceiveFetch(q) \/ FetchSteps(q))
  PROVE  WaitersHaveJobs'
<1>1. CASE q \in Connect /\ RequestOrigin(q)
  <2>1. PICK j : j = [name |-> "setOriginTo", repo |-> repo[q], url |-> url[q], caller |-> q]
    OBVIOUS
  <2>2. /\ j.caller = q /\ queue' = Append(queue, j) /\ Goto(q, "waiting")
        /\ UNCHANGED <<outcome, job>>
    BY <1>1, <2>1 DEF RequestOrigin, workers
  <2> QED
    BY <2>2, WaitersAsk
<1>2. CASE q \in Fetcher /\ RequestFetch(q) /\ Exists(repo[q])
  <2>1. PICK j : j = [name |-> "fetch", repo |-> repo[q], caller |-> q]
    OBVIOUS
  <2>2. /\ j.caller = q /\ queue' = Append(queue, j) /\ Goto(q, "waiting")
        /\ UNCHANGED <<outcome, job>>
    BY <1>2, <2>1 DEF RequestFetch, workers
  <2> QED
    BY <2>2, WaitersAsk
<1>3. CASE q \in Connect /\ Connected(q)
  <2>1. /\ pc' = [pc EXCEPT ![q] = "ok", ![AutoFetch(q)] = FetchStart(AutoFetch(q)).step]
        /\ FetchStart(AutoFetch(q)).step # "waiting"
        /\ UNCHANGED <<outcome, queue, job>>
    BY <1>3 DEF Connected, FetchStart, workers
  <2>2. \A r \in Request : pc'[r] = "waiting" => pc[r] = "waiting"
    BY <2>1 DEF TypeOK, ServerTypeOK
  <2> QED
    BY <2>1, <2>2, WaitersGoOn
<1>4. ASSUME NEW step, step # "waiting", pc' = [pc EXCEPT ![q] = step],
             UNCHANGED <<outcome, queue, job>>
      PROVE  WaitersHaveJobs'
  <2>1. \A r \in Request : pc'[r] = "waiting" => pc[r] = "waiting"
    BY <1>4 DEF TypeOK, ServerTypeOK
  <2> QED
    BY <1>4, <2>1, WaitersGoOn
<1>5. CASE q \in Connect /\ (ReceiveConnect(q) \/ FindRepo(q) \/ OpenClone(q) \/ CreateRepo(q))
  BY <1>4, <1>5 DEF ReceiveConnect, FindRepo, OpenClone, CreateRepo, Goto, Fail, workers
<1>6. CASE q \in Connect /\ (MakeDirectory(q) \/ InitBare(q) \/ Configure(q) \/ FailInit(q))
  BY <1>4, <1>6 DEF MakeDirectory, InitBare, Configure, FailInit, Goto, Fail, workers
<1>7. CASE q \in Connect /\ (ReadOrigin(q) \/ Reconnect(q) \/ NotConnected(q))
  BY <1>4, <1>7 DEF ReadOrigin, Reconnect, NotConnected, GiveUp, Goto, Fail, workers
<1>8. CASE q \in Fetcher /\ (ReceiveFetch(q) \/ Fetched(q) \/ FetchFailed(q))
  BY <1>4, <1>8 DEF ReceiveFetch, FetchStart, Fetched, FetchFailed, Goto, Fail, workers
<1>9. CASE q \in Fetcher /\ RequestFetch(q) /\ ~Exists(repo[q])
  BY <1>4, <1>9 DEF RequestFetch, Fail, workers
<1> QED
  BY <1>1, <1>2, <1>3, <1>5, <1>6, <1>7, <1>8, <1>9 DEF ConnectSteps, FetchSteps

LEMMA WaitersWorkers ==
  ASSUME TypeOK, WaitersHaveJobs, NEW w \in Worker, WorkerSteps(w)
  PROVE  WaitersHaveJobs'
<1>1. CASE TakeJob(w)
  BY <1>1, WaitersTakeJob
<1>2. CASE UNCHANGED <<pc, outcome, queue, job>>
  BY <1>2, WaitersGoOn
<1>3. ASSUME stage[w] # "idle", NEW result \in Outcome \ {"none"}, Finish(w, result),
             UNCHANGED <<pc, queue>>
      PROVE  WaitersHaveJobs'
  BY <1>3, WaitersFinish
<1>4. {"ok", "error"} \cup ValidationResults(w) \cup FetchResults(w) \subseteq Outcome \ {"none"}
  BY DEF ValidationResults, FetchResults, Outcome, Failure
<1>5. CASE OpenForJob(w) \/ ValidateRemote(w) \/ ListRemotes(w)
  BY <1>2, <1>3, <1>4, <1>5 DEF OpenForJob, ValidateRemote, ListRemotes, server
<1>6. CASE WriteOrigin(w) \/ FailSetOrigin(w) \/ EndFetch(w)
  BY <1>3, <1>4, <1>6 DEF WriteOrigin, FailSetOrigin, EndFetch, server
<1> QED
  BY <1>1, <1>5, <1>6 DEF WorkerSteps

\* WaitersHaveJobs is an invariant of Connections: whatever becomes of the clone, whichever
\* worker takes the job, and whenever the server dies, a request that waits has its job
\* queued or at a worker, or has been told how it ended.
THEOREM WaitersAreServed == Spec => []WaitersHaveJobs
<1>1. Init => WaitersHaveJobs
  BY DEF Init, WaitersHaveJobs
<1>2. TypeOK /\ WaitersHaveJobs /\ [Next]_vars => WaitersHaveJobs'
  <2> SUFFICES ASSUME TypeOK, WaitersHaveJobs, [Next]_vars PROVE WaitersHaveJobs'
    OBVIOUS
  <2>1. CASE UNCHANGED vars
    BY <2>1, WaitersGoOn DEF vars, server, workers
  <2>2. CASE ServerDies
    <3>1. /\ \A q \in Request : pc'[q] = "waiting" => pc[q] = "waiting"
          /\ UNCHANGED <<outcome, queue, job>>
      BY <2>2 DEF ServerDies, workers, Settled
    <3> QED
      BY <3>1, WaitersGoOn
  <2>3. CASE \E c \in Connect : OrphanInit(c)
    BY <2>3, WaitersGoOn DEF OrphanInit, server, workers
  <2> QED
    BY <2>1, <2>2, <2>3, WaitersServer, WaitersWorkers, ConsumersRequests
    DEF Next, Terminated, Request, Fetcher
<1> QED
  BY <1>1, <1>2, TypesHoldFirst, TypesAreKept, PTL DEF Spec

----------------------------------------------------------------------------
(***************************************************************************)
(* Connections and their fetches                                           *)
(***************************************************************************)

\* A fetch emits its one event in the step in which it ends, unless there was no repo.
FetchersTell == \A f \in Fetcher :
  /\ pc[f] \in {"idle"} \cup FetchStep \cup Over
  /\ Emitted("repo.fetched", f) <=> pc[f] = "ok"
  /\ Emitted("repo.fetch-failed", f) <=>
       pc[f] = "failed" /\ reason[f] \notin {"noSuchRepo", "noClone"}

ConnectedStarts == \A c \in Connect :
  Emitted("repo.connected", c) => pc[AutoFetch(c)] # "idle"

EventInv == FetchersTell /\ ConnectedStarts

\* What happens elsewhere: fetchers stay where they are, and nobody is connected.
LEMMA ElsewhereEvents ==
  ASSUME EventInv, repo' = repo,
         \A f \in Fetcher : pc'[f] = pc[f] /\ reason'[f] = reason[f],
         \A e \in emitted' : e \in emitted \/ e.name = "repo.reconnected",
         emitted \subseteq emitted'
  PROVE  EventInv'
<1>1. \A name, q : name # "repo.reconnected" => Emitted(name, q)' = Emitted(name, q)
  <2> SUFFICES ASSUME NEW name, NEW q, name # "repo.reconnected"
               PROVE  Emitted(name, q)' = Emitted(name, q)
    OBVIOUS
  <2>1. [name |-> name, repo |-> repo[q], by |-> q].name = name
    OBVIOUS
  <2> QED
    BY <2>1 DEF Emitted
<1>2. FetchersTell'
  BY <1>1 DEF EventInv, FetchersTell
<1>3. ConnectedStarts'
  BY <1>1, RequestKinds DEF EventInv, ConnectedStarts
<1> QED
  BY <1>2, <1>3 DEF EventInv

\* A fetcher takes a step, and emits the event of its end if that is due.
LEMMA FetcherEvents ==
  ASSUME TypeOK, EventInv, NEW f \in Fetcher, NEW step \in FetchStep \cup Settled, NEW why,
         pc' = [pc EXCEPT ![f] = step], pc[f] \in {"idle"} \cup FetchStep,
         reason' = [reason EXCEPT ![f] = why], repo' = repo,
         \/ /\ emitted' = emitted /\ step # "ok"
            /\ step = "failed" => why \in {"noSuchRepo", "noClone"}
         \/ Emit("repo.fetched", f) /\ step = "ok"
         \/ /\ Emit("repo.fetch-failed", f) /\ step = "failed"
            /\ why \notin {"noSuchRepo", "noClone"}
  PROVE  EventInv'
<1>1. f \in Request /\ f \notin Connect
  BY RequestKinds
<1>2. /\ pc'[f] = step /\ reason'[f] = why
      /\ \A q \in Request : q # f => pc'[q] = pc[q] /\ reason'[q] = reason[q]
  BY <1>1 DEF TypeOK, ServerTypeOK
<1>3. \A name, q : q # f => Emitted(name, q)' = Emitted(name, q)
  BY DEF Emit, Emitted
<1>4. ~Emitted("repo.fetched", f) /\ ~Emitted("repo.fetch-failed", f)
  BY DEF EventInv, FetchersTell, FetchStep
<1>5. /\ Emitted("repo.fetched", f)' <=> step = "ok"
      /\ Emitted("repo.fetch-failed", f)' <=>
           step = "failed" /\ why \notin {"noSuchRepo", "noClone"}
  BY <1>4 DEF Emit, Emitted
<1>6. FetchersTell'
  <2> SUFFICES ASSUME NEW g \in Fetcher
               PROVE  /\ pc'[g] \in {"idle"} \cup FetchStep \cup Over
                      /\ Emitted("repo.fetched", g)' <=> pc'[g] = "ok"
                      /\ Emitted("repo.fetch-failed", g)' <=>
                           pc'[g] = "failed" /\ reason'[g] \notin {"noSuchRepo", "noClone"}
    BY DEF FetchersTell
  <2>1. CASE g = f
    BY <1>2, <1>5, <2>1 DEF Over
  <2>2. CASE g # f
    BY <1>2, <1>3, <2>2, RequestKinds DEF EventInv, FetchersTell
  <2> QED
    BY <2>1, <2>2
<1>7. ConnectedStarts'
  <2> SUFFICES ASSUME NEW c \in Connect, Emitted("repo.connected", c)'
               PROVE  pc'[AutoFetch(c)] # "idle"
    BY DEF ConnectedStarts
  <2>1. pc[AutoFetch(c)] # "idle"
    BY <1>1, <1>3 DEF EventInv, ConnectedStarts
  <2> QED
    BY <1>2, <2>1, RequestKinds DEF FetchStep, Settled
<1> QED
  BY <1>6, <1>7 DEF EventInv

LEMMA FetchStepsEvents ==
  ASSUME TypeOK, EventInv, NEW f \in Fetcher, ReceiveFetch(f) \/ FetchSteps(f)
  PROVE  EventInv'
<1>1. reason' = reason => reason' = [reason EXCEPT ![f] = reason[f]]
  BY DEF TypeOK, ServerTypeOK
<1>2. CASE ReceiveFetch(f)
  <2>1. PICK step, why :
          /\ pc' = [pc EXCEPT ![f] = step] /\ reason' = [reason EXCEPT ![f] = why]
          /\ \/ step = "opening"
             \/ step = "failed" /\ why = "noSuchRepo"
    <3>1. CASE Exists(repo[f])
      BY <1>2, <3>1 DEF ReceiveFetch, FetchStart, Goto
    <3>2. CASE ~Exists(repo[f])
      BY <1>2, <3>2 DEF ReceiveFetch, FetchStart, Goto
    <3> QED
      BY <3>1, <3>2
  <2> QED
    BY <1>2, <2>1, FetcherEvents DEF ReceiveFetch, FetchStep, Settled
<1>3. CASE RequestFetch(f)
  BY <1>1, <1>3, FetcherEvents DEF RequestFetch, Goto, Fail, FetchStep, Settled
<1>4. CASE Fetched(f)
  BY <1>1, <1>4, FetcherEvents DEF Fetched, Goto, FetchStep, Settled
<1>5. CASE FetchFailed(f)
  BY <1>5, FetcherEvents DEF FetchFailed, Fail, Failure, FetchStep, Settled
<1> QED
  BY <1>2, <1>3, <1>4, <1>5 DEF FetchSteps

\* A request that succeeds starts its fetch, which nobody has started before.
LEMMA ConnectedEvents ==
  ASSUME TypeOK, JobInv, EventInv, NEW c \in Connect, Connected(c)
  PROVE  EventInv'
<1> DEFINE f == AutoFetch(c)
<1>1. f \in Fetcher /\ f \in Request /\ f # c /\ c \in Request
  BY RequestKinds
<1>2. pc[f] = "idle"
  BY DEF JobInv, FetchesAreStarted, Connected
<1>3. PICK step, why :
        /\ pc' = [pc EXCEPT ![c] = "ok", ![f] = step]
        /\ reason' = [reason EXCEPT ![f] = why]
        /\ \/ step = "opening"
           \/ step = "failed" /\ why = "noSuchRepo"
  BY DEF Connected, FetchStart
<1>4. /\ pc'[f] = step /\ reason'[f] = why
      /\ \A g \in Fetcher \ {f} : pc'[g] = pc[g] /\ reason'[g] = reason[g]
      /\ \A d \in Connect \ {c} : AutoFetch(d) \in Fetcher \ {f}
  <2> HIDE DEF f
  <2>1. pc'[f] = step /\ reason'[f] = why
    BY <1>1, <1>3 DEF TypeOK, ServerTypeOK
  <2>2. \A g \in Fetcher \ {f} : pc'[g] = pc[g] /\ reason'[g] = reason[g]
    BY <1>1, <1>3, RequestKinds DEF TypeOK, ServerTypeOK
  <2>3. \A d \in Connect \ {c} : AutoFetch(d) \in Fetcher \ {f}
    BY RequestKinds, AutoFetchNames DEF f
  <2> QED
    BY <2>1, <2>2, <2>3
<1>5. /\ \A name, q : q # c => Emitted(name, q)' = Emitted(name, q)
      /\ \A g \in Fetcher : g # c
  BY RequestKinds DEF Connected, Emit, Emitted
<1> HIDE DEF f
<1>6. FetchersTell'
  <2> SUFFICES ASSUME NEW g \in Fetcher
               PROVE  /\ pc'[g] \in {"idle"} \cup FetchStep \cup Over
                      /\ Emitted("repo.fetched", g)' <=> pc'[g] = "ok"
                      /\ Emitted("repo.fetch-failed", g)' <=>
                           pc'[g] = "failed" /\ reason'[g] \notin {"noSuchRepo", "noClone"}
    BY DEF FetchersTell
  <2>1. CASE g = f
    BY <1>2, <1>3, <1>4, <1>5, <2>1 DEF EventInv, FetchersTell, FetchStep, Over, Settled
  <2>2. CASE g # f
    BY <1>4, <1>5, <2>2 DEF EventInv, FetchersTell
  <2> QED
    BY <2>1, <2>2
<1>7. ConnectedStarts'
  <2> SUFFICES ASSUME NEW d \in Connect, Emitted("repo.connected", d)'
               PROVE  pc'[AutoFetch(d)] # "idle"
    BY DEF ConnectedStarts
  <2>1. CASE d = c
    BY <1>3, <1>4, <2>1 DEF f
  <2>2. CASE d # c
    BY <1>4, <1>5, <2>2 DEF EventInv, ConnectedStarts
  <2> QED
    BY <2>1, <2>2
<1> QED
  BY <1>6, <1>7 DEF EventInv

\* The other steps of a connect request are no fetcher's.
LEMMA ConnectStepsEvents ==
  ASSUME TypeOK, EventInv, NEW c \in Connect,
         ReceiveConnect(c) \/ ConnectSteps(c), ~Connected(c)
  PROVE  EventInv'
<1>1. ASSUME NEW step, pc' = [pc EXCEPT ![c] = step],
             reason' = reason \/ \E why : reason' = [reason EXCEPT ![c] = why],
             repo' = repo, emitted' = emitted \/ Emit("repo.reconnected", c)
      PROVE  EventInv'
  <2>1. \A f \in Fetcher : pc'[f] = pc[f] /\ reason'[f] = reason[f]
    BY <1>1, RequestKinds DEF TypeOK, ServerTypeOK
  <2>2. emitted \subseteq emitted' /\ \A e \in emitted' : e \in emitted \/ e.name = "repo.reconnected"
    BY <1>1 DEF Emit
  <2> QED
    BY <1>1, <2>1, <2>2, ElsewhereEvents
<1>2. CASE ReceiveConnect(c) \/ FindRepo(c) \/ OpenClone(c) \/ CreateRepo(c)
  BY <1>1, <1>2 DEF ReceiveConnect, FindRepo, OpenClone, CreateRepo, Goto, Fail
<1>3. CASE MakeDirectory(c) \/ InitBare(c) \/ Configure(c) \/ FailInit(c)
  BY <1>1, <1>3 DEF MakeDirectory, InitBare, Configure, FailInit, Goto, Fail
<1>4. CASE ReadOrigin(c) \/ NotConnected(c)
  BY <1>1, <1>4 DEF ReadOrigin, NotConnected, GiveUp, Goto, Fail
<1>5. CASE Reconnect(c) \/ RequestOrigin(c)
  BY <1>1, <1>5 DEF Reconnect, RequestOrigin, Goto
<1> QED
  BY <1>2, <1>3, <1>4, <1>5 DEF ConnectSteps

LEMMA DeathEvents ==
  ASSUME EventInv, TypeOK, ServerDies
  PROVE  EventInv'
<1>1. /\ \A q \in Request : pc'[q] = IF pc[q] \in Settled \cup {"idle"} THEN pc[q] ELSE "cutOff"
      /\ UNCHANGED <<repo, reason, emitted>>
  BY DEF ServerDies
<1>2. \A name, q : Emitted(name, q)' = Emitted(name, q)
  BY <1>1 DEF Emitted
<1>3. FetchersTell'
  BY <1>1, <1>2, RequestKinds DEF EventInv, FetchersTell, Settled, Over
<1>4. ConnectedStarts'
  BY <1>1, <1>2, RequestKinds DEF EventInv, ConnectedStarts
<1> QED
  BY <1>3, <1>4 DEF EventInv

\* FetchFollowsConnection is an invariant of Connections: whatever becomes of the repo, a
\* fetch has started with each repo.connected, and ends with the one event that tells how,
\* unless it finds no repo or its server dies.
THEOREM FetchesFollowConnections == Spec => []FetchFollowsConnection
<1>1. Init => EventInv
  BY RequestKinds DEF Init, EventInv, FetchersTell, ConnectedStarts, Emitted
<1>2. TypeOK /\ JobInv /\ EventInv /\ [Next]_vars => EventInv'
  <2> SUFFICES ASSUME TypeOK, JobInv, EventInv, [Next]_vars PROVE EventInv'
    OBVIOUS
  <2>1. CASE UNCHANGED <<pc, repo, reason, emitted>>
    BY <2>1, ElsewhereEvents
  <2>2. ASSUME NEW w \in Worker, WorkerSteps(w) PROVE UNCHANGED <<pc, repo, reason, emitted>>
    BY <2>2 DEF WorkerSteps, TakeJob, OpenForJob, ValidateRemote, ListRemotes, WriteOrigin,
       FailSetOrigin, EndFetch, server
  <2>3. CASE \E c \in Connect : Connected(c)
    BY <2>3, ConnectedEvents
  <2>4. CASE \E c \in Connect : (ReceiveConnect(c) \/ ConnectSteps(c)) /\ ~Connected(c)
    BY <2>4, ConnectStepsEvents
  <2>5. CASE \E f \in Fetcher : ReceiveFetch(f) \/ FetchSteps(f)
    BY <2>5, FetchStepsEvents
  <2>6. CASE ServerDies
    BY <2>6, DeathEvents
  <2>7. ASSUME NEW c \in Connect, OrphanInit(c) PROVE UNCHANGED <<pc, repo, reason, emitted>>
    BY <2>7 DEF OrphanInit, server
  <2> QED
    BY <2>1, <2>2, <2>3, <2>4, <2>5, <2>6, <2>7, RequestKinds DEF Next, Terminated, vars, server
<1>3. EventInv => FetchFollowsConnection
  <2> SUFFICES ASSUME EventInv, NEW c \in Connect, Emitted("repo.connected", c),
                      pc[AutoFetch(c)] \notin FetchStep \cup {"cutOff"},
                      ~(pc[AutoFetch(c)] = "failed"
                        /\ reason[AutoFetch(c)] \in {"noSuchRepo", "noClone"})
               PROVE  \E name \in {"repo.fetched", "repo.fetch-failed"} :
                        /\ pc[AutoFetch(c)] = IF name = "repo.fetched" THEN "ok" ELSE "failed"
                        /\ \A n \in {"repo.fetched", "repo.fetch-failed"} :
                             Emitted(n, AutoFetch(c)) <=> n = name
    BY DEF FetchFollowsConnection
  <2>1. AutoFetch(c) \in Fetcher /\ pc[AutoFetch(c)] # "idle"
    BY RequestKinds DEF EventInv, ConnectedStarts
  <2> QED
    BY <2>1 DEF EventInv, FetchersTell, Over, Settled
<1> QED
  BY <1>1, <1>2, <1>3, TypesHoldFirst, TypesAreKept, JobsHoldFirst, JobsAreKept, PTL DEF Spec

----------------------------------------------------------------------------
(***************************************************************************)
(* Origins                                                                 *)
(***************************************************************************)

\* A step that writes no origin, and reads none.
LEMMA OtherStepsKeepOrigins ==
  ASSUME TypeOK, OriginInv, UNCHANGED <<repo, url, seen, origin>>,
         \A d \in Connect : outcome'[d] = "ok" <=> outcome[d] = "ok",
         \A r \in Repo : bare[r] => bare'[r],
         \A c \in Connect : Emitted("repo.reconnected", c)' =>
           Emitted("repo.reconnected", c) \/ seen[c] = url[c],
         \A d \in Connect : outcome[d] = "ok" =>
           pc'[d] \in MayHaveJob \/ (pc'[d] = "ok" /\ pc'[AutoFetch(d)] # "idle"),
         \A c \in Connect : pc[c] = "failed" => pc'[c] = "failed",
         \A c \in creators' :
           c \in creators \/ (c \in Connect /\ seen[c] = NoUrl /\ outcome[c] # "ok"),
         \A c \in creators : clone'[repo[c]] = c => clone[repo[c]] = c
  PROVE  OriginInv'
PROOF
<1>1. \A r, u : (IsLinked(r, u)' <=> IsLinked(r, u)) /\ (IsShown(r, u)' <=> IsShown(r, u))
  BY DEF IsLinked, LinkedBy, IsShown
<1>2. OriginsAreLinked' /\ SeenIsShown'
  BY <1>1 DEF OriginInv, OriginsAreLinked, SeenIsShown
<1>3. ReconnectedHasSeen'
  BY DEF OriginInv, ReconnectedHasSeen
<1>4. LinkedMeansFetch'
  BY DEF OriginInv, LinkedMeansFetch
<1>5. CreatedStaysLinked'
  BY RequestKinds DEF OriginInv, CreatedStaysLinked, TypeOK, ServerTypeOK
<1> QED
  BY <1>2, <1>3, <1>4, <1>5 DEF OriginInv

\* A request whose job has not succeeded fails: it takes no origin away but that of
\* the clone it has created.
LEMMA GiveUpKeepsOrigins ==
  ASSUME TypeOK, CreationInv, OriginInv, NEW c \in Connect, NEW why, GiveUp(c, why),
         pc[c] \in InTransaction, outcome[c] # "ok",
         UNCHANGED <<repo, url, creators, seen, outcome, emitted>>
  PROVE  OriginInv'
PROOF
<1>1. pc' = [pc EXCEPT ![c] = "failed"]
  BY DEF GiveUp, Fail
<1>2. \A r, u : (IsLinked(r, u)' <=> IsLinked(r, u)) /\ (IsShown(r, u)' <=> IsShown(r, u))
  BY DEF IsLinked, LinkedBy, IsShown
<1>3. \A r \in Repo : origin'[r] \in {origin[r], NoUrl}
  BY DEF GiveUp, RemoveClone, FailRemove, disk, TypeOK, DiskTypeOK
<1>4. OriginsAreLinked' /\ SeenIsShown' /\ ReconnectedHasSeen'
  BY <1>2, <1>3 DEF OriginInv, OriginsAreLinked, SeenIsShown, ReconnectedHasSeen, Emitted
<1>5. LinkedMeansFetch'
  BY <1>1, AutoFetchNames, RequestKinds DEF OriginInv, LinkedMeansFetch, TypeOK, ServerTypeOK
<1>6. \A r \in Repo : r # repo[c] \/ c \notin creators =>
        clone'[r] = clone[r] /\ bare'[r] = bare[r] /\ origin'[r] = origin[r]
  BY DEF GiveUp, RemoveClone, FailRemove, disk, TypeOK, DiskTypeOK
<1>7. clone'[repo[c]] \in {clone[repo[c]], NoClone} /\ (c \in creators => clone[repo[c]] = c)
  BY GiveUpRemovesItsOwn, RequestKinds
    DEF CreationInv, CreatorOwnsClone, Creating, TypeOK, ServerTypeOK, DiskTypeOK
<1>8. CreatedStaysLinked'
  <2> SUFFICES ASSUME NEW d \in creators, clone'[repo[d]] = d, pc'[d] # "failed",
                      seen[d] # NoUrl \/ outcome[d] = "ok"
               PROVE  bare'[repo[d]] /\ origin'[repo[d]] # NoUrl
    BY DEF CreatedStaysLinked
  <2>1. d \in Request /\ c \in Request /\ repo[d] \in Repo /\ d # c /\ d \in Connect
    BY <1>1, RequestKinds DEF TypeOK, ServerTypeOK
  <2>2. repo[d] # repo[c] \/ c \notin creators
    BY <1>7, <2>1, NoValues
  <2> QED
    BY <1>1, <1>6, <2>1, <2>2 DEF OriginInv, CreatedStaysLinked, TypeOK, ServerTypeOK
<1> QED
  BY <1>4, <1>5, <1>8 DEF OriginInv

LEMMA OriginsHoldFirst == Init => OriginInv
PROOF BY RequestKinds, NoValues
  DEF Init, OriginInv, OriginsAreLinked, SeenIsShown, ReconnectedHasSeen, Emitted,
      LinkedMeansFetch, CreatedStaysLinked

\* The steps of a connect request that read no origin and fail no transaction.
LEMMA ConnectStepsKeepOrigins ==
  ASSUME TypeOK, JobInv, CreationInv, OriginInv, NEW c \in Connect,
         \/ ReceiveConnect(c) \/ FindRepo(c) \/ OpenClone(c) \/ CreateRepo(c)
         \/ MakeDirectory(c) \/ InitBare(c) \/ Configure(c) \/ FailInit(c)
         \/ Reconnect(c) \/ RequestOrigin(c)
  PROVE  OriginInv'
PROOF
<1> USE DEF server, disk, workers
<1>1. UNCHANGED <<repo, url, seen, outcome, origin>>
  BY DEF ReceiveConnect, FindRepo, OpenClone, CreateRepo, MakeDirectory, InitBare, Configure,
         FailInit, Reconnect, RequestOrigin
<1>2. \A r \in Repo : bare[r] => bare'[r]
  BY DEF ReceiveConnect, FindRepo, OpenClone, CreateRepo, MakeDirectory, InitBare, Configure,
         FailInit, Reconnect, RequestOrigin, TypeOK, DiskTypeOK
<1>3. PICK next : pc' = [pc EXCEPT ![c] = next] /\ pc[c] \notin {"waiting"} \cup Over
  BY DEF ReceiveConnect, FindRepo, OpenClone, CreateRepo, MakeDirectory, InitBare, Configure,
         FailInit, Reconnect, RequestOrigin, Goto, Fail, Over, Settled
<1>4. outcome[c] = "none"
  BY <1>3, RequestKinds DEF JobInv, OutcomesAreAsked
<1>5. \A d \in Connect : outcome[d] = "ok" =>
        pc'[d] \in MayHaveJob \/ (pc'[d] = "ok" /\ pc'[AutoFetch(d)] # "idle")
  BY <1>3, <1>4, AutoFetchNames, RequestKinds DEF OriginInv, LinkedMeansFetch, TypeOK, ServerTypeOK
<1>6. \A d \in Connect : pc[d] = "failed" => pc'[d] = "failed"
  BY <1>3, RequestKinds DEF TypeOK, ServerTypeOK, Over, Settled
<1>7. \A d \in Connect : Emitted("repo.reconnected", d)' =>
        Emitted("repo.reconnected", d) \/ seen[d] = url[d]
  BY DEF ReceiveConnect, FindRepo, OpenClone, CreateRepo, MakeDirectory, InitBare, Configure,
         FailInit, Reconnect, RequestOrigin, Emitted, Emit
<1>8. \A d \in creators' :
        d \in creators \/ (d \in Connect /\ seen[d] = NoUrl /\ outcome[d] # "ok")
  <2>1. Configure(c) => pc[c] = "configuring" /\ creators' = creators \cup {c}
    BY DEF Configure
  <2>2. pc[c] = "configuring" => seen[c] = NoUrl
    BY DEF JobInv, SeenIsRead, SeenOK, Over, Settled
  <2>3. ~Configure(c) => creators' = creators
    BY DEF ReceiveConnect, FindRepo, OpenClone, CreateRepo, MakeDirectory, InitBare,
           FailInit, Reconnect, RequestOrigin
  <2> QED
    BY <1>4, <2>1, <2>2, <2>3
<1>9. \A d \in creators : clone'[repo[d]] = d => clone[repo[d]] = d
  <2>1. MakeDirectory(c) => /\ c \notin creators
                            /\ clone' \in {clone, [clone EXCEPT ![repo[c]] = c]}
    BY DEF MakeDirectory, CreationInv, CreatorsAreInside, InTransaction, Over, Settled
  <2>2. ~MakeDirectory(c) => UNCHANGED clone
    BY DEF ReceiveConnect, FindRepo, OpenClone, CreateRepo, InitBare, Configure,
           FailInit, Reconnect, RequestOrigin
  <2> QED
    BY <2>1, <2>2, RequestKinds DEF TypeOK, ServerTypeOK, DiskTypeOK
<1> QED
  BY <1>1, <1>2, <1>5, <1>6, <1>7, <1>8, <1>9, OtherStepsKeepOrigins

LEMMA ReadOriginKeepsOrigins ==
  ASSUME TypeOK, JobInv, CreationInv, OriginInv, NEW c \in Connect, ReadOrigin(c)
  PROVE  OriginInv'
PROOF
<1>1. pc[c] = "reading" /\ outcome[c] = "none"
  BY RequestKinds DEF ReadOrigin, JobInv, OutcomesAreAsked, Over, Settled
<1>2. CASE /\ GiveUp(c, "gitError")
           /\ UNCHANGED <<repo, url, creators, seen, outcome, emitted>>
  BY <1>1, <1>2, GiveUpKeepsOrigins DEF InTransaction
<1>3. CASE /\ pc' = [pc EXCEPT ![c] = "deciding"]
           /\ IsRepo(repo[c])
           /\ seen' = [seen EXCEPT ![c] = ReadBack(origin[repo[c]])]
           /\ UNCHANGED <<repo, url, creators, outcome, emitted, clone, bare, origin>>
  <2>1. \A d \in Connect : d # c => seen'[d] = seen[d] /\ pc'[d] = pc[d]
    BY <1>3, RequestKinds DEF TypeOK, ServerTypeOK
  <2>2. seen'[c] = ReadBack(origin[repo[c]]) /\ repo[c] \in Repo /\ seen[c] = NoUrl
    BY <1>1, <1>3, RequestKinds DEF JobInv, SeenIsRead, SeenOK, Over, Settled, TypeOK, ServerTypeOK
  <2>3. \A r, u : (IsLinked(r, u)' <=> IsLinked(r, u)) /\ (IsShown(r, u)' <=> IsShown(r, u))
    BY <1>3 DEF IsLinked, LinkedBy, IsShown
  <2>4. seen'[c] # NoUrl => origin[repo[c]] # NoUrl
    BY <2>2, ReadBackOfUrls
  <2>5. OriginsAreLinked' /\ SeenIsShown'
    <3>1. seen'[c] # NoUrl => IsShown(repo[c], seen'[c])
      BY <2>2, <2>4 DEF OriginInv, OriginsAreLinked, IsLinked, LinkedBy, IsShown
    <3> QED
      BY <1>3, <2>1, <2>3, <3>1 DEF OriginInv, OriginsAreLinked, SeenIsShown
  <2>6. ReconnectedHasSeen'
    BY <1>3, <2>1, <2>2, CutUrls DEF OriginInv, ReconnectedHasSeen, Emitted, TypeOK, ServerTypeOK
  <2>7. LinkedMeansFetch'
    BY <1>1, <1>3, AutoFetchNames, RequestKinds
      DEF OriginInv, LinkedMeansFetch, TypeOK, ServerTypeOK
  <2>8. CreatedStaysLinked'
    BY <1>1, <1>3, <2>1, <2>4, RequestKinds
      DEF OriginInv, CreatedStaysLinked, TypeOK, ServerTypeOK, IsRepo
  <2> QED
    BY <2>5, <2>6, <2>7, <2>8 DEF OriginInv
<1> QED
  BY <1>2, <1>3, ReadOriginCases

LEMMA WriteOriginKeepsOrigins ==
  ASSUME TypeOK, JobInv, OriginInv, NEW w \in Worker, WriteOrigin(w)
  PROVE  OriginInv'
PROOF
<1>1. job[w] \in SetOriginJob /\ job[w] \in Job /\ job[w] # NoJob
  BY DEF WriteOrigin, TypeOK, WorkerTypeOK, ConnectStage, Job
<1>0. PICK q \in Connect : q = job[w].caller
  BY <1>1, CallersAreRequests
<1>2. /\ q \in Connect /\ q \in Request /\ job[w].repo = repo[q] /\ job[w].url = url[q]
      /\ pc[q] \in MayHaveJob /\ outcome[q] = "none" /\ repo[q] \in Repo /\ url[q] \in Url
  BY <1>0, <1>1, CallersAreRequests DEF JobInv, JobsAreOK, JobOK, TypeOK, ServerTypeOK
<1>3. /\ outcome' = [outcome EXCEPT ![q] = "ok"]
      /\ origin' = [origin EXCEPT ![repo[q]] = url[q]]
      /\ bare[repo[q]]
      /\ UNCHANGED <<pc, repo, url, creators, seen, emitted, clone, bare>>
  BY <1>0, <1>2 DEF WriteOrigin, Finish, CanWriteOrigin, IsRepo, server
<1>4. outcome'[q] = "ok" /\ \A d \in Connect : d # q => outcome'[d] = outcome[d]
  BY <1>2, <1>3, RequestKinds DEF TypeOK, ServerTypeOK
<1>5. \A r, u : (IsLinked(r, u) => IsLinked(r, u)') /\ (IsShown(r, u) => IsShown(r, u)')
  BY <1>3, <1>4 DEF IsLinked, LinkedBy, IsShown
<1>6. IsLinked(repo[q], url[q])'
  BY <1>2, <1>3, <1>4 DEF IsLinked, LinkedBy
<1>7. OriginsAreLinked'
  <2>1. \A r \in Repo : origin'[r] = IF r = repo[q] THEN url[q] ELSE origin[r]
    BY <1>2, <1>3 DEF TypeOK, DiskTypeOK
  <2> SUFFICES ASSUME NEW r \in Repo, origin'[r] # NoUrl PROVE IsLinked(r, origin[r])'
    BY DEF OriginsAreLinked
  <2>2. CASE r = repo[q]
    BY <1>3, <1>6, <2>1, <2>2
  <2>3. CASE r # repo[q]
    BY <1>5, <2>1, <2>3 DEF OriginInv, OriginsAreLinked
  <2> QED
    BY <2>2, <2>3
<1>8. SeenIsShown'
  BY <1>3, <1>5 DEF OriginInv, SeenIsShown
<1>9. ReconnectedHasSeen' /\ LinkedMeansFetch'
  BY <1>2, <1>3, <1>4 DEF OriginInv, ReconnectedHasSeen, LinkedMeansFetch, Emitted
<1>10. CreatedStaysLinked'
  <2> SUFFICES ASSUME NEW d \in creators, clone[repo[d]] = d, pc[d] # "failed",
                      seen[d] # NoUrl \/ outcome'[d] = "ok"
               PROVE  bare[repo[d]] /\ origin'[repo[d]] # NoUrl
    BY <1>3 DEF CreatedStaysLinked
  <2>1. d \in Connect /\ repo[d] \in Repo
    BY RequestKinds DEF TypeOK, ServerTypeOK
  <2>2. CASE repo[d] = repo[q]
    BY <1>2, <1>3, <2>2, CutUrls DEF TypeOK, DiskTypeOK
  <2>3. CASE repo[d] # repo[q]
    BY <1>2, <1>3, <1>4, <2>1, <2>3 DEF OriginInv, CreatedStaysLinked, TypeOK, DiskTypeOK
  <2> QED
    BY <2>2, <2>3
<1> QED
  BY <1>7, <1>8, <1>9, <1>10 DEF OriginInv

\* A worker ends a job, but not by writing an origin: its caller, if it is a connect
\* request, hears of no success.
LEMMA WorkersEndNoOrigin ==
  ASSUME TypeOK, JobInv, NEW w \in Worker,
         \/ TakeJob(w) \/ OpenForJob(w) \/ ValidateRemote(w) \/ ListRemotes(w)
         \/ FailSetOrigin(w) \/ EndFetch(w)
  PROVE  \A d \in Connect : outcome'[d] = "ok" <=> outcome[d] = "ok"
PROOF
<1>1. CASE UNCHANGED outcome
  BY <1>1
<1>2. ASSUME NEW result, Finish(w, result), stage[w] # "idle",
             result # "ok" \/ job[w] \in FetchJob
      PROVE  \A d \in Connect : outcome'[d] = "ok" <=> outcome[d] = "ok"
  <2>1. job[w] \in Job /\ job[w] # NoJob /\ JobOK(job[w])
    BY <1>2 DEF TypeOK, WorkerTypeOK, JobInv, JobsAreOK
  <2>2. PICK q \in Request : q = job[w].caller
    BY <2>1, CallersAreRequests
  <2>3. outcome[q] = "none" /\ outcome' = [outcome EXCEPT ![q] = result]
    BY <1>2, <2>1, <2>2 DEF JobOK, Finish
  <2>4. result # "ok" \/ q \notin Connect
    BY <1>2, <2>2, RequestKinds DEF FetchJob
  <2> QED
    BY <2>3, <2>4, RequestKinds DEF TypeOK, ServerTypeOK
<1>3. TakeJob(w) => UNCHANGED outcome
  BY DEF TakeJob
<1>4. OpenForJob(w) => UNCHANGED outcome \/ (Finish(w, "error") /\ stage[w] # "idle")
  BY DEF OpenForJob
<1>5. ValidateRemote(w) => UNCHANGED outcome
        \/ \E result : Finish(w, result) /\ stage[w] # "idle" /\ result # "ok"
  BY DEF ValidateRemote
<1>6. ListRemotes(w) => UNCHANGED outcome
  BY DEF ListRemotes
<1>7. FailSetOrigin(w) => Finish(w, "error") /\ stage[w] # "idle"
  BY DEF FailSetOrigin
<1>8. EndFetch(w) => /\ \E result : Finish(w, result)
                     /\ stage[w] # "idle" /\ job[w] \in FetchJob
  BY DEF EndFetch, TypeOK, WorkerTypeOK
<1> QED
  BY <1>1, <1>2, <1>3, <1>4, <1>5, <1>6, <1>7, <1>8

LEMMA WorkersKeepOrigins ==
  ASSUME TypeOK, JobInv, OriginInv, NEW w \in Worker,
         \/ TakeJob(w) \/ OpenForJob(w) \/ ValidateRemote(w) \/ ListRemotes(w)
         \/ FailSetOrigin(w) \/ EndFetch(w)
  PROVE  OriginInv'
PROOF
<1>1. UNCHANGED <<pc, repo, url, creators, seen, emitted, clone, bare, origin>>
  BY DEF TakeJob, OpenForJob, ValidateRemote, ListRemotes, FailSetOrigin, EndFetch, server, disk
<1>2. \A d \in Connect : outcome'[d] = "ok" <=> outcome[d] = "ok"
  BY WorkersEndNoOrigin
<1>3. \A d \in Connect : outcome[d] = "ok" =>
        pc'[d] \in MayHaveJob \/ (pc'[d] = "ok" /\ pc'[AutoFetch(d)] # "idle")
  BY <1>1 DEF OriginInv, LinkedMeansFetch
<1> QED
  BY <1>1, <1>2, <1>3, OtherStepsKeepOrigins DEF Emitted

\* The steps of a fetch request.
LEMMA FetchersKeepOrigins ==
  ASSUME TypeOK, JobInv, OriginInv, NEW f \in Fetcher,
         (f \in Fetch /\ ReceiveFetch(f)) \/ FetchSteps(f)
  PROVE  OriginInv'
PROOF
<1> USE DEF server, disk, FetchSteps
<1>1. UNCHANGED <<repo, url, creators, seen, outcome, clone, bare, origin>>
  BY DEF ReceiveFetch, RequestFetch, Fetched, FetchFailed
<1>2. PICK next : pc' = [pc EXCEPT ![f] = next] /\ next # "idle"
  BY DEF ReceiveFetch, RequestFetch, Fetched, FetchFailed, FetchStart, Goto, Fail
<1>3. \A d \in Connect : pc'[d] = pc[d]
  BY <1>2, RequestKinds DEF TypeOK, ServerTypeOK
<1>4. \A d \in Connect : outcome[d] = "ok" =>
        pc'[d] \in MayHaveJob \/ (pc'[d] = "ok" /\ pc'[AutoFetch(d)] # "idle")
  BY <1>2, <1>3, RequestKinds DEF OriginInv, LinkedMeansFetch, TypeOK, ServerTypeOK
<1>5. \A d \in Connect : Emitted("repo.reconnected", d)' => Emitted("repo.reconnected", d)
  BY DEF ReceiveFetch, RequestFetch, Fetched, FetchFailed, Emitted, Emit
<1> QED
  BY <1>1, <1>3, <1>4, <1>5, OtherStepsKeepOrigins

LEMMA OriginsAreKept ==
  TypeOK /\ JobInv /\ CreationInv /\ OriginInv /\ [Next]_vars => OriginInv'
PROOF
<1> SUFFICES ASSUME TypeOK, JobInv, CreationInv, OriginInv, [Next]_vars PROVE OriginInv'
  OBVIOUS
<1>1. ASSUME NEW c \in Connect, Connected(c) PROVE OriginInv'
  <2>1. /\ UNCHANGED <<repo, url, creators, seen, outcome, clone, bare, origin>>
        /\ pc' = [pc EXCEPT ![c] = "ok", ![AutoFetch(c)] = FetchStart(AutoFetch(c)).step]
        /\ FetchStart(AutoFetch(c)).step # "idle"
        /\ pc[c] # "failed"
    BY <1>1 DEF Connected, FetchStart, disk
  <2>2. \A d \in Connect : Emitted("repo.reconnected", d)' => Emitted("repo.reconnected", d)
    BY <1>1 DEF Connected, Emitted, Emit
  <2>3. \A d \in Connect : outcome[d] = "ok" =>
          pc'[d] \in MayHaveJob \/ (pc'[d] = "ok" /\ pc'[AutoFetch(d)] # "idle")
    BY <2>1, AutoFetchNames, RequestKinds DEF OriginInv, LinkedMeansFetch, TypeOK, ServerTypeOK
  <2>4. \A d \in Connect : pc[d] = "failed" => pc'[d] = "failed"
    BY <2>1, AutoFetchNames, RequestKinds DEF TypeOK, ServerTypeOK
  <2> QED
    BY <2>1, <2>2, <2>3, <2>4, OtherStepsKeepOrigins
<1>2. ASSUME NEW c \in Connect, NotConnected(c) PROVE OriginInv'
  BY <1>2, GiveUpKeepsOrigins DEF NotConnected, InTransaction, Failure
<1>3. ASSUME ServerDies PROVE OriginInv'
  <2>1. /\ UNCHANGED <<repo, url, creators, seen, outcome, emitted, clone, origin>>
        /\ \A q \in Request : pc'[q] = IF pc[q] \in Settled \cup {"idle"} THEN pc[q] ELSE "cutOff"
    BY <1>3 DEF ServerDies, disk
  <2>2. UNCHANGED bare
    BY <1>3 DEF ServerDies, disk
  <2>3. \A d \in Connect : outcome[d] = "ok" =>
          pc'[d] \in MayHaveJob \/ (pc'[d] = "ok" /\ pc'[AutoFetch(d)] # "idle")
    BY <2>1, RequestKinds, AutoFetchNames DEF OriginInv, LinkedMeansFetch, MayHaveJob, Settled
  <2>4. \A d \in Connect : pc[d] = "failed" => pc'[d] = "failed"
    BY <2>1, RequestKinds DEF Settled
  <2> QED
    BY <2>1, <2>2, <2>3, <2>4, OtherStepsKeepOrigins DEF Emitted
<1>4. CASE UNCHANGED vars
  <2>1. UNCHANGED <<pc, repo, url, creators, seen, outcome, emitted, clone, bare, origin>>
    BY <1>4 DEF vars, server, disk
  <2>2. \A d \in Connect : outcome[d] = "ok" =>
          pc'[d] \in MayHaveJob \/ (pc'[d] = "ok" /\ pc'[AutoFetch(d)] # "idle")
    BY <2>1 DEF OriginInv, LinkedMeansFetch
  <2> QED
    BY <2>1, <2>2, OtherStepsKeepOrigins DEF Emitted
<1>5. ASSUME NEW c \in Connect, ReceiveConnect(c) \/ ConnectSteps(c) PROVE OriginInv'
  BY <1>1, <1>2, <1>5, ConnectStepsKeepOrigins, ReadOriginKeepsOrigins DEF ConnectSteps
<1>6. ASSUME NEW f \in Fetcher, (f \in Fetch /\ ReceiveFetch(f)) \/ FetchSteps(f) PROVE OriginInv'
  BY <1>6, FetchersKeepOrigins
<1>7. ASSUME NEW w \in Worker, WorkerSteps(w) PROVE OriginInv'
  BY <1>7, WorkersKeepOrigins, WriteOriginKeepsOrigins DEF WorkerSteps
<1>8. ASSUME NEW c \in Connect, OrphanInit(c) PROVE OriginInv'
  <2>1. /\ UNCHANGED <<pc, repo, url, creators, seen, outcome, emitted, clone, origin>>
        /\ \A r \in Repo : bare[r] => bare'[r]
    BY <1>8 DEF OrphanInit, server, TypeOK, DiskTypeOK
  <2>2. \A d \in Connect : outcome[d] = "ok" =>
          pc'[d] \in MayHaveJob \/ (pc'[d] = "ok" /\ pc'[AutoFetch(d)] # "idle")
    BY <2>1 DEF OriginInv, LinkedMeansFetch
  <2> QED
    BY <2>1, <2>2, OtherStepsKeepOrigins DEF Emitted
<1> QED
  BY <1>3, <1>4, <1>5, <1>6, <1>7, <1>8, RequestKinds DEF Next, Terminated

LEMMA LinksCorrect == Spec => [](TypeOK /\ CreationInv /\ JobInv /\ OriginInv)
PROOF
<1>1. Init => TypeOK /\ CreationInv /\ JobInv /\ OriginInv
  BY TypesHoldFirst, CreationHoldsFirst, JobsHoldFirst, OriginsHoldFirst
<1>2. TypeOK /\ CreationInv /\ JobInv /\ OriginInv /\ [Next]_vars =>
        (TypeOK /\ CreationInv /\ JobInv /\ OriginInv)'
  BY TypesAreKept, CreationIsKept, JobsAreKept, OriginsAreKept
<1> QED
  BY <1>1, <1>2, PTL DEF Spec

\* A request that is told its URL was connected already can rely on the fetch of a request
\* whose URL reads so, be it the same or one with a "=": that fetch was started, or will
\* be, unless the server died first.
THEOREM ReconnectedReliesOnAFetch == Spec => []ReconnectedMeansFetchStarted
PROOF
<1>1. TypeOK /\ OriginInv => ReconnectedMeansFetchStarted
  <2> SUFFICES ASSUME TypeOK, OriginInv, NEW c \in Connect, Emitted("repo.reconnected", c)
               PROVE  \E d \in Connect :
                        /\ repo[d] = repo[c] /\ ReadBack(url[d]) = url[c] /\ outcome[d] = "ok"
                        /\ pc[AutoFetch(d)] # "idle" \/ pc[d] \in {"waiting", "cutOff"}
    BY DEF ReconnectedMeansFetchStarted
  <2>1. seen[c] = url[c] /\ seen[c] # NoUrl
    BY CutUrls DEF OriginInv, ReconnectedHasSeen, TypeOK, ServerTypeOK
  <2>2. IsShown(repo[c], url[c])
    BY <2>1 DEF OriginInv, SeenIsShown
  <2> QED
    BY <2>2 DEF IsShown, OriginInv, LinkedMeansFetch, MayHaveJob
<1> QED
  BY <1>1, LinksCorrect, PTL

\* A clone without a remote is being created, or is what a failed git init, a failed
\* removal or the death of the server has left.
THEOREM UnusableClonesAreLeftBehind == Spec => []UnusableClonesAreLeftovers
PROOF
<1>1. TypeOK /\ CreationInv /\ JobInv /\ OriginInv => UnusableClonesAreLeftovers
  <2> SUFFICES ASSUME TypeOK, CreationInv, JobInv, OriginInv,
                      NEW r \in Repo, Exists(r), ~bare[r] \/ origin[r] = NoUrl,
                      NEW c, c = clone[r]
               PROVE  \/ Creating(c)
                      \/ pc[c] = "cutOff"
                      \/ pc[c] = "failed" /\ reason[c] \in {"initFailed", "removeFailed"}
    BY DEF UnusableClonesAreLeftovers
  <2>1. c \in Connect /\ repo[c] = r
    BY DEF Exists, CreationInv, MadeByItsCreator, TypeOK, DiskTypeOK
  <2>2. CASE c \notin creators
    BY <2>2 DEF CreationInv, MadeByItsCreator, Creating
  <2>3. CASE c \in creators /\ pc[c] = "failed"
    BY <2>1, <2>3 DEF CreationInv, FailedCreationCleansUp
  <2>4. ~(c \in creators /\ pc[c] = "ok")
    <3> SUFFICES ASSUME c \in creators, pc[c] = "ok" PROVE FALSE
      OBVIOUS
    <3>1. seen[c] # NoUrl \/ outcome[c] = "ok"
      BY <2>1, CutUrls DEF JobInv, SeenIsRead, SeenOK, TookEffect, TypeOK, ServerTypeOK
    <3> QED
      BY <2>1, <3>1 DEF OriginInv, CreatedStaysLinked
  <2>5. CASE c \in creators /\ pc[c] # "failed" /\ pc[c] # "ok"
    BY <2>1, <2>5 DEF CreationInv, CreatorsAreInside, Creating, Over, Settled
  <2> QED
    BY <2>2, <2>3, <2>4, <2>5
<1> QED
  BY <1>1, LinksCorrect, PTL

----------------------------------------------------------------------------
(***************************************************************************)
(* The promise                                                             *)
(***************************************************************************)

\* The phase of a request depends on its step, and on what has taken effect.
LEMMA PhaseStays ==
  ASSUME NEW d \in Connect, UNCHANGED <<url, seen>>, outcome'[d] = "ok" <=> outcome[d] = "ok",
         pc'[d] = pc[d] \/ {pc[d], pc'[d]} \cap (Settled \cup {"idle"}) = {}
  PROVE  Phase(d)' = Phase(d)
PROOF BY DEF Phase, TookEffect, Settled

LEMMA PhasesStay ==
  ASSUME \A d \in Connect : Phase(d)' = Phase(d), UNCHANGED <<repo, url, origin>>
  PROVE  UNCHANGED Promise!vars
PROOF BY DEF Promise!vars

LEMMA PhaseMoves ==
  ASSUME NEW c \in Connect, NEW from, NEW to, Phase(c) = from, Phase(c)' = to,
         \A d \in Connect : d # c => Phase(d)' = Phase(d), UNCHANGED <<repo, url>>
  PROVE  Promise!Move(c, from, to)
PROOF
<1> DEFINE phase == [d \in Connect |-> Phase(d)]
<1>1. phase[c] = from
  OBVIOUS
<1>2. phase' = [phase EXCEPT ![c] = to]
  OBVIOUS
<1>3. UNCHANGED [d \in Connect |-> [repo |-> repo[d], url |-> url[d]]]
  OBVIOUS
<1> QED
  BY <1>1, <1>2, <1>3 DEF Promise!Move

\* A connect request goes on, or settles, and touches no origin.
LEMMA PhaseOfOne ==
  ASSUME TypeOK, NEW c \in Connect, NEW next, pc' = [pc EXCEPT ![c] = next],
         UNCHANGED <<repo, url, seen, outcome, origin>>
  PROVE  /\ pc'[c] = next
         /\ \A d \in Connect : d # c => Phase(d)' = Phase(d)
PROOF
<1>1. \A d \in Connect : d # c => pc'[d] = pc[d]
  BY RequestKinds DEF TypeOK, ServerTypeOK
<1> QED
  BY <1>1, PhaseStays, RequestKinds DEF TypeOK, ServerTypeOK

LEMMA GiveUpIsRefusal ==
  ASSUME TypeOK, NEW c \in Connect, NEW why, GiveUp(c, why), Phase(c) = "pending",
         UNCHANGED <<repo, url, seen, outcome>>
  PROVE  Promise!Refuse(c) \/ Promise!Undo(c)
PROOF
<1>1. pc' = [pc EXCEPT ![c] = "failed"]
  BY DEF GiveUp, Fail
<1>2. /\ pc'[c] = "failed" /\ repo[c] \in Repo
      /\ \A d \in Connect : d # c => pc'[d] = pc[d]
  BY <1>1, RequestKinds DEF TypeOK, ServerTypeOK
<1>3. Promise!Move(c, "pending", "refused")
  <2>1. Phase(c)' = "refused"
    BY <1>2 DEF Phase
  <2>2. \A d \in Connect : d # c => Phase(d)' = Phase(d)
    BY <1>2, PhaseStays
  <2> QED
    BY <2>1, <2>2, PhaseMoves
<1>4. UNCHANGED origin \/ origin' = [origin EXCEPT ![repo[c]] = NoUrl]
  BY DEF GiveUp, RemoveClone, FailRemove, disk
<1>5. UNCHANGED origin => Promise!Refuse(c)
  BY <1>3 DEF Promise!Refuse
<1>6. origin' = [origin EXCEPT ![repo[c]] = NoUrl] => Promise!Undo(c)
  BY <1>3 DEF Promise!Undo
<1> QED
  BY <1>4, <1>5, <1>6

LEMMA StepsKeepThePromise ==
  TypeOK /\ JobInv /\ [Next]_vars => [Promise!Next]_(Promise!vars)
PROOF
<1> SUFFICES ASSUME TypeOK, JobInv, [Next]_vars PROVE Promise!Next \/ UNCHANGED Promise!vars
  OBVIOUS
<1> USE DEF server, disk, workers
<1>1. ASSUME NEW c \in Connect,
             \/ ReceiveConnect(c) \/ FindRepo(c) \/ OpenClone(c) \/ CreateRepo(c)
             \/ MakeDirectory(c) \/ InitBare(c) \/ Configure(c) \/ FailInit(c)
             \/ RequestOrigin(c)
      PROVE  Promise!Next \/ UNCHANGED Promise!vars
  <2>1. PICK next : /\ pc' = [pc EXCEPT ![c] = next]
                    /\ next = "failed" => pc[c] # "idle"
                    /\ next \notin {"idle", "ok"}
    <3> DEFINE Moves == \E next : /\ pc' = [pc EXCEPT ![c] = next]
                                  /\ next = "failed" => pc[c] # "idle"
                                  /\ next \notin {"idle", "ok"}
    <3>1. ReceiveConnect(c) => Moves
      <4>1. ReceiveConnect(c) => pc' = [pc EXCEPT ![c] = "finding"] \/ pc' = [pc EXCEPT ![c] = "creating"]
        BY DEF ReceiveConnect, Goto
      <4> QED
        BY <4>1
    <3>2. FindRepo(c) \/ OpenClone(c) => Moves
      BY DEF FindRepo, OpenClone, Goto, Fail
    <3>3. CreateRepo(c) \/ MakeDirectory(c) => Moves
      BY DEF CreateRepo, MakeDirectory, Goto, Fail
    <3>4. InitBare(c) \/ Configure(c) \/ RequestOrigin(c) => Moves
      BY DEF InitBare, Configure, RequestOrigin, Goto
    <3>5. FailInit(c) => Moves
      BY DEF FailInit, Fail
    <3> QED
      BY <1>1, <3>1, <3>2, <3>3, <3>4, <3>5
  <2>2. UNCHANGED <<repo, url, seen, outcome, origin>>
    BY <1>1 DEF ReceiveConnect, FindRepo, OpenClone, CreateRepo, MakeDirectory, InitBare,
                Configure, FailInit, RequestOrigin
  <2>3. pc[c] = "deciding" => seen[c] # url[c]
    BY <1>1 DEF ReceiveConnect, FindRepo, OpenClone, CreateRepo, MakeDirectory, InitBare,
                Configure, FailInit, RequestOrigin
  <2>4. pc[c] \notin {"waiting"} \cup Over
    BY <1>1 DEF ReceiveConnect, FindRepo, OpenClone, CreateRepo, MakeDirectory, InitBare,
                Configure, FailInit, RequestOrigin, Over, Settled
  <2>5. ~TookEffect(c)
    BY <2>3, <2>4, CutUrls, RequestKinds
      DEF TookEffect, JobInv, OutcomesAreAsked, SeenIsRead, SeenOK, TypeOK, ServerTypeOK
  <2>6. pc'[c] = next /\ \A d \in Connect : d # c => Phase(d)' = Phase(d)
    BY <2>1, <2>2, PhaseOfOne
  <2>7. Phase(c) = IF pc[c] = "idle" THEN "idle" ELSE "pending"
    BY <2>4, <2>5 DEF Phase, Over, Settled
  <2>8. Phase(c)' = IF next = "failed" THEN "refused" ELSE "pending"
    BY <2>1, <2>2, <2>5, <2>6 DEF Phase, TookEffect
  <2>9. CASE next = "failed"
    BY <2>1, <2>2, <2>6, <2>7, <2>8, <2>9, PhaseMoves DEF Promise!Refuse, Promise!Next
  <2>10. CASE next # "failed" /\ pc[c] = "idle"
    BY <2>2, <2>6, <2>7, <2>8, <2>10, PhaseMoves DEF Promise!Receive, Promise!Next
  <2>11. CASE next # "failed" /\ pc[c] # "idle"
    BY <2>2, <2>6, <2>7, <2>8, <2>11, PhasesStay
  <2> QED
    BY <2>9, <2>10, <2>11
<1>2. ASSUME NEW c \in Connect, ReadOrigin(c) PROVE Promise!Next \/ UNCHANGED Promise!vars
  <2>1. pc[c] = "reading" /\ UNCHANGED <<repo, url, outcome>>
    BY <1>2 DEF ReadOrigin
  <2>2. seen[c] = NoUrl /\ outcome[c] = "none" /\ url[c] # NoUrl /\ ~TookEffect(c)
    BY <2>1, CutUrls, RequestKinds
      DEF JobInv, OutcomesAreAsked, SeenIsRead, SeenOK, Over, Settled, TypeOK, ServerTypeOK,
          TookEffect
  <2>3. Phase(c) = "pending"
    BY <2>1, <2>2 DEF Phase
  <2>4. CASE GiveUp(c, "gitError") /\ UNCHANGED seen
    BY <2>1, <2>3, <2>4, GiveUpIsRefusal DEF Promise!Next
  <2>5. CASE /\ pc' = [pc EXCEPT ![c] = "deciding"]
             /\ seen' = [seen EXCEPT ![c] = ReadBack(origin[repo[c]])]
             /\ UNCHANGED origin
    <3>1. \A d \in Connect : d # c => Phase(d)' = Phase(d)
      <4>1. \A d \in Connect : d # c => seen'[d] = seen[d] /\ pc'[d] = pc[d]
        BY <2>5, RequestKinds DEF TypeOK, ServerTypeOK
      <4> QED
        BY <2>1, <4>1 DEF Phase, TookEffect
    <3>2. pc'[c] = "deciding" /\ seen'[c] = ReadBack(origin[repo[c]])
      BY <2>5, RequestKinds DEF TypeOK, ServerTypeOK
    <3>3. CASE ReadBack(origin[repo[c]]) = url[c]
      <4>1. Phase(c)' = "linked"
        BY <2>1, <3>2, <3>3 DEF Phase, TookEffect
      <4>2. Promise!Move(c, "pending", "linked")
        BY <2>1, <2>3, <3>1, <4>1, PhaseMoves
      <4>3. Promise!ReadBack(origin[repo[c]]) = url[c]
        BY <3>3 DEF ReadBack, Promise!ReadBack, CutUrl, Promise!CutUrl
      <4> QED
        BY <2>5, <4>2, <4>3 DEF Promise!Keep, Promise!Next
    <3>4. CASE ReadBack(origin[repo[c]]) # url[c]
      <4>1. Phase(c)' = "pending"
        BY <2>1, <2>2, <3>2, <3>4 DEF Phase, TookEffect
      <4> QED
        BY <2>1, <2>3, <2>5, <3>1, <4>1, PhasesStay
    <3> QED
      BY <3>3, <3>4
  <2> QED
    BY <1>2, <2>4, <2>5, ReadOriginCases
<1>3. ASSUME NEW c \in Connect, Reconnect(c) PROVE Promise!Next
  <2>1. /\ pc[c] = "deciding" /\ pc' = [pc EXCEPT ![c] = "ok"] /\ TookEffect(c)
        /\ UNCHANGED <<repo, url, seen, outcome, origin>>
    BY <1>3 DEF Reconnect, Goto, TookEffect
  <2>2. pc'[c] = "ok" /\ \A d \in Connect : d # c => Phase(d)' = Phase(d)
    BY <2>1, PhaseOfOne
  <2>3. Phase(c) = "linked" /\ Phase(c)' = "ok"
    BY <2>1, <2>2 DEF Phase
  <2> QED
    BY <2>1, <2>2, <2>3, PhaseMoves DEF Promise!Confirm, Promise!Next
<1>4. ASSUME NEW c \in Connect, Connected(c) PROVE Promise!Next
  <2>1. /\ pc[c] = "waiting" /\ TookEffect(c)
        /\ pc' = [pc EXCEPT ![c] = "ok", ![AutoFetch(c)] = FetchStart(AutoFetch(c)).step]
        /\ UNCHANGED <<repo, url, seen, outcome, origin>>
    BY <1>4 DEF Connected, TookEffect
  <2>2. pc'[c] = "ok" /\ \A d \in Connect : d # c => pc'[d] = pc[d]
    BY <2>1, AutoFetchNames, RequestKinds DEF TypeOK, ServerTypeOK
  <2>3. \A d \in Connect : d # c => Phase(d)' = Phase(d)
    BY <2>1, <2>2, PhaseStays
  <2>4. Phase(c) = "linked" /\ Phase(c)' = "ok"
    BY <2>1, <2>2 DEF Phase
  <2> QED
    BY <2>1, <2>3, <2>4, PhaseMoves DEF Promise!Confirm, Promise!Next
<1>5. ASSUME NEW c \in Connect, NotConnected(c) PROVE Promise!Next
  <2>1. pc[c] = "waiting" /\ outcome[c] # "ok" /\ UNCHANGED <<repo, url, seen, outcome>>
    BY <1>5 DEF NotConnected, Failure
  <2>2. Phase(c) = "pending"
    BY <2>1 DEF Phase, TookEffect, JobInv, SeenIsRead, SeenOK
  <2> QED
    BY <1>5, <2>1, <2>2, GiveUpIsRefusal DEF NotConnected, Promise!Next
<1>6. ASSUME NEW f \in Fetcher, ReceiveFetch(f) \/ FetchSteps(f) PROVE UNCHANGED Promise!vars
  <2>1. UNCHANGED <<repo, url, seen, outcome, origin>>
    BY <1>6 DEF ReceiveFetch, FetchSteps, RequestFetch, Fetched, FetchFailed
  <2>2. \E next : pc' = [pc EXCEPT ![f] = next]
    BY <1>6 DEF ReceiveFetch, FetchSteps, RequestFetch, Fetched, FetchFailed, Goto, Fail
  <2>3. \A d \in Connect : pc'[d] = pc[d]
    BY <2>2, RequestKinds DEF TypeOK, ServerTypeOK
  <2> QED
    BY <2>1, <2>3, PhaseStays, PhasesStay
<1>7. ASSUME NEW w \in Worker, WriteOrigin(w) PROVE Promise!Next
  <2>1. PICK q \in Connect : /\ q = job[w].caller /\ job[w] \in Job /\ job[w] # NoJob
                             /\ job[w] \in SetOriginJob
    BY <1>7, CallersAreRequests DEF WriteOrigin, TypeOK, WorkerTypeOK, ConnectStage, Job
  <2>2. /\ pc[q] \in MayHaveJob /\ outcome[q] = "none" /\ seen[q] # url[q]
        /\ job[w].repo = repo[q] /\ job[w].url = url[q]
    BY <2>1 DEF JobInv, JobsAreOK, JobOK
  <2>3. /\ outcome' = [outcome EXCEPT ![q] = "ok"]
        /\ origin' = [origin EXCEPT ![repo[q]] = url[q]]
        /\ UNCHANGED <<pc, repo, url, seen>>
    BY <1>7, <2>1, <2>2 DEF WriteOrigin, Finish
  <2>4. outcome'[q] = "ok" /\ \A d \in Connect : d # q => outcome'[d] = outcome[d]
    BY <2>3, RequestKinds DEF TypeOK, ServerTypeOK
  <2>5. Phase(q) = "pending" /\ Phase(q)' = "linked"
    BY <2>2, <2>3, <2>4 DEF Phase, TookEffect, MayHaveJob
  <2>6. \A d \in Connect : d # q => Phase(d)' = Phase(d)
    BY <2>3, <2>4, PhaseStays
  <2>7. Promise!Move(q, "pending", "linked")
    BY <2>3, <2>5, <2>6, PhaseMoves
  <2> QED
    BY <2>3, <2>7 DEF Promise!Link, Promise!Next
<1>8. ASSUME NEW w \in Worker,
             \/ TakeJob(w) \/ OpenForJob(w) \/ ValidateRemote(w) \/ ListRemotes(w)
             \/ FailSetOrigin(w) \/ EndFetch(w)
      PROVE  UNCHANGED Promise!vars
  <2>1. UNCHANGED <<pc, repo, url, seen, origin>>
    BY <1>8 DEF TakeJob, OpenForJob, ValidateRemote, ListRemotes, FailSetOrigin, EndFetch
  <2>2. \A d \in Connect : outcome'[d] = "ok" <=> outcome[d] = "ok"
    BY <1>8, WorkersEndNoOrigin
  <2> QED
    BY <2>1, <2>2, PhaseStays, PhasesStay
<1>9. ASSUME ServerDies PROVE UNCHANGED Promise!vars
  <2>1. /\ \A q \in Request : pc'[q] = IF pc[q] \in Settled \cup {"idle"} THEN pc[q] ELSE "cutOff"
        /\ UNCHANGED <<repo, url, seen, outcome, origin>>
    BY <1>9 DEF ServerDies
  <2>2. \A d \in Connect : pc'[d] = pc[d] \/ {pc[d], pc'[d]} \cap (Settled \cup {"idle"}) = {}
    BY <2>1, RequestKinds DEF Settled
  <2> QED
    BY <2>1, <2>2, PhaseStays, PhasesStay
<1>10. ASSUME UNCHANGED vars \/ \E c \in Connect : OrphanInit(c)
       PROVE  UNCHANGED Promise!vars
  <2>1. UNCHANGED <<pc, repo, url, seen, outcome, origin>>
    BY <1>10 DEF OrphanInit, vars
  <2> QED
    BY <2>1, PhaseStays, PhasesStay
<1> QED
  BY <1>1, <1>2, <1>3, <1>4, <1>5, <1>6, <1>7, <1>8, <1>9, <1>10, RequestKinds
  DEF Next, ConnectSteps, WorkerSteps, Terminated

\* Connecting keeps the promise of Links for any number of repos, requests and workers,
\* and whatever comes before the "=" of a URL: the remote of a repo changes in one step, by
\* a request that is still unanswered; one that is told it has reconnected has read its own
\* URL; and one that fails has changed nothing but a repo of its own.
THEOREM ConnectingImplementsLinks == Spec => ConnectingKeepsItsPromise
PROOF
<1>1. Init => Promise!Init
  <2> SUFFICES ASSUME Init PROVE Promise!Init
    OBVIOUS
  <2>1. \A c \in Connect : repo[c] \in Repo /\ url[c] \in Url /\ pc[c] = "idle"
    BY RequestKinds DEF Init
  <2>2. [c \in Connect |-> Phase(c)] = [c \in Connect |-> "idle"]
    BY <2>1 DEF Phase
  <2> QED
    BY <2>1, <2>2 DEF Init, Promise!Init
<1>2. TypeOK /\ JobInv /\ [Next]_vars => [Promise!Next]_(Promise!vars)
  BY StepsKeepThePromise
<1> QED
  BY <1>1, <1>2, LinksCorrect, PTL DEF Spec, ConnectingKeepsItsPromise, Promise!Spec
============================================================================
