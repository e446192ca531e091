------------------------- MODULE ConnectionsProofs -------------------------
(***************************************************************************)
(* What holds of Connections for any number of repos, requests and workers *)
(***************************************************************************)
EXTENDS Connections, TLAPS

\* A request is a connect request or a fetch, never both.
LEMMA RequestKinds ==
  /\ Connect \subseteq Request
  /\ Fetch \subseteq Fetcher
  /\ Fetcher \subseteq Request
  /\ \A c \in Connect : AutoFetch(c) \in Fetcher
  /\ \A f \in Fetcher : f \notin Connect
PROOF
<1>1. Connect \subseteq Request /\ Fetcher \subseteq Request
  BY DEF Request
<1>2. Fetch \subseteq Fetcher /\ AutoFetches \subseteq Fetcher
  BY DEF Fetcher
<1>3. \A c \in Connect : AutoFetch(c) \in AutoFetches
  BY DEF AutoFetches, AutoFetch
<1>4. \A f \in Fetcher : f \notin Connect
  BY RequestsAreDistinct
<1> QED
  BY <1>1, <1>2, <1>3, <1>4

\* What is read back of an origin, and of no origin.
LEMMA ReadBackOfUrls ==
  /\ \A u \in Url \cup {NoUrl} : ReadBack(u) \in Shown
  /\ ReadBack(NoUrl) = NoUrl
  /\ NoUrl \in Shown
PROOF
<1>1. \A u \in Url \cup {NoUrl} : ReadBack(u) \in Shown
  BY DEF Shown
<1>2. ReadBack(NoUrl) = NoUrl
  BY CutUrls DEF ReadBack
<1> QED
  BY <1>1, <1>2

\* A request that asks for the origin has an answer or gives up.
LEMMA ReadOriginCases ==
  ASSUME NEW c \in Connect, ReadOrigin(c)
  PROVE  \/ /\ pc[c] = "reading" /\ pc' = [pc EXCEPT ![c] = "deciding"]
            /\ IsRepo(repo[c])
            /\ seen' = [seen EXCEPT ![c] = ReadBack(origin[repo[c]])]
            /\ UNCHANGED <<repo, url, creators, outcome, reason, emitted, deaths>>
            /\ UNCHANGED <<clone, bare, origin, queue, workers>>
         \/ /\ pc[c] = "reading" /\ GiveUp(c, "gitError")
            /\ UNCHANGED <<repo, url, creators, seen, emitted, deaths, outcome, queue, workers>>
BY DEF ReadOrigin, Goto, disk

----------------------------------------------------------------------------
(***************************************************************************)
(* Types                                                                   *)
(***************************************************************************)

\* A connect request that gives up may change the disk and its own entry only.
LEMMA GiveUpTypes ==
  ASSUME TypeOK, NEW c \in Connect, NEW why \in Reason, GiveUp(c, why),
         UNCHANGED <<repo, url, creators, seen, emitted, deaths, outcome, queue, workers>>
  PROVE TypeOK'
PROOF
<1>1. PICK w \in Reason : Fail(c, w)
  BY DEF GiveUp, Reason
<1>2. ServerTypeOK'
  BY <1>1, RequestKinds DEF Fail, TypeOK, ServerTypeOK, Settled, Over
<1>3. DiskTypeOK'
  BY DEF GiveUp, RemoveClone, FailRemove, TypeOK, DiskTypeOK, disk
<1>4. WorkerTypeOK' /\ queue' \in Seq(Job)
  BY DEF TypeOK, WorkerTypeOK, workers
<1> QED
  BY <1>2, <1>3, <1>4 DEF TypeOK

\* A worker that ends its job tells its caller a result, and is idle.
LEMMA FinishTypes ==
  ASSUME TypeOK, NEW w \in Worker, NEW result \in Outcome, Finish(w, result),
         UNCHANGED <<server, queue, listed>>, DiskTypeOK'
  PROVE TypeOK'
PROOF
<1>1. ServerTypeOK'
  BY DEF Finish, TypeOK, ServerTypeOK, server
<1>2. WorkerTypeOK'
  BY DEF Finish, TypeOK, WorkerTypeOK, ConnectStage
<1> QED
  BY <1>1, <1>2 DEF TypeOK

\* A worker that goes from one step of handleConnect to another keeps its job.
LEMMA NextStageTypes ==
  ASSUME TypeOK, NEW w \in Worker, stage[w] \in ConnectStage,
         NEW next \in ConnectStage, stage' = [stage EXCEPT ![w] = next],
         listed' \in [Worker -> BOOLEAN],
         UNCHANGED <<server, outcome, disk, queue, job>>
  PROVE TypeOK'
PROOF
<1>1. WorkerTypeOK'
  BY DEF TypeOK, WorkerTypeOK, ConnectStage
<1>2. ServerTypeOK' /\ DiskTypeOK' /\ queue' \in Seq(Job)
  BY DEF TypeOK, ServerTypeOK, DiskTypeOK, server, disk
<1> QED
  BY <1>1, <1>2 DEF TypeOK

LEMMA TypesHoldFirst == Init => TypeOK
PROOF BY RequestKinds, ReadBackOfUrls, MaxDeathsIsANumber
  DEF Init, TypeOK, ServerTypeOK, DiskTypeOK, WorkerTypeOK, Outcome, Reason, Event,
      ConnectStage

LEMMA TypesAreKept == TypeOK /\ [Next]_vars => TypeOK'
PROOF
<1> SUFFICES ASSUME TypeOK, [Next]_vars PROVE TypeOK'
  OBVIOUS
<1>1. ASSUME NEW c \in Connect, ReceiveConnect(c) PROVE TypeOK'
  <2>1. ServerTypeOK'
    BY <1>1, RequestKinds
      DEF TypeOK, ServerTypeOK, ConnectStep, InTransaction, FetchStep, Settled, Over,
          ReceiveConnect, Goto
  <2>2. DiskTypeOK'
    BY <1>1 DEF TypeOK, DiskTypeOK, ReceiveConnect, disk
  <2>3. queue' \in Seq(Job)
    BY <1>1 DEF TypeOK, ReceiveConnect
  <2>4. WorkerTypeOK'
    BY <1>1 DEF TypeOK, WorkerTypeOK, workers, ReceiveConnect
  <2> QED
    BY <2>1, <2>2, <2>3, <2>4 DEF TypeOK
<1>2. ASSUME NEW c \in Connect, FindRepo(c) PROVE TypeOK'
  <2>1. ServerTypeOK'
    BY <1>2, RequestKinds
      DEF TypeOK, ServerTypeOK, ConnectStep, InTransaction, FetchStep, Settled, Over, FindRepo,
          Goto, Fail, Reason
  <2>2. DiskTypeOK'
    BY <1>2 DEF TypeOK, DiskTypeOK, FindRepo, disk
  <2>3. queue' \in Seq(Job)
    BY <1>2 DEF TypeOK, FindRepo
  <2>4. WorkerTypeOK'
    BY <1>2 DEF TypeOK, WorkerTypeOK, workers, FindRepo
  <2> QED
    BY <2>1, <2>2, <2>3, <2>4 DEF TypeOK
<1>3. ASSUME NEW c \in Connect, OpenClone(c) PROVE TypeOK'
  <2>1. ServerTypeOK'
    BY <1>3, RequestKinds
      DEF TypeOK, ServerTypeOK, ConnectStep, InTransaction, FetchStep, Settled, Over,
          OpenClone, Goto, Fail, Reason
  <2>2. DiskTypeOK'
    BY <1>3 DEF TypeOK, DiskTypeOK, OpenClone, disk
  <2>3. queue' \in Seq(Job)
    BY <1>3 DEF TypeOK, OpenClone
  <2>4. WorkerTypeOK'
    BY <1>3 DEF TypeOK, WorkerTypeOK, workers, OpenClone
  <2> QED
    BY <2>1, <2>2, <2>3, <2>4 DEF TypeOK
<1>4. ASSUME NEW c \in Connect, CreateRepo(c) PROVE TypeOK'
  <2>1. ServerTypeOK'
    BY <1>4, RequestKinds
      DEF TypeOK, ServerTypeOK, ConnectStep, InTransaction, FetchStep, Settled, Over,
          CreateRepo, Goto, Fail, Reason
  <2>2. DiskTypeOK'
    BY <1>4 DEF TypeOK, DiskTypeOK, CreateRepo, disk
  <2>3. queue' \in Seq(Job)
    BY <1>4 DEF TypeOK, CreateRepo
  <2>4. WorkerTypeOK'
    BY <1>4 DEF TypeOK, WorkerTypeOK, workers, CreateRepo
  <2> QED
    BY <2>1, <2>2, <2>3, <2>4 DEF TypeOK
<1>5. ASSUME NEW c \in Connect, MakeDirectory(c) PROVE TypeOK'
  <2>1. ServerTypeOK'
    BY <1>5, RequestKinds
      DEF TypeOK, ServerTypeOK, ConnectStep, InTransaction, FetchStep, Settled, Over,
          MakeDirectory, Goto, Fail, Reason
  <2>2. DiskTypeOK'
    BY <1>5 DEF TypeOK, DiskTypeOK, MakeDirectory, disk
  <2>3. queue' \in Seq(Job)
    BY <1>5 DEF TypeOK, MakeDirectory
  <2>4. WorkerTypeOK'
    BY <1>5 DEF TypeOK, WorkerTypeOK, workers, MakeDirectory
  <2> QED
    BY <2>1, <2>2, <2>3, <2>4 DEF TypeOK
<1>6. ASSUME NEW c \in Connect, InitBare(c) PROVE TypeOK'
  <2>1. ServerTypeOK'
    BY <1>6, RequestKinds
      DEF TypeOK, ServerTypeOK, ConnectStep, InTransaction, FetchStep, Settled, Over, InitBare,
          Goto
  <2>2. DiskTypeOK'
    BY <1>6 DEF TypeOK, DiskTypeOK, InitBare, disk
  <2>3. queue' \in Seq(Job)
    BY <1>6 DEF TypeOK, InitBare
  <2>4. WorkerTypeOK'
    BY <1>6 DEF TypeOK, WorkerTypeOK, workers, InitBare
  <2> QED
    BY <2>1, <2>2, <2>3, <2>4 DEF TypeOK
<1>7. ASSUME NEW c \in Connect, Configure(c) PROVE TypeOK'
  <2>1. ServerTypeOK'
    BY <1>7, RequestKinds
      DEF TypeOK, ServerTypeOK, ConnectStep, InTransaction, FetchStep, Settled, Over,
          Configure, Goto
  <2>2. DiskTypeOK'
    BY <1>7 DEF TypeOK, DiskTypeOK, Configure, disk
  <2>3. queue' \in Seq(Job)
    BY <1>7 DEF TypeOK, Configure
  <2>4. WorkerTypeOK'
    BY <1>7 DEF TypeOK, WorkerTypeOK, workers, Configure
  <2> QED
    BY <2>1, <2>2, <2>3, <2>4 DEF TypeOK
<1>8. ASSUME NEW c \in Connect, FailInit(c) PROVE TypeOK'
  <2>1. ServerTypeOK'
    BY <1>8, RequestKinds
      DEF TypeOK, ServerTypeOK, ConnectStep, InTransaction, FetchStep, Settled, Over, FailInit,
          Goto, Fail, Reason
  <2>2. DiskTypeOK'
    BY <1>8 DEF TypeOK, DiskTypeOK, FailInit, disk
  <2>3. queue' \in Seq(Job)
    BY <1>8 DEF TypeOK, FailInit
  <2>4. WorkerTypeOK'
    BY <1>8 DEF TypeOK, WorkerTypeOK, workers, FailInit
  <2> QED
    BY <2>1, <2>2, <2>3, <2>4 DEF TypeOK
<1>9. ASSUME NEW c \in Connect, ReadOrigin(c) PROVE TypeOK'
  <2>1. CASE /\ pc[c] = "reading" /\ pc' = [pc EXCEPT ![c] = "deciding"]
             /\ IsRepo(repo[c])
             /\ seen' = [seen EXCEPT ![c] = ReadBack(origin[repo[c]])]
             /\ UNCHANGED <<repo, url, creators, outcome, reason, emitted, deaths>>
             /\ UNCHANGED <<clone, bare, origin, queue, workers>>
    <3>1. ReadBack(origin[repo[c]]) \in Shown
      BY RequestKinds, ReadBackOfUrls DEF TypeOK, ServerTypeOK, DiskTypeOK
    <3>2. pc' \in [Request -> {"idle"} \cup ConnectStep \cup FetchStep \cup Over]
      BY <2>1 DEF TypeOK, ServerTypeOK, ConnectStep, InTransaction
    <3>3. seen' \in [Connect -> Shown]
      BY <2>1, <3>1 DEF TypeOK, ServerTypeOK
    <3>4. ServerTypeOK'
      BY <2>1, <3>2, <3>3 DEF TypeOK, ServerTypeOK
    <3> QED
      BY <2>1, <3>4 DEF TypeOK, DiskTypeOK, WorkerTypeOK, workers
  <2>2. CASE /\ pc[c] = "reading" /\ GiveUp(c, "gitError")
             /\ UNCHANGED <<repo, url, creators, seen, emitted, deaths, outcome, queue, workers>>
    BY <2>2, GiveUpTypes DEF Reason
  <2> QED
    BY <1>9, <2>1, <2>2, ReadOriginCases
<1>10. ASSUME NEW c \in Connect, Reconnect(c) PROVE TypeOK'
  <2>1. ServerTypeOK'
    BY <1>10, RequestKinds
      DEF TypeOK, ServerTypeOK, ConnectStep, InTransaction, FetchStep, Settled, Over,
          Reconnect, Goto, Emit, Event, EventName
  <2>2. DiskTypeOK'
    BY <1>10 DEF TypeOK, DiskTypeOK, Reconnect, disk
  <2>3. queue' \in Seq(Job)
    BY <1>10 DEF TypeOK, Reconnect
  <2>4. WorkerTypeOK'
    BY <1>10 DEF TypeOK, WorkerTypeOK, workers, Reconnect
  <2> QED
    BY <2>1, <2>2, <2>3, <2>4 DEF TypeOK
<1>11. ASSUME NEW c \in Connect, RequestOrigin(c) PROVE TypeOK'
  <2>1. ServerTypeOK'
    BY <1>11, RequestKinds
      DEF TypeOK, ServerTypeOK, ConnectStep, InTransaction, FetchStep, Settled, Over,
          RequestOrigin, Goto
  <2>2. DiskTypeOK'
    BY <1>11 DEF TypeOK, DiskTypeOK, RequestOrigin, disk
  <2>3. queue' \in Seq(Job)
    BY <1>11, RequestKinds DEF TypeOK, ServerTypeOK, RequestOrigin, Job, SetOriginJob
  <2>4. WorkerTypeOK'
    BY <1>11 DEF TypeOK, WorkerTypeOK, workers, RequestOrigin
  <2> QED
    BY <2>1, <2>2, <2>3, <2>4 DEF TypeOK
<1>12. ASSUME NEW c \in Connect, Connected(c) PROVE TypeOK'
  <2>1. ServerTypeOK'
    BY <1>12, RequestKinds
      DEF TypeOK, ServerTypeOK, ConnectStep, InTransaction, FetchStep, Settled, Over,
          Connected, FetchStart, Reason, Emit, Event, EventName
  <2>2. DiskTypeOK'
    BY <1>12 DEF TypeOK, DiskTypeOK, Connected, disk
  <2>3. queue' \in Seq(Job)
    BY <1>12 DEF TypeOK, Connected
  <2>4. WorkerTypeOK'
    BY <1>12 DEF TypeOK, WorkerTypeOK, workers, Connected
  <2> QED
    BY <2>1, <2>2, <2>3, <2>4 DEF TypeOK
<1>13. ASSUME NEW c \in Connect, NotConnected(c) PROVE TypeOK'
  BY <1>13, GiveUpTypes DEF NotConnected, Reason
<1>14. ASSUME NEW f \in Fetcher, ReceiveFetch(f) PROVE TypeOK'
  <2>1. ServerTypeOK'
    BY <1>14, RequestKinds
      DEF TypeOK, ServerTypeOK, ConnectStep, InTransaction, FetchStep, Settled, Over,
          ReceiveFetch, Goto, FetchStart, Reason
  <2>2. DiskTypeOK'
    BY <1>14 DEF TypeOK, DiskTypeOK, ReceiveFetch, disk
  <2>3. queue' \in Seq(Job)
    BY <1>14 DEF TypeOK, ReceiveFetch
  <2>4. WorkerTypeOK'
    BY <1>14 DEF TypeOK, WorkerTypeOK, workers, ReceiveFetch
  <2> QED
    BY <2>1, <2>2, <2>3, <2>4 DEF TypeOK
<1>15. ASSUME NEW f \in Fetcher, RequestFetch(f) PROVE TypeOK'
  <2>1. ServerTypeOK'
    BY <1>15, RequestKinds
      DEF TypeOK, ServerTypeOK, ConnectStep, InTransaction, FetchStep, Settled, Over,
          RequestFetch, Goto, Fail, Reason
  <2>2. DiskTypeOK'
    BY <1>15 DEF TypeOK, DiskTypeOK, RequestFetch, disk
  <2>3. queue' \in Seq(Job)
    <3>1. [name |-> "fetch", repo |-> repo[f], caller |-> f] \in Job
      BY RequestKinds DEF TypeOK, ServerTypeOK, Job, FetchJob
    <3> QED
      BY <1>15, <3>1 DEF TypeOK, RequestFetch
  <2>4. WorkerTypeOK'
    BY <1>15 DEF TypeOK, WorkerTypeOK, workers, RequestFetch
  <2> QED
    BY <2>1, <2>2, <2>3, <2>4 DEF TypeOK
<1>16. ASSUME NEW f \in Fetcher, Fetched(f) PROVE TypeOK'
  <2>1. ServerTypeOK'
    BY <1>16, RequestKinds
      DEF TypeOK, ServerTypeOK, ConnectStep, InTransaction, FetchStep, Settled, Over, Fetched,
          Goto, Emit, Event, EventName
  <2>2. DiskTypeOK'
    BY <1>16 DEF TypeOK, DiskTypeOK, Fetched, disk
  <2>3. queue' \in Seq(Job)
    BY <1>16 DEF TypeOK, Fetched
  <2>4. WorkerTypeOK'
    BY <1>16 DEF TypeOK, WorkerTypeOK, workers, Fetched
  <2> QED
    BY <2>1, <2>2, <2>3, <2>4 DEF TypeOK
<1>17. ASSUME NEW f \in Fetcher, FetchFailed(f) PROVE TypeOK'
  <2>1. ServerTypeOK'
    BY <1>17, RequestKinds
      DEF TypeOK, ServerTypeOK, ConnectStep, InTransaction, FetchStep, Settled, Over,
          FetchFailed, Fail, Reason, Emit, Event, EventName
  <2>2. DiskTypeOK'
    BY <1>17 DEF TypeOK, DiskTypeOK, FetchFailed, disk
  <2>3. queue' \in Seq(Job)
    BY <1>17 DEF TypeOK, FetchFailed
  <2>4. WorkerTypeOK'
    BY <1>17 DEF TypeOK, WorkerTypeOK, workers, FetchFailed
  <2> QED
    BY <2>1, <2>2, <2>3, <2>4 DEF TypeOK
<1>18. ASSUME NEW w \in Worker, TakeJob(w) PROVE TypeOK'
  <2>1. Head(queue) \in Job /\ queue' \in Seq(Job)
    BY <1>18 DEF TypeOK, TakeJob
  <2>2. Head(queue) # NoJob
    BY <2>1, NoValues DEF Job, SetOriginJob, FetchJob
  <2>3. WorkerTypeOK'
    BY <1>18, <2>1, <2>2 DEF TypeOK, WorkerTypeOK, TakeJob, ConnectStage
  <2>4. ServerTypeOK' /\ DiskTypeOK'
    BY <1>18 DEF TypeOK, ServerTypeOK, DiskTypeOK, TakeJob, server, disk
  <2> QED
    BY <2>1, <2>3, <2>4 DEF TypeOK
<1>19. ASSUME NEW w \in Worker, OpenForJob(w) PROVE TypeOK'
  <2>1. CASE Exists(job[w].repo)
    <3>1. job[w] \in Job
      BY <1>19 DEF TypeOK, WorkerTypeOK, OpenForJob
    <3>2. job[w].name = "fetch" => job[w] \in FetchJob
      BY <3>1 DEF Job, SetOriginJob, FetchJob
    <3>3. job[w].name # "fetch" => job[w] \in SetOriginJob
      BY <3>1 DEF Job, SetOriginJob, FetchJob
    <3>4. job[w] # NoJob
      BY <1>19 DEF TypeOK, WorkerTypeOK, OpenForJob
    <3>5. /\ stage' = [stage EXCEPT ![w] = IF job[w].name = "fetch" THEN "fetching" ELSE "validating"]
          /\ UNCHANGED <<job, outcome, server, disk, queue, listed>>
      BY <1>19, <2>1 DEF OpenForJob, TypeOK, WorkerTypeOK
    <3>6. WorkerTypeOK'
      BY <3>2, <3>3, <3>4, <3>5 DEF TypeOK, WorkerTypeOK, ConnectStage
    <3>7. ServerTypeOK' /\ DiskTypeOK' /\ queue' \in Seq(Job)
      BY <3>5 DEF TypeOK, ServerTypeOK, DiskTypeOK, server, disk
    <3> QED
      BY <3>6, <3>7 DEF TypeOK
  <2>2. CASE ~Exists(job[w].repo)
    <3>1. Finish(w, "error") /\ UNCHANGED <<server, disk, queue, listed>>
      BY <1>19, <2>2 DEF OpenForJob
    <3> QED
      BY <3>1, FinishTypes DEF Outcome, Failure, TypeOK, DiskTypeOK, disk
  <2> QED
    BY <2>1, <2>2
<1>20. ASSUME NEW w \in Worker, ValidateRemote(w) PROVE TypeOK'
  <2>1. PICK result \in ValidationResults(w) :
          IF result = "ok"
          THEN stage' = [stage EXCEPT ![w] = "listing"] /\ UNCHANGED <<outcome, job>>
          ELSE Finish(w, result)
    BY <1>20 DEF ValidateRemote
  <2>2. result \in Outcome
    BY DEF ValidationResults, Outcome, Failure
  <2>3. UNCHANGED <<server, disk, queue, listed>> /\ stage[w] = "validating"
    BY <1>20 DEF ValidateRemote
  <2>4. CASE result = "ok"
    BY <2>1, <2>3, <2>4, NextStageTypes DEF ConnectStage, TypeOK, WorkerTypeOK
  <2>5. CASE result # "ok"
    BY <2>1, <2>2, <2>3, <2>5, FinishTypes DEF TypeOK, DiskTypeOK, disk
  <2> QED
    BY <2>4, <2>5
<1>21. ASSUME NEW w \in Worker, ListRemotes(w) PROVE TypeOK'
  <2>1. /\ stage[w] = "listing" /\ stage' = [stage EXCEPT ![w] = "writing"]
        /\ listed' \in [Worker -> BOOLEAN]
        /\ UNCHANGED <<outcome, job, server, disk, queue>>
    BY <1>21 DEF ListRemotes, TypeOK, WorkerTypeOK
  <2> QED
    BY <2>1, NextStageTypes DEF ConnectStage
<1>22. ASSUME NEW w \in Worker, WriteOrigin(w) PROVE TypeOK'
  <2>1. job[w] \in SetOriginJob
    BY <1>22 DEF TypeOK, WorkerTypeOK, WriteOrigin, ConnectStage
  <2>2. DiskTypeOK'
    BY <1>22, <2>1 DEF TypeOK, DiskTypeOK, WriteOrigin, SetOriginJob
  <2>3. Finish(w, "ok") /\ UNCHANGED <<server, queue, listed>>
    BY <1>22 DEF WriteOrigin
  <2> QED
    BY <2>2, <2>3, FinishTypes DEF Outcome
<1>23. ASSUME NEW w \in Worker, FailSetOrigin(w) PROVE TypeOK'
  BY <1>23, FinishTypes DEF FailSetOrigin, Outcome, Failure, TypeOK, DiskTypeOK, disk
<1>24. ASSUME NEW w \in Worker, EndFetch(w) PROVE TypeOK'
  <2>1. PICK result \in FetchResults(w) : Finish(w, result)
    BY <1>24 DEF EndFetch
  <2>2. result \in Outcome
    BY DEF FetchResults, Outcome, Failure
  <2> QED
    BY <1>24, <2>1, <2>2, FinishTypes DEF EndFetch, TypeOK, DiskTypeOK, disk
<1>25. ASSUME ServerDies PROVE TypeOK'
  <2>1. ServerTypeOK'
    <3>1. pc' \in [Request -> {"idle"} \cup ConnectStep \cup FetchStep \cup Over]
      BY <1>25 DEF ServerDies, TypeOK, ServerTypeOK, Over
    <3>2. deaths' \in 0..MaxDeaths
      BY <1>25, MaxDeathsIsANumber DEF ServerDies, TypeOK, ServerTypeOK
    <3> QED
      BY <1>25, <3>1, <3>2 DEF ServerDies, TypeOK, ServerTypeOK
  <2>2. DiskTypeOK' /\ WorkerTypeOK' /\ queue' \in Seq(Job)
    BY <1>25 DEF ServerDies, TypeOK, DiskTypeOK, WorkerTypeOK, disk, workers
  <2> QED
    BY <2>1, <2>2 DEF TypeOK
<1>26. ASSUME NEW c \in Connect, OrphanInit(c) PROVE TypeOK'
  <2>1. ServerTypeOK' /\ WorkerTypeOK' /\ queue' \in Seq(Job)
    BY <1>26 DEF OrphanInit, TypeOK, ServerTypeOK, WorkerTypeOK, server, workers
  <2>2. DiskTypeOK'
    BY <1>26 DEF OrphanInit, TypeOK, DiskTypeOK
  <2> QED
    BY <2>1, <2>2 DEF TypeOK
<1>27. CASE UNCHANGED vars
  BY <1>27 DEF TypeOK, ServerTypeOK, DiskTypeOK, WorkerTypeOK, vars, server, disk, workers
<1> QED
  BY <1>1, <1>2, <1>3, <1>4, <1>5, <1>6, <1>7, <1>8, <1>9, <1>10, <1>11, <1>12, <1>13, <1>14,
     <1>15, <1>16, <1>17, <1>18, <1>19, <1>20, <1>21, <1>22, <1>23, <1>24, <1>25, <1>26, <1>27,
     RequestKinds
    DEF Next, ConnectSteps, FetchSteps, WorkerSteps, Terminated

\* Every state has the types that the comments of the variables give it, and a
\* worker has a job of the kind its stage belongs to exactly while it is busy.
THEOREM TypeCorrect == Spec => []TypeOK
PROOF BY TypesHoldFirst, TypesAreKept, PTL DEF Spec

----------------------------------------------------------------------------
(***************************************************************************)
(* Creation                                                                *)
(***************************************************************************)

\* The transaction is the last thing a creating request does.
CreatorsAreInside == \A c \in creators : pc[c] \in InTransaction \cup Over

\* A directory at the path of a repo was made for that repo, by a request that
\* is making it still, or is in its transaction or past it, or has failed in
\* git init or died with its server.
MadeByItsCreator == \A r \in Repo : Exists(r) =>
  /\ repo[clone[r]] = r
  /\ \/ pc[clone[r]] \in {"initialising", "configuring"}
     \/ clone[r] \in creators
     \/ pc[clone[r]] = "cutOff"
     \/ pc[clone[r]] = "failed" /\ reason[clone[r]] = "initFailed"

\* A request has found the clone and has not failed.
HasFoundClone(c) == pc[c] \in {"finding", "opening", "ok"} \cup InTransaction

\* LostOnlyToFailedCreation, from the moment the request finds the clone.
LostAfterFound == \A c \in Connect :
  HasFoundClone(c) /\ ~Exists(repo[c]) =>
    \E d \in creators \ {c} : repo[d] = repo[c] /\ pc[d] = "failed"

\* A request may find the clone, lose it to its creator, and go on: so what is
\* known of the clone is known from its creator, and through it only.
CreationInv ==
  /\ CreatorsAreInside
  /\ MadeByItsCreator
  /\ CreatorOwnsClone
  /\ FailedCreationCleansUp
  /\ LostAfterFound

\* What the steps of CreationInv have in common: those that do nothing to a
\* connect request, nor to a directory.
LEMMA ElsewhereCreation ==
  ASSUME TypeOK, CreationInv,
         \A c \in Connect : pc'[c] = pc[c] /\ reason'[c] = reason[c],
         UNCHANGED <<repo, creators, clone>>
  PROVE CreationInv'
PROOF
<1>1. CreatorsAreInside' /\ CreatorOwnsClone' /\ FailedCreationCleansUp'
  BY DEF TypeOK, ServerTypeOK, CreationInv, CreatorsAreInside, CreatorOwnsClone, Creating,
        FailedCreationCleansUp
<1>2. MadeByItsCreator'
  BY DEF TypeOK, DiskTypeOK, CreationInv, MadeByItsCreator, Exists
<1>3. LostAfterFound'
  BY DEF TypeOK, ServerTypeOK, CreationInv, LostAfterFound, HasFoundClone, Exists
<1> QED
  BY <1>1, <1>2, <1>3 DEF CreationInv

\* A request that gives up inside its transaction has its own clone still, and
\* removes that or leaves it; outside of one it touches no directory.
LEMMA GiveUpRemovesItsOwn ==
  ASSUME CreationInv, NEW c \in Connect, pc[c] \in InTransaction,
         NEW why, GiveUp(c, why)
  PROVE \/ UNCHANGED clone
        \/ /\ c \in creators /\ clone[repo[c]] = c
           /\ clone' = [clone EXCEPT ![repo[c]] = NoClone]
PROOF BY DEF GiveUp, RemoveClone, FailRemove, disk, CreationInv, CreatorOwnsClone, Creating

LEMMA GiveUpCreation ==
  ASSUME TypeOK, CreationInv, NEW c \in Connect, pc[c] \in InTransaction,
         NEW why, why # "initFailed", GiveUp(c, why), UNCHANGED <<repo, creators>>
  PROVE CreationInv'
PROOF
<1>1. PICK w : /\ pc' = [pc EXCEPT ![c] = "failed"]
               /\ reason' = [reason EXCEPT ![c] = w]
               /\ c \in creators => clone' = [clone EXCEPT ![repo[c]] = NoClone] \/ w = "removeFailed"
  BY DEF GiveUp, Fail, RemoveClone
<1>2. \/ UNCHANGED clone
      \/ /\ c \in creators /\ clone[repo[c]] = c
         /\ clone' = [clone EXCEPT ![repo[c]] = NoClone]
  BY GiveUpRemovesItsOwn
<1>3. CreatorsAreInside'
  BY <1>1, RequestKinds
    DEF TypeOK, ServerTypeOK, DiskTypeOK, CreationInv, CreatorsAreInside, Settled, Over
<1>4. MadeByItsCreator'
  BY <1>1, <1>2, RequestKinds, NoValues
    DEF TypeOK, ServerTypeOK, DiskTypeOK, CreationInv, MadeByItsCreator, CreatorsAreInside,
        CreatorOwnsClone, Creating, Exists, InTransaction, Settled, Over
<1>5. CreatorOwnsClone'
  BY <1>1, <1>2, RequestKinds, NoValues
    DEF TypeOK, ServerTypeOK, DiskTypeOK, CreationInv, CreatorOwnsClone, CreatorsAreInside,
        MadeByItsCreator, Creating, Exists, InTransaction, Settled, Over
<1>6. FailedCreationCleansUp'
  BY <1>1, <1>2, RequestKinds, NoValues
    DEF TypeOK, ServerTypeOK, DiskTypeOK, CreationInv, FailedCreationCleansUp,
        MadeByItsCreator, CreatorOwnsClone, CreatorsAreInside, Creating, Exists, InTransaction,
        Settled, Over
<1>7. LostAfterFound'
  BY <1>1, <1>2, RequestKinds, NoValues
    DEF TypeOK, ServerTypeOK, DiskTypeOK, CreationInv, LostAfterFound, HasFoundClone,
        CreatorOwnsClone, CreatorsAreInside, Creating, Exists, InTransaction, Settled, Over
<1> QED
  BY <1>3, <1>4, <1>5, <1>6, <1>7 DEF CreationInv

LEMMA CreationHoldsFirst == Init => CreationInv
PROOF BY NoValues, RequestKinds
  DEF Init, CreationInv, CreatorsAreInside, MadeByItsCreator, CreatorOwnsClone,
      FailedCreationCleansUp, LostAfterFound, Creating, HasFoundClone, Exists, InTransaction,
      Settled, Over

LEMMA CreationIsKept == TypeOK /\ CreationInv /\ [Next]_vars => CreationInv'
PROOF
<1> SUFFICES ASSUME TypeOK, CreationInv, [Next]_vars PROVE CreationInv'
  OBVIOUS
<1>1. ASSUME NEW c \in Connect, ReceiveConnect(c) PROVE CreationInv'
  <2>1. CreatorsAreInside'
    BY <1>1, RequestKinds, NoValues
      DEF TypeOK, ServerTypeOK, DiskTypeOK, CreationInv, CreatorsAreInside, InTransaction,
          Settled, Over, ReceiveConnect, Goto, disk
  <2>2. MadeByItsCreator'
    BY <1>1, RequestKinds, NoValues
      DEF TypeOK, ServerTypeOK, DiskTypeOK, CreationInv, MadeByItsCreator, CreatorsAreInside,
          CreatorOwnsClone, Creating, Exists, InTransaction, Settled, Over, ReceiveConnect,
          Goto, disk
  <2>3. CreatorOwnsClone'
    BY <1>1, RequestKinds, NoValues
      DEF TypeOK, ServerTypeOK, DiskTypeOK, CreationInv, CreatorOwnsClone, CreatorsAreInside,
          MadeByItsCreator, Creating, Exists, InTransaction, Settled, Over, ReceiveConnect,
          Goto, disk
  <2>4. FailedCreationCleansUp'
    BY <1>1, RequestKinds, NoValues
      DEF TypeOK, ServerTypeOK, DiskTypeOK, CreationInv, FailedCreationCleansUp,
          MadeByItsCreator, CreatorOwnsClone, CreatorsAreInside, Creating, Exists,
          InTransaction, Settled, Over, ReceiveConnect, Goto, disk
  <2>5. LostAfterFound'
    BY <1>1, RequestKinds, NoValues
      DEF TypeOK, ServerTypeOK, DiskTypeOK, CreationInv, LostAfterFound, HasFoundClone,
          CreatorOwnsClone, CreatorsAreInside, Creating, Exists, InTransaction, Settled, Over,
          ReceiveConnect, Goto, disk
  <2> QED
    BY <2>1, <2>2, <2>3, <2>4, <2>5 DEF CreationInv
<1>2. ASSUME NEW c \in Connect, FindRepo(c) PROVE CreationInv'
  <2>1. CreatorsAreInside'
    BY <1>2, RequestKinds, NoValues
      DEF TypeOK, ServerTypeOK, DiskTypeOK, CreationInv, CreatorsAreInside, InTransaction,
          Settled, Over, FindRepo, Goto, Fail, disk
  <2>2. MadeByItsCreator'
    BY <1>2, RequestKinds, NoValues
      DEF TypeOK, ServerTypeOK, DiskTypeOK, CreationInv, MadeByItsCreator, CreatorsAreInside,
          CreatorOwnsClone, Creating, Exists, InTransaction, Settled, Over, FindRepo, Goto,
          Fail, disk
  <2>3. CreatorOwnsClone'
    BY <1>2, RequestKinds, NoValues
      DEF TypeOK, ServerTypeOK, DiskTypeOK, CreationInv, CreatorOwnsClone, CreatorsAreInside,
          MadeByItsCreator, Creating, Exists, InTransaction, Settled, Over, FindRepo, Goto,
          Fail, disk
  <2>4. FailedCreationCleansUp'
    BY <1>2, RequestKinds, NoValues
      DEF TypeOK, ServerTypeOK, DiskTypeOK, CreationInv, FailedCreationCleansUp,
          MadeByItsCreator, CreatorOwnsClone, CreatorsAreInside, Creating, Exists,
          InTransaction, Settled, Over, FindRepo, Goto, Fail, disk
  <2>5. LostAfterFound'
    BY <1>2, RequestKinds, NoValues
      DEF TypeOK, ServerTypeOK, DiskTypeOK, CreationInv, LostAfterFound, HasFoundClone,
          CreatorOwnsClone, CreatorsAreInside, Creating, Exists, InTransaction, Settled, Over,
          FindRepo, Goto, Fail, disk
  <2> QED
    BY <2>1, <2>2, <2>3, <2>4, <2>5 DEF CreationInv
<1>3. ASSUME NEW c \in Connect, OpenClone(c) PROVE CreationInv'
  <2>1. CreatorsAreInside'
    BY <1>3, RequestKinds, NoValues
      DEF TypeOK, ServerTypeOK, DiskTypeOK, CreationInv, CreatorsAreInside, InTransaction,
          Settled, Over, OpenClone, Goto, Fail, disk
  <2>2. MadeByItsCreator'
    BY <1>3, RequestKinds, NoValues
      DEF TypeOK, ServerTypeOK, DiskTypeOK, CreationInv, MadeByItsCreator, CreatorsAreInside,
          CreatorOwnsClone, Creating, Exists, InTransaction, Settled, Over, OpenClone, Goto,
          Fail, disk
  <2>3. CreatorOwnsClone'
    BY <1>3, RequestKinds, NoValues
      DEF TypeOK, ServerTypeOK, DiskTypeOK, CreationInv, CreatorOwnsClone, CreatorsAreInside,
          MadeByItsCreator, Creating, Exists, InTransaction, Settled, Over, OpenClone, Goto,
          Fail, disk
  <2>4. FailedCreationCleansUp'
    BY <1>3, RequestKinds, NoValues
      DEF TypeOK, ServerTypeOK, DiskTypeOK, CreationInv, FailedCreationCleansUp,
          MadeByItsCreator, CreatorOwnsClone, CreatorsAreInside, Creating, Exists,
          InTransaction, Settled, Over, OpenClone, Goto, Fail, disk
  <2>5. LostAfterFound'
    BY <1>3, RequestKinds, NoValues
      DEF TypeOK, ServerTypeOK, DiskTypeOK, CreationInv, LostAfterFound, HasFoundClone,
          CreatorOwnsClone, CreatorsAreInside, Creating, Exists, InTransaction, Settled, Over,
          OpenClone, Goto, Fail, disk
  <2> QED
    BY <2>1, <2>2, <2>3, <2>4, <2>5 DEF CreationInv
<1>4. ASSUME NEW c \in Connect, CreateRepo(c) PROVE CreationInv'
  <2>1. CreatorsAreInside'
    BY <1>4, RequestKinds, NoValues
      DEF TypeOK, ServerTypeOK, DiskTypeOK, CreationInv, CreatorsAreInside, InTransaction,
          Settled, Over, CreateRepo, Goto, Fail, disk
  <2>2. MadeByItsCreator'
    BY <1>4, RequestKinds, NoValues
      DEF TypeOK, ServerTypeOK, DiskTypeOK, CreationInv, MadeByItsCreator, CreatorsAreInside,
          CreatorOwnsClone, Creating, Exists, InTransaction, Settled, Over, CreateRepo, Goto,
          Fail, disk
  <2>3. CreatorOwnsClone'
    BY <1>4, RequestKinds, NoValues
      DEF TypeOK, ServerTypeOK, DiskTypeOK, CreationInv, CreatorOwnsClone, CreatorsAreInside,
          MadeByItsCreator, Creating, Exists, InTransaction, Settled, Over, CreateRepo, Goto,
          Fail, disk
  <2>4. FailedCreationCleansUp'
    BY <1>4, RequestKinds, NoValues
      DEF TypeOK, ServerTypeOK, DiskTypeOK, CreationInv, FailedCreationCleansUp,
          MadeByItsCreator, CreatorOwnsClone, CreatorsAreInside, Creating, Exists,
          InTransaction, Settled, Over, CreateRepo, Goto, Fail, disk
  <2>5. LostAfterFound'
    BY <1>4, RequestKinds, NoValues
      DEF TypeOK, ServerTypeOK, DiskTypeOK, CreationInv, LostAfterFound, HasFoundClone,
          CreatorOwnsClone, CreatorsAreInside, Creating, Exists, InTransaction, Settled, Over,
          CreateRepo, Goto, Fail, disk
  <2> QED
    BY <2>1, <2>2, <2>3, <2>4, <2>5 DEF CreationInv
<1>5. ASSUME NEW c \in Connect, MakeDirectory(c) PROVE CreationInv'
  <2>1. CreatorsAreInside'
    BY <1>5, RequestKinds, NoValues
      DEF TypeOK, ServerTypeOK, DiskTypeOK, CreationInv, CreatorsAreInside, InTransaction,
          Settled, Over, MakeDirectory, Goto, Fail, disk
  <2>2. MadeByItsCreator'
    BY <1>5, RequestKinds, NoValues
      DEF TypeOK, ServerTypeOK, DiskTypeOK, CreationInv, MadeByItsCreator, CreatorsAreInside,
          CreatorOwnsClone, Creating, Exists, InTransaction, Settled, Over, MakeDirectory,
          Goto, Fail, disk
  <2>3. CreatorOwnsClone'
    BY <1>5, RequestKinds, NoValues
      DEF TypeOK, ServerTypeOK, DiskTypeOK, CreationInv, CreatorOwnsClone, CreatorsAreInside,
          MadeByItsCreator, Creating, Exists, InTransaction, Settled, Over, MakeDirectory,
          Goto, Fail, disk
  <2>4. FailedCreationCleansUp'
    BY <1>5, RequestKinds, NoValues
      DEF TypeOK, ServerTypeOK, DiskTypeOK, CreationInv, FailedCreationCleansUp,
          MadeByItsCreator, CreatorOwnsClone, CreatorsAreInside, Creating, Exists,
          InTransaction, Settled, Over, MakeDirectory, Goto, Fail, disk
  <2>5. LostAfterFound'
    BY <1>5, RequestKinds, NoValues
      DEF TypeOK, ServerTypeOK, DiskTypeOK, CreationInv, LostAfterFound, HasFoundClone,
          CreatorOwnsClone, CreatorsAreInside, Creating, Exists, InTransaction, Settled, Over,
          MakeDirectory, Goto, Fail, disk
  <2> QED
    BY <2>1, <2>2, <2>3, <2>4, <2>5 DEF CreationInv
<1>6. ASSUME NEW c \in Connect, InitBare(c) PROVE CreationInv'
  <2>1. CreatorsAreInside'
    BY <1>6, RequestKinds, NoValues
      DEF TypeOK, ServerTypeOK, DiskTypeOK, CreationInv, CreatorsAreInside, InTransaction,
          Settled, Over, InitBare, Goto
  <2>2. MadeByItsCreator'
    BY <1>6, RequestKinds, NoValues
      DEF TypeOK, ServerTypeOK, DiskTypeOK, CreationInv, MadeByItsCreator, CreatorsAreInside,
          CreatorOwnsClone, Creating, Exists, InTransaction, Settled, Over, InitBare, Goto
  <2>3. CreatorOwnsClone'
    BY <1>6, RequestKinds, NoValues
      DEF TypeOK, ServerTypeOK, DiskTypeOK, CreationInv, CreatorOwnsClone, CreatorsAreInside,
          MadeByItsCreator, Creating, Exists, InTransaction, Settled, Over, InitBare, Goto
  <2>4. FailedCreationCleansUp'
    BY <1>6, RequestKinds, NoValues
      DEF TypeOK, ServerTypeOK, DiskTypeOK, CreationInv, FailedCreationCleansUp,
          MadeByItsCreator, CreatorOwnsClone, CreatorsAreInside, Creating, Exists,
          InTransaction, Settled, Over, InitBare, Goto
  <2>5. LostAfterFound'
    BY <1>6, RequestKinds, NoValues
      DEF TypeOK, ServerTypeOK, DiskTypeOK, CreationInv, LostAfterFound, HasFoundClone,
          CreatorOwnsClone, CreatorsAreInside, Creating, Exists, InTransaction, Settled, Over,
          InitBare, Goto
  <2> QED
    BY <2>1, <2>2, <2>3, <2>4, <2>5 DEF CreationInv
<1>7. ASSUME NEW c \in Connect, Configure(c) PROVE CreationInv'
  <2>1. CreatorsAreInside'
    BY <1>7, RequestKinds, NoValues
      DEF TypeOK, ServerTypeOK, DiskTypeOK, CreationInv, CreatorsAreInside, InTransaction,
          Settled, Over, Configure, Goto, disk
  <2>2. MadeByItsCreator'
    BY <1>7, RequestKinds, NoValues
      DEF TypeOK, ServerTypeOK, DiskTypeOK, CreationInv, MadeByItsCreator, CreatorsAreInside,
          CreatorOwnsClone, Creating, Exists, InTransaction, Settled, Over, Configure, Goto,
          disk
  <2>3. CreatorOwnsClone'
    BY <1>7, RequestKinds, NoValues
      DEF TypeOK, ServerTypeOK, DiskTypeOK, CreationInv, CreatorOwnsClone, CreatorsAreInside,
          MadeByItsCreator, Creating, Exists, InTransaction, Settled, Over, Configure, Goto,
          disk
  <2>4. FailedCreationCleansUp'
    BY <1>7, RequestKinds, NoValues
      DEF TypeOK, ServerTypeOK, DiskTypeOK, CreationInv, FailedCreationCleansUp,
          MadeByItsCreator, CreatorOwnsClone, CreatorsAreInside, Creating, Exists,
          InTransaction, Settled, Over, Configure, Goto, disk
  <2>5. LostAfterFound'
    BY <1>7, RequestKinds, NoValues
      DEF TypeOK, ServerTypeOK, DiskTypeOK, CreationInv, LostAfterFound, HasFoundClone,
          CreatorOwnsClone, CreatorsAreInside, Creating, Exists, InTransaction, Settled, Over,
          Configure, Goto, disk
  <2> QED
    BY <2>1, <2>2, <2>3, <2>4, <2>5 DEF CreationInv
<1>8. ASSUME NEW c \in Connect, FailInit(c) PROVE CreationInv'
  <2>1. CreatorsAreInside'
    BY <1>8, RequestKinds, NoValues
      DEF TypeOK, ServerTypeOK, DiskTypeOK, CreationInv, CreatorsAreInside, InTransaction,
          Settled, Over, FailInit, Fail, disk
  <2>2. MadeByItsCreator'
    BY <1>8, RequestKinds, NoValues
      DEF TypeOK, ServerTypeOK, DiskTypeOK, CreationInv, MadeByItsCreator, CreatorsAreInside,
          CreatorOwnsClone, Creating, Exists, InTransaction, Settled, Over, FailInit, Fail,
          disk
  <2>3. CreatorOwnsClone'
    BY <1>8, RequestKinds, NoValues
      DEF TypeOK, ServerTypeOK, DiskTypeOK, CreationInv, CreatorOwnsClone, CreatorsAreInside,
          MadeByItsCreator, Creating, Exists, InTransaction, Settled, Over, FailInit, Fail,
          disk
  <2>4. FailedCreationCleansUp'
    BY <1>8, RequestKinds, NoValues
      DEF TypeOK, ServerTypeOK, DiskTypeOK, CreationInv, FailedCreationCleansUp,
          MadeByItsCreator, CreatorOwnsClone, CreatorsAreInside, Creating, Exists,
          InTransaction, Settled, Over, FailInit, Fail, disk
  <2>5. LostAfterFound'
    BY <1>8, RequestKinds, NoValues
      DEF TypeOK, ServerTypeOK, DiskTypeOK, CreationInv, LostAfterFound, HasFoundClone,
          CreatorOwnsClone, CreatorsAreInside, Creating, Exists, InTransaction, Settled, Over,
          FailInit, Fail, disk
  <2> QED
    BY <2>1, <2>2, <2>3, <2>4, <2>5 DEF CreationInv
<1>9. ASSUME NEW c \in Connect, Reconnect(c) PROVE CreationInv'
  <2>1. CreatorsAreInside'
    BY <1>9, RequestKinds, NoValues
      DEF TypeOK, ServerTypeOK, DiskTypeOK, CreationInv, CreatorsAreInside, InTransaction,
          Settled, Over, Reconnect, Goto, disk
  <2>2. MadeByItsCreator'
    BY <1>9, RequestKinds, NoValues
      DEF TypeOK, ServerTypeOK, DiskTypeOK, CreationInv, MadeByItsCreator, CreatorsAreInside,
          CreatorOwnsClone, Creating, Exists, InTransaction, Settled, Over, Reconnect, Goto,
          disk
  <2>3. CreatorOwnsClone'
    BY <1>9, RequestKinds, NoValues
      DEF TypeOK, ServerTypeOK, DiskTypeOK, CreationInv, CreatorOwnsClone, CreatorsAreInside,
          MadeByItsCreator, Creating, Exists, InTransaction, Settled, Over, Reconnect, Goto,
          disk
  <2>4. FailedCreationCleansUp'
    BY <1>9, RequestKinds, NoValues
      DEF TypeOK, ServerTypeOK, DiskTypeOK, CreationInv, FailedCreationCleansUp,
          MadeByItsCreator, CreatorOwnsClone, CreatorsAreInside, Creating, Exists,
          InTransaction, Settled, Over, Reconnect, Goto, disk
  <2>5. LostAfterFound'
    BY <1>9, RequestKinds, NoValues
      DEF TypeOK, ServerTypeOK, DiskTypeOK, CreationInv, LostAfterFound, HasFoundClone,
          CreatorOwnsClone, CreatorsAreInside, Creating, Exists, InTransaction, Settled, Over,
          Reconnect, Goto, disk
  <2> QED
    BY <2>1, <2>2, <2>3, <2>4, <2>5 DEF CreationInv
<1>10. ASSUME NEW c \in Connect, RequestOrigin(c) PROVE CreationInv'
  <2>1. CreatorsAreInside'
    BY <1>10, RequestKinds, NoValues
      DEF TypeOK, ServerTypeOK, DiskTypeOK, CreationInv, CreatorsAreInside, InTransaction,
          Settled, Over, RequestOrigin, Goto, disk
  <2>2. MadeByItsCreator'
    BY <1>10, RequestKinds, NoValues
      DEF TypeOK, ServerTypeOK, DiskTypeOK, CreationInv, MadeByItsCreator, CreatorsAreInside,
          CreatorOwnsClone, Creating, Exists, InTransaction, Settled, Over, RequestOrigin,
          Goto, disk
  <2>3. CreatorOwnsClone'
    BY <1>10, RequestKinds, NoValues
      DEF TypeOK, ServerTypeOK, DiskTypeOK, CreationInv, CreatorOwnsClone, CreatorsAreInside,
          MadeByItsCreator, Creating, Exists, InTransaction, Settled, Over, RequestOrigin,
          Goto, disk
  <2>4. FailedCreationCleansUp'
    BY <1>10, RequestKinds, NoValues
      DEF TypeOK, ServerTypeOK, DiskTypeOK, CreationInv, FailedCreationCleansUp,
          MadeByItsCreator, CreatorOwnsClone, CreatorsAreInside, Creating, Exists,
          InTransaction, Settled, Over, RequestOrigin, Goto, disk
  <2>5. LostAfterFound'
    <3>1. /\ pc[c] = "deciding" /\ pc' = [pc EXCEPT ![c] = "waiting"]
          /\ UNCHANGED <<repo, creators, clone>>
      BY <1>10 DEF RequestOrigin, Goto, disk
    <3> QED
      BY <3>1, RequestKinds, NoValues
        DEF TypeOK, ServerTypeOK, DiskTypeOK, CreationInv, LostAfterFound, HasFoundClone,
            CreatorOwnsClone, CreatorsAreInside, Creating, Exists, InTransaction, Settled, Over
  <2> QED
    BY <2>1, <2>2, <2>3, <2>4, <2>5 DEF CreationInv
<1>11. ASSUME NEW c \in Connect, Connected(c) PROVE CreationInv'
  <2>1. CreatorsAreInside'
    BY <1>11, RequestKinds, NoValues
      DEF TypeOK, ServerTypeOK, DiskTypeOK, CreationInv, CreatorsAreInside, InTransaction,
          Settled, Over, Connected, FetchStart, disk
  <2>2. MadeByItsCreator'
    BY <1>11, RequestKinds, NoValues
      DEF TypeOK, ServerTypeOK, DiskTypeOK, CreationInv, MadeByItsCreator, CreatorsAreInside,
          CreatorOwnsClone, Creating, Exists, InTransaction, Settled, Over, Connected,
          FetchStart, disk
  <2>3. CreatorOwnsClone'
    BY <1>11, RequestKinds, NoValues
      DEF TypeOK, ServerTypeOK, DiskTypeOK, CreationInv, CreatorOwnsClone, CreatorsAreInside,
          MadeByItsCreator, Creating, Exists, InTransaction, Settled, Over, Connected,
          FetchStart, disk
  <2>4. FailedCreationCleansUp'
    BY <1>11, RequestKinds, NoValues
      DEF TypeOK, ServerTypeOK, DiskTypeOK, CreationInv, FailedCreationCleansUp,
          MadeByItsCreator, CreatorOwnsClone, CreatorsAreInside, Creating, Exists,
          InTransaction, Settled, Over, Connected, FetchStart, disk
  <2>5. LostAfterFound'
    BY <1>11, RequestKinds, NoValues
      DEF TypeOK, ServerTypeOK, DiskTypeOK, CreationInv, LostAfterFound, HasFoundClone,
          CreatorOwnsClone, CreatorsAreInside, Creating, Exists, InTransaction, Settled, Over,
          Connected, FetchStart, disk
  <2> QED
    BY <2>1, <2>2, <2>3, <2>4, <2>5 DEF CreationInv
<1>12. ASSUME NEW c \in Connect, ReadOrigin(c) PROVE CreationInv'
  <2>1. CASE /\ pc[c] = "reading" /\ pc' = [pc EXCEPT ![c] = "deciding"]
             /\ UNCHANGED <<repo, creators, reason, clone>>
    <3>1. CreatorsAreInside' /\ MadeByItsCreator'
      BY <2>1, RequestKinds, NoValues
        DEF TypeOK, ServerTypeOK, DiskTypeOK, CreationInv, MadeByItsCreator, CreatorsAreInside,
            CreatorOwnsClone, Creating, Exists, InTransaction, Settled, Over
    <3>2. CreatorOwnsClone' /\ FailedCreationCleansUp'
      BY <2>1, RequestKinds, NoValues
        DEF TypeOK, ServerTypeOK, DiskTypeOK, CreationInv, FailedCreationCleansUp,
            MadeByItsCreator, CreatorOwnsClone, CreatorsAreInside, Creating, Exists,
            InTransaction, Settled, Over
    <3>3. LostAfterFound'
      BY <2>1, RequestKinds, NoValues
        DEF TypeOK, ServerTypeOK, DiskTypeOK, CreationInv, LostAfterFound, HasFoundClone,
            CreatorOwnsClone, CreatorsAreInside, Creating, Exists, InTransaction, Settled, Over
    <3> QED
      BY <3>1, <3>2, <3>3 DEF CreationInv
  <2>2. CASE /\ pc[c] = "reading" /\ GiveUp(c, "gitError")
             /\ UNCHANGED <<repo, creators>>
    BY <2>2, GiveUpCreation DEF InTransaction
  <2> QED
    BY <1>12, <2>1, <2>2, ReadOriginCases
<1>13. ASSUME NEW c \in Connect, NotConnected(c) PROVE CreationInv'
  BY <1>13, GiveUpCreation DEF NotConnected, InTransaction, Failure
<1>14. ASSUME NEW f \in Fetcher, ReceiveFetch(f) \/ RequestFetch(f) \/ Fetched(f) \/ FetchFailed(f)
      PROVE CreationInv'
  <2>1. /\ \A c \in Connect : pc'[c] = pc[c] /\ reason'[c] = reason[c]
        /\ UNCHANGED <<repo, creators, clone>>
    BY <1>14, RequestKinds
      DEF TypeOK, ServerTypeOK, DiskTypeOK, ReceiveFetch, RequestFetch, Fetched, FetchFailed,
          Goto, Fail, FetchStart, disk
  <2> QED
    BY <2>1, ElsewhereCreation
<1>15. ASSUME NEW w \in Worker,
             TakeJob(w) \/ OpenForJob(w) \/ ValidateRemote(w) \/ ListRemotes(w)
             \/ WriteOrigin(w) \/ FailSetOrigin(w) \/ EndFetch(w)
      PROVE CreationInv'
  <2>1. /\ \A c \in Connect : pc'[c] = pc[c] /\ reason'[c] = reason[c]
        /\ UNCHANGED <<repo, creators, clone>>
    BY <1>15, RequestKinds
      DEF TypeOK, ServerTypeOK, DiskTypeOK, TakeJob, OpenForJob, ValidateRemote, ListRemotes,
          WriteOrigin, FailSetOrigin, EndFetch, server, disk
  <2> QED
    BY <2>1, ElsewhereCreation
<1>16. ASSUME ServerDies PROVE CreationInv'
  <2>1. /\ \A q \in Request : pc'[q] = IF pc[q] \in Settled \cup {"idle"} THEN pc[q] ELSE "cutOff"
        /\ UNCHANGED <<repo, creators, reason, clone>>
    BY <1>16 DEF ServerDies, disk
  <2>2. CreatorsAreInside' /\ MadeByItsCreator'
    BY <2>1, RequestKinds, NoValues
      DEF TypeOK, ServerTypeOK, DiskTypeOK, CreationInv, CreatorsAreInside, MadeByItsCreator,
          Exists, InTransaction, Settled, Over
  <2>3. CreatorOwnsClone' /\ FailedCreationCleansUp'
    BY <2>1, RequestKinds
      DEF TypeOK, ServerTypeOK, CreationInv, CreatorOwnsClone, Creating,
          FailedCreationCleansUp, InTransaction, Settled
  <2>4. LostAfterFound'
    BY <2>1, RequestKinds
      DEF TypeOK, ServerTypeOK, CreationInv, LostAfterFound, HasFoundClone, Exists,
          InTransaction, Settled
  <2> QED
    BY <2>2, <2>3, <2>4 DEF CreationInv
<1>17. ASSUME NEW c \in Connect, OrphanInit(c) PROVE CreationInv'
  BY <1>17, ElsewhereCreation DEF OrphanInit, server
<1>18. CASE UNCHANGED vars
  BY <1>18, ElsewhereCreation DEF vars, server, disk
<1> QED
  BY <1>1, <1>2, <1>3, <1>4, <1>5, <1>6, <1>7, <1>8, <1>9, <1>10, <1>11, <1>12, <1>13, <1>14,
     <1>15, <1>16, <1>17, <1>18, RequestKinds
    DEF Next, ConnectSteps, FetchSteps, WorkerSteps, Terminated

LEMMA CreationCorrect == Spec => [](TypeOK /\ CreationInv)
PROOF
<1>1. Init => TypeOK /\ CreationInv
  BY TypesHoldFirst, CreationHoldsFirst
<1>2. TypeOK /\ CreationInv /\ [Next]_vars => (TypeOK /\ CreationInv)'
  BY TypesAreKept, CreationIsKept
<1> QED
  BY <1>1, <1>2, PTL DEF Spec

\* Whatever the other requests and the workers do, a creating request works in
\* the directory it made: nobody takes or replaces it.
THEOREM CreatorsOwnTheirClones == Spec => []CreatorOwnsClone
PROOF BY CreationCorrect, PTL DEF CreationInv

\* What a failed creation leaves on the disk is the doing of a failed git init or
\* of a failed removal.
THEOREM FailedCreationsCleanUp == Spec => []FailedCreationCleansUp
PROOF BY CreationCorrect, PTL DEF CreationInv

\* A repo that was connected is lost only when another request, which had created
\* it, fails.
THEOREM ReposAreLostToFailedCreations == Spec => []LostOnlyToFailedCreation
PROOF
<1>1. CreationInv => LostOnlyToFailedCreation
  BY DEF CreationInv, LostAfterFound, HasFoundClone, LostOnlyToFailedCreation
<1> QED
  BY <1>1, CreationCorrect, PTL

\* No step takes a directory from its path but the failure of the request that
\* made it.
THEOREM OnlyCreatorsRemove == Spec => OnlyItsCreatorRemoves
PROOF
<1> DEFINE Removal == \A r \in Repo : Exists(r) /\ clone'[r] # clone[r] =>
                        /\ clone'[r] = NoClone
                        /\ clone[r] \in creators
                        /\ pc'[clone[r]] = "failed"
<1>1. ASSUME TypeOK, CreationInv, [Next]_vars PROVE [Removal]_vars
  <2>1. ASSUME NEW c \in Connect, pc[c] \in InTransaction, NEW why, GiveUp(c, why)
        PROVE Removal
    <3>1. pc' = [pc EXCEPT ![c] = "failed"]
      BY <2>1 DEF GiveUp, Fail
    <3> QED
      BY <1>1, <2>1, <3>1, GiveUpRemovesItsOwn, RequestKinds
         DEF TypeOK, ServerTypeOK, DiskTypeOK, Exists
  <2>2. ASSUME NEW c \in Connect, MakeDirectory(c) PROVE Removal
    BY <1>1, <2>2 DEF MakeDirectory, Exists, disk, TypeOK, DiskTypeOK
  <2>3. ASSUME NEW c \in Connect, ReadOrigin(c) PROVE Removal
    <3>1. CASE UNCHANGED clone
      BY <3>1
    <3>2. CASE pc[c] = "reading" /\ GiveUp(c, "gitError")
      BY <2>1, <3>2 DEF InTransaction
    <3> QED
      BY <2>3, <3>1, <3>2, ReadOriginCases
  <2>4. ASSUME NEW c \in Connect, NotConnected(c) PROVE Removal
    BY <2>1, <2>4 DEF NotConnected, InTransaction
  <2>5. ASSUME NEW c \in Connect,
               \/ ReceiveConnect(c) \/ FindRepo(c) \/ OpenClone(c) \/ CreateRepo(c)
               \/ InitBare(c) \/ Configure(c) \/ FailInit(c) \/ Reconnect(c)
               \/ RequestOrigin(c) \/ Connected(c)
        PROVE UNCHANGED clone
    BY <2>5 DEF ReceiveConnect, FindRepo, OpenClone, CreateRepo, InitBare, Configure,
       FailInit, Reconnect, RequestOrigin, Connected, disk
  <2>6. ASSUME NEW f \in Fetcher, ReceiveFetch(f) \/ FetchSteps(f) PROVE UNCHANGED clone
    BY <2>6 DEF ReceiveFetch, FetchSteps, RequestFetch, Fetched, FetchFailed, disk
  <2>7. ASSUME NEW w \in Worker, WorkerSteps(w) PROVE UNCHANGED clone
    BY <2>7 DEF WorkerSteps, TakeJob, OpenForJob, ValidateRemote, ListRemotes,
       WriteOrigin, FailSetOrigin, EndFetch, disk
  <2>8. ServerDies => UNCHANGED clone
    BY DEF ServerDies, disk
  <2>9. ASSUME NEW c \in Connect, OrphanInit(c) PROVE UNCHANGED clone
    BY <2>9 DEF OrphanInit
  <2> QED
    BY <1>1, <2>2, <2>3, <2>4, <2>5, <2>6, <2>7, <2>8, <2>9, RequestKinds
       DEF Next, ConnectSteps, Terminated, vars, disk
<1> QED
  BY <1>1, CreationCorrect, PTL DEF OnlyItsCreatorRemoves, Spec
=============================================================================
