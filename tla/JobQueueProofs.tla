--------------------------- MODULE JobQueueProofs ---------------------------
(***************************************************************************)
(* What JobQueue promises, for any requests, workers and starts, and for   *)
(* whatever git says.                                                      *)
(***************************************************************************)
EXTENDS JobQueue, TLAPS

----------------------------------------------------------------------------
(***************************************************************************)
(* Steps, plans and failures                                               *)
(***************************************************************************)
LEMMA StepNames ==
  /\ Step = {"setOriginTo", "fetch", "push", "exists", "find", "create", "getOrigin",
             "commit", "branches", "show"}
  /\ JobName = {"setOriginTo", "fetch", "push"}
BY DEF Step, Operation, JobName

\* The steps of a route are known, and there are some.
LEMMA PlansAreSequencesOfSteps ==
  ASSUME NEW r \in Route, NEW p \in Plans(r)
  PROVE  p \in Seq(Step) /\ Len(p) \in Nat \ {0}
<1>1. \/ p = <<"create", "getOrigin", "setOriginTo">>
      \/ p = <<"find", "getOrigin", "setOriginTo">>
      \/ p = <<"find", "getOrigin">> \/ p = <<"create", "getOrigin">>
      \/ p = <<"find", "fetch">>
      \/ p = <<"find", "fetch", "commit", "push">>
      \/ p = <<"exists", "find", "branches">>
      \/ p = <<"exists", "find", "show">>
  BY DEF Plans, Route
<1>2. CASE p = <<"create", "getOrigin", "setOriginTo">>
  BY <1>2, StepNames
<1>3. CASE p = <<"find", "getOrigin", "setOriginTo">>
  BY <1>3, StepNames
<1>4. CASE p = <<"find", "getOrigin">>
  BY <1>4, StepNames
<1>5. CASE p = <<"create", "getOrigin">>
  BY <1>5, StepNames
<1>6. CASE p = <<"find", "fetch">>
  BY <1>6, StepNames
<1>7. CASE p = <<"find", "fetch", "commit", "push">>
  BY <1>7, StepNames
<1>8. CASE p = <<"exists", "find", "branches">>
  BY <1>8, StepNames
<1>9. CASE p = <<"exists", "find", "show">>
  BY <1>9, StepNames
<1> QED
  BY <1>1, <1>2, <1>3, <1>4, <1>5, <1>6, <1>7, <1>8, <1>9

\* The git processes of each step, through the messages of the clone.
LEMMA ProcessesOfSteps ==
  /\ Processes("exists") = {} /\ Processes("find") = {} /\ Processes("show") = {"show"}
  /\ \A s \in Step \ {"show"} : "show" \notin Processes(s)
<1>1. \A m \in {"Commit", "Init", "GetConfig", "Fetch", "Push", "GetRefs", "ShowFile"} :
        Dispatched(m) = Runs(m)
  BY DEF Dispatched, Sends
<1>2. Processes("show") = {"show"}
  BY <1>1 DEF Processes, Operation, MessageFor, Runs, ShowFileRuns
<1>3. "show" \notin Dispatched("Connect")
  BY DEF Dispatched, Sends, Runs, SetOriginRuns, ValidateRemoteRuns
<1>4. ASSUME NEW s \in Operation \ {"show"} PROVE "show" \notin Processes(s)
  <2>1. CASE s = "setOriginTo"
    BY <1>3, <2>1 DEF Processes, Operation, JobName, MessageFor
  <2>2. CASE s # "setOriginTo"
    <3>1. MessageFor(s) \in {"Commit", "Init", "GetConfig", "Fetch", "Push", "GetRefs"}
      BY <1>4, <2>2 DEF Operation, JobName, MessageFor
    <3>2. Processes(s) = Runs(MessageFor(s))
      BY <1>1, <3>1 DEF Processes
    <3> QED
      BY <3>1, <3>2 DEF Runs, CommitRuns, FetchRuns, GetConfigRuns, InitRuns, PushRuns,
                        GetRefsRuns
  <2> QED
    BY <2>1, <2>2
<1>5. ASSUME NEW s \in Step \ Operation PROVE Processes(s) = {}
  BY <1>5 DEF Processes
<1>6. Processes("exists") = {} /\ Processes("find") = {}
  BY DEF Processes, Operation, JobName
<1> QED
  BY <1>2, <1>4, <1>5, <1>6 DEF Step

\* Every failure is of a known class, and of the queue's classes in a job.
LEMMA FailuresAreErrors ==
  ASSUME NEW s \in Step, NEW f \in Failures(s)
  PROVE  /\ f.error \in Error \cup {"nothing"}
         /\ s \in JobName => f.error \in Error
         /\ ResultOf(s, f.error) \in Error \cup {"nothing"}
         /\ f # NoFailure
<1>1. CASE \E p \in Processes(s) : \E said \in SUBSET MaySay(p) :
             f = [process |-> p, stderr |-> said, error |-> Raised(p, said)]
  <2>1. PICK p \in Processes(s) : \E said \in SUBSET MaySay(p) :
             f = [process |-> p, stderr |-> said, error |-> Raised(p, said)]
    BY <1>1
  <2>2. PICK said \in SUBSET MaySay(p) :
             f = [process |-> p, stderr |-> said, error |-> Raised(p, said)]
    BY <2>1
  <2>3. Raised(p, said) \in Error
    BY DEF Raised, RemoteErrorFor, ErrorFor, Error
  <2> QED
    BY <2>2, <2>3 DEF ResultOf, NoFailure, Error
<1>2. CASE \E e \in Thrown(s) : f = [process |-> "none", stderr |-> {}, error |-> e]
  <2>1. PICK e \in Thrown(s) : f = [process |-> "none", stderr |-> {}, error |-> e]
    BY <1>2
  <2>2. /\ e \in Error \cup {"nothing"}
        /\ s \in JobName => e \in Error
    BY StepNames DEF Thrown, Error
  <2> QED
    BY <2>1, <2>2 DEF ResultOf, NoFailure, Error
<1> QED
  BY <1>1, <1>2 DEF Failures

\* What a request hears of its job is of a known class, and so is every status.
LEMMA DeserializedErrors == \A e : Deserialized(e) \in Error
BY DEF Deserialized, Error

LEMMA StatusIsKnown == \A r, x : StatusFor(r, x) \in Status
BY DEF StatusFor, SuccessStatus, QueryStatus, ErrorStatus, UnhandledStatus, Status

LEMMA Jobs ==
  /\ \A q \in Request, s \in JobName : JobFor(q, s) \in Job
  /\ \A n \in 1..MaxStarts : Ping(n) \in Job
  /\ NoJob \notin Job
  /\ \A j \in Job : \/ j.name = "ping" /\ j.for \in 1..MaxStarts /\ j = Ping(j.for)
                    \/ j.name \in JobName /\ j.for \in Request /\ j = JobFor(j.for, j.name)
BY NoJobIsNoJob, StepNames DEF Job, JobFor, Ping

----------------------------------------------------------------------------
(***************************************************************************)
(* Types                                                                   *)
(***************************************************************************)
\* What TypeOK leaves open: the variables of a request also where they are not looked at.
Types ==
  /\ TypeOK
  /\ plan \in [Request -> Seq(Step)]
  /\ at \in [Request -> Nat]
  /\ \A q \in Request : phase[q] = "idle" => at[q] = 1

LEMMA TypesStart == ASSUME Types, Start PROVE Types'
BY Jobs, MaxStartsIsANumber DEF Types, TypeOK, Start, request_vars, workers, StepOf

LEMMA TypesPong == ASSUME Types, Pong PROVE Types'
BY DEF Types, TypeOK, Pong, request_vars, workers, StepOf

LEMMA TypesPingTimesOut == ASSUME Types, PingTimesOut PROVE Types'
BY DEF Types, TypeOK, PingTimesOut, request_vars, workers, StepOf

LEMMA TypesServerDies == ASSUME Types, ServerDies PROVE Types'
BY DEF Types, TypeOK, ServerDies, request_vars, workers, StepOf, Open, Phase

LEMMA TypesReceive == ASSUME Types, NEW q \in Request, Receive(q) PROVE Types'
<1>1. /\ phase[q] = "idle"
      /\ phase' = [phase EXCEPT ![q] = "running"]
      /\ UNCHANGED <<server, starts, vouched, at, result, status, queue, ended, up, job, lost>>
  BY DEF Receive, server_vars, redis, workers
<1>2. PICK r \in Route : \E p \in Plans(r) : /\ route' = [route EXCEPT ![q] = r]
                                             /\ plan' = [plan EXCEPT ![q] = p]
  BY DEF Receive
<1>3. PICK p \in Plans(r) : plan' = [plan EXCEPT ![q] = p]
  BY <1>2
<1>4. p \in Seq(Step) /\ Len(p) \in Nat \ {0}
  BY <1>3, PlansAreSequencesOfSteps
<1>5. ASSUME NEW x \in Request, phase'[x] \notin {"idle", "answered"}
      PROVE  plan'[x] \in Plans(route'[x]) /\ at'[x] \in 1..Len(plan'[x])
  <2>1. CASE x = q
    BY <2>1, <1>1, <1>2, <1>3, <1>4 DEF Types, TypeOK
  <2>2. CASE x # q
    BY <2>2, <1>1, <1>2, <1>3, <1>5 DEF Types, TypeOK
  <2> QED
    BY <2>1, <2>2
<1>6. ASSUME NEW x \in Request, phase'[x] = "waiting" PROVE StepOf(x)' \in JobName
  BY <1>1, <1>3, <1>6 DEF Types, TypeOK, StepOf
<1>7. phase' \in [Request -> Phase] /\ route' \in [Request -> Route]
  BY <1>1, <1>2 DEF Types, TypeOK, Phase
<1>8. /\ plan' \in [Request -> Seq(Step)]
      /\ \A x \in Request : phase'[x] = "idle" => at'[x] = 1
  BY <1>1, <1>3, <1>4 DEF Types, TypeOK
<1> QED
  BY <1>1, <1>5, <1>6, <1>7, <1>8 DEF Types, TypeOK

LEMMA StepOfIsAStep ==
  ASSUME Types, NEW q \in Request, phase[q] \notin {"idle", "answered"}
  PROVE  StepOf(q) \in Step /\ plan[q] \in Plans(route[q]) /\ at[q] \in 1..Len(plan[q])
BY DEF Types, TypeOK, StepOf

LEMMA TypesSucceed ==
  ASSUME Types, NEW q \in Request, phase[q] \in {"running", "waiting"}, Succeed(q),
         UNCHANGED <<server_vars, queue, workers, lost>>, ended' \subseteq ended
  PROVE  Types'
<1>1. plan[q] \in Plans(route[q]) /\ at[q] \in 1..Len(plan[q]) /\ Len(plan[q]) \in Nat
  <2>1. plan[q] \in Seq(Step)
    BY DEF Types
  <2>2. plan[q] \in Plans(route[q]) /\ at[q] \in 1..Len(plan[q])
    BY DEF TypeOK, Types
  <2> QED
    BY <2>1, <2>2
<1>2. /\ \/ /\ at[q] < Len(plan[q])
            /\ at' = [at EXCEPT ![q] = @ + 1]
            /\ phase' = [phase EXCEPT ![q] = "running"]
            /\ result' = result
         \/ /\ at' = at
            /\ phase' = [phase EXCEPT ![q] = "answering"]
            /\ result' = [result EXCEPT ![q] = "ok"]
      /\ UNCHANGED <<server, starts, vouched, route, plan, status, queue, up, job, lost>>
  BY DEF Succeed, server_vars, workers
<1>3. ASSUME NEW x \in Request, phase'[x] \notin {"idle", "answered"}
      PROVE  plan'[x] \in Plans(route'[x]) /\ at'[x] \in 1..Len(plan'[x])
  <2>1. CASE x = q
    BY <2>1, <1>1, <1>2 DEF Types, TypeOK
  <2>2. CASE x # q
    BY <2>2, <1>2, <1>3 DEF Types, TypeOK
  <2> QED
    BY <2>1, <2>2
<1>4. ASSUME NEW x \in Request, phase'[x] = "waiting" PROVE StepOf(x)' \in JobName
  <2>1. x # q /\ phase[x] = "waiting"
    BY <1>2, <1>4 DEF Types, TypeOK
  <2> QED
    BY <2>1, <1>2 DEF Types, TypeOK, StepOf
<1>5. at' \in [Request -> Nat] /\ \A x \in Request : phase'[x] = "idle" => at'[x] = 1
  <2>1. at' \in [Request -> Nat]
    <3>1. at' = at \/ at' = [at EXCEPT ![q] = at[q] + 1]
      BY <1>2
    <3>2. at \in [Request -> Nat] /\ at[q] + 1 \in Nat
      BY DEF Types
    <3> QED
      BY <3>1, <3>2
  <2>2. phase \in [Request -> Phase]
    BY DEF Types, TypeOK
  <2>3. ASSUME NEW x \in Request, phase'[x] = "idle" PROVE at'[x] = 1
    <3>1. x # q /\ phase[x] = "idle"
      BY <1>2, <2>2, <2>3
    <3> QED
      BY <1>2, <3>1 DEF Types
  <2> QED
    BY <2>1, <2>3
<1>6. phase' \in [Request -> Phase] /\ result' \in [Request -> Error \cup {"none", "ok", "nothing"}]
  BY <1>2 DEF Types, TypeOK, Phase
<1> QED
  BY <1>2, <1>3, <1>4, <1>5, <1>6 DEF Types, TypeOK

LEMMA TypesFail ==
  ASSUME Types, NEW q \in Request, phase[q] \in {"running", "waiting"},
         NEW x \in Error \cup {"nothing"}, Fail(q, x),
         UNCHANGED <<server_vars, queue, workers, lost>>, ended' \subseteq ended
  PROVE  Types'
BY DEF Types, TypeOK, Fail, server_vars, workers, StepOf, Phase

LEMMA TypesRefuseBody == ASSUME Types, NEW q \in Request, RefuseBody(q) PROVE Types'
<1>1. UnhandledStatus("BadRequest") \in Status
  BY DEF UnhandledStatus, Status
<1>2. /\ phase[q] = "idle" /\ phase' = [phase EXCEPT ![q] = "answered"]
      /\ status' = [status EXCEPT ![q] = UnhandledStatus("BadRequest")]
      /\ UNCHANGED <<server, starts, vouched, route, plan, at, result, queue, ended, up, job,
                     lost>>
  BY DEF RefuseBody, server_vars, redis, workers
<1> QED
  BY <1>1, <1>2 DEF Types, TypeOK, Phase, StepOf

LEMMA TypesTakeStep == ASSUME Types, NEW q \in Request, TakeStep(q) PROVE Types'
<1> phase[q] = "running" /\ UNCHANGED <<server_vars, redis, workers, lost>>
  BY DEF TakeStep
<1> UNCHANGED <<server_vars, queue, workers, lost>> /\ ended' \subseteq ended
  BY DEF redis
<1>1. CASE Succeed(q)
  BY <1>1, TypesSucceed
<1>2. CASE \E f \in Failures(StepOf(q)) : Fail(q, ResultOf(StepOf(q), f.error))
  BY <1>2, StepOfIsAStep, FailuresAreErrors, TypesFail
<1> QED
  BY <1>1, <1>2 DEF TakeStep

LEMMA TypesAddJob == ASSUME Types, NEW q \in Request, AddJob(q) PROVE Types'
<1>1. JobOf(q) \in Job /\ StepOf(q) \in JobName
  BY Jobs DEF AddJob, JobOf
<1>2. /\ phase[q] = "running"
      /\ phase' = [phase EXCEPT ![q] = "waiting"]
      /\ queue' = Append(queue, JobOf(q))
      /\ UNCHANGED <<server, starts, vouched, route, plan, at, result, status, ended, up,
                     job, lost>>
  BY DEF AddJob, server_vars, workers
<1>3. queue' \in Seq(Job)
  BY <1>1, <1>2 DEF Types, TypeOK
<1>4. ASSUME NEW x \in Request, phase'[x] = "waiting" PROVE StepOf(x)' \in JobName
  BY <1>1, <1>2, <1>4 DEF Types, TypeOK, StepOf
<1>5. /\ phase' \in [Request -> Phase]
      /\ \A x \in Request : phase'[x] = phase[x] \/ x = q
      /\ phase'[q] = "waiting"
  BY <1>2 DEF Types, TypeOK, Phase
<1> QED
  BY <1>2, <1>3, <1>4, <1>5 DEF Types, TypeOK

LEMMA TypesAddJobFails == ASSUME Types, NEW q \in Request, AddJobFails(q) PROVE Types'
BY TypesFail DEF AddJobFails, redis, Error

LEMMA TypesStopHearing == ASSUME Types, NEW q \in Request, StopHearing(q) PROVE Types'
BY DEF Types, TypeOK, StopHearing, server_vars, request_vars, redis, workers, StepOf

LEMMA TypesWhenFinished == ASSUME Types, NEW q \in Request, WhenFinished(q) PROVE Types'
<1> PICK e \in ended :
       /\ ended' = ended \ {e}
       /\ IF e.error = Serialized("none") THEN Succeed(q) ELSE Fail(q, Deserialized(e.error))
  BY DEF WhenFinished
<1> phase[q] = "waiting" /\ UNCHANGED <<server_vars, queue, workers, lost>>
  BY DEF WhenFinished
<1>1. CASE Succeed(q)
  BY <1>1, TypesSucceed
<1>2. CASE Fail(q, Deserialized(e.error))
  BY <1>2, DeserializedErrors, TypesFail
<1> QED
  BY <1>1, <1>2

LEMMA TypesClean == ASSUME Types, NEW q \in Request, Clean(q) PROVE Types'
BY DEF Types, TypeOK, Clean, server_vars, redis, workers, StepOf, Phase, Error

LEMMA TypesAnswer == ASSUME Types, NEW q \in Request, Answer(q) PROVE Types'
<1>1. StatusFor(route[q], result[q]) \in Status
  BY StatusIsKnown
<1>2. /\ phase[q] = "answering"
      /\ phase' = [phase EXCEPT ![q] = "answered"]
      /\ status' = [status EXCEPT ![q] = StatusFor(route[q], result[q])]
      /\ route' = [route EXCEPT ![q] = "getRepo"]
      /\ plan' = [plan EXCEPT ![q] = <<>>]
      /\ at' = [at EXCEPT ![q] = 1]
      /\ result' = [result EXCEPT ![q] = "none"]
      /\ UNCHANGED <<server, starts, vouched, queue, ended, up, job, lost>>
  BY DEF Answer, server_vars, redis, workers
<1>3. /\ phase' \in [Request -> Phase]
      /\ plan' \in [Request -> Seq(Step)]
      /\ at' \in [Request -> Nat]
      /\ result' \in [Request -> Error \cup {"none", "ok", "nothing"}]
      /\ status' \in [Request -> Status \cup {0}]
      /\ route' \in [Request -> Route]
  <2>1. phase' \in [Request -> Phase] /\ at' \in [Request -> Nat]
    BY <1>2 DEF Types, TypeOK, Phase
  <2>2. <<>> \in Seq(Step)
    OBVIOUS
  <2>3. plan' \in [Request -> Seq(Step)]
    BY <1>2, <2>2 DEF Types
  <2>4. result' \in [Request -> Error \cup {"none", "ok", "nothing"}]
    BY <1>2 DEF Types, TypeOK
  <2>5. status' \in [Request -> Status \cup {0}]
    BY <1>1, <1>2 DEF Types, TypeOK
  <2>6. route' \in [Request -> Route]
    BY <1>2 DEF Types, TypeOK, Route
  <2> QED
    BY <2>1, <2>3, <2>4, <2>5, <2>6
<1>4. \A x \in Request : \/ phase'[x] = "answered" /\ at'[x] = 1
                         \/ /\ phase'[x] = phase[x] /\ route'[x] = route[x]
                            /\ plan'[x] = plan[x] /\ at'[x] = at[x]
  BY <1>2 DEF Types, TypeOK
<1>5. ASSUME NEW x \in Request, phase'[x] = "waiting" PROVE StepOf(x)' \in JobName
  BY <1>4, <1>5 DEF Types, TypeOK, StepOf
<1> QED
  BY <1>2, <1>3, <1>4, <1>5 DEF Types, TypeOK

LEMMA TypesStartWorker == ASSUME Types, NEW w \in Worker, StartWorker(w) PROVE Types'
BY DEF Types, TypeOK, StartWorker, request_vars, redis, StepOf

LEMMA TypesWorkerDies == ASSUME Types, NEW w \in Worker, WorkerDies(w) PROVE Types'
BY DEF Types, TypeOK, WorkerDies, server_vars, request_vars, redis, StepOf

LEMMA TypesTakeJob == ASSUME Types, NEW w \in Worker, TakeJob(w) PROVE Types'
BY DEF Types, TypeOK, TakeJob, server_vars, request_vars, StepOf

LEMMA TypesEndJob == ASSUME Types, NEW w \in Worker, EndJob(w) PROVE Types'
<1>1. job[w] \in Job /\ job' = [job EXCEPT ![w] = NoJob]
  BY DEF Types, TypeOK, EndJob
<1>2. PICK f \in Failures(job[w].name) \cup {NoFailure} :
       /\ job[w].name = "ping" => f = NoFailure
       /\ Report(job[w], f)
  BY DEF EndJob
<1>3. f.error \in Error \cup {"none"}
  BY <1>1, <1>2, Jobs, StepNames, FailuresAreErrors DEF NoFailure
<1>4. \A e \in ended' : e \in ended \/ e = [job |-> job[w], error |-> [type |-> f.error]]
  BY <1>2 DEF Report, Serialized
<1>5. \A e \in ended' : e.job \in Job /\ e.error.type \in Error \cup {"none"}
  BY <1>1, <1>3, <1>4 DEF Types, TypeOK
<1> QED
  BY <1>1, <1>5 DEF Types, TypeOK, EndJob, server_vars, request_vars, StepOf

LEMMA TypesInit == Init => Types
<1> SUFFICES ASSUME Init PROVE Types
  OBVIOUS
<1>1. /\ plan \in [Request -> Seq(Step)] /\ at \in [Request -> Nat]
      /\ queue \in Seq(Job)
      /\ \A q \in Request : phase[q] = "idle" /\ at[q] = 1
  <2>1. <<>> \in Seq(Step) /\ <<>> \in Seq(Job)
    OBVIOUS
  <2> QED
    BY <2>1 DEF Init
<1>2. /\ server \in {"down", "pinging", "serving"} /\ starts \in 0..MaxStarts
      /\ vouched \in BOOLEAN /\ ended = {} /\ lost = {}
      /\ up \in [Worker -> BOOLEAN]
      /\ job \in [Worker -> Job \cup {NoJob}] /\ \A w \in Worker : job[w] = NoJob
  <2>1. starts \in 0..MaxStarts
    <3>1. starts = 0
      BY DEF Init
    <3> QED
      BY <3>1, MaxStartsIsANumber
  <2>2. job \in [Worker -> Job \cup {NoJob}] /\ \A w \in Worker : job[w] = NoJob
    BY DEF Init
  <2> QED
    BY <2>1, <2>2 DEF Init
<1>3. /\ phase \in [Request -> Phase] /\ route \in [Request -> Route]
      /\ result \in [Request -> Error \cup {"none", "ok", "nothing"}]
      /\ status \in [Request -> Status \cup {0}]
  BY DEF Init, Phase, Route
<1> QED
  BY <1>1, <1>2, <1>3 DEF Types, TypeOK

LEMMA TypesNext == Types /\ [Next]_vars => Types'
<1> SUFFICES ASSUME Types, [Next]_vars PROVE Types'
  OBVIOUS
<1>1. CASE Start \/ Pong \/ PingTimesOut \/ ServerDies
  BY <1>1, TypesStart, TypesPong, TypesPingTimesOut, TypesServerDies
<1>2. CASE \E q \in Request : Receive(q) \/ RefuseBody(q) \/ RequestSteps(q) \/ StopHearing(q)
  BY <1>2, TypesReceive, TypesRefuseBody, TypesTakeStep, TypesAddJob, TypesAddJobFails,
     TypesWhenFinished, TypesClean, TypesAnswer, TypesStopHearing DEF RequestSteps
<1>3. CASE \E w \in Worker : StartWorker(w) \/ WorkerDies(w) \/ WorkerSteps(w)
  BY <1>3, TypesStartWorker, TypesWorkerDies, TypesTakeJob, TypesEndJob DEF WorkerSteps
<1>4. CASE UNCHANGED vars
  BY <1>4
  DEF vars, server_vars, request_vars, redis, workers, Types, TypeOK, StepOf
<1> QED
  BY <1>1, <1>2, <1>3, <1>4 DEF Next

\* The types hold, whatever dies and when.
THEOREM TypesHold == Spec => [](Types)
BY TypesInit, TypesNext, PTL DEF Spec

\* TypeOK is an invariant of JobQueue: a request that is under way has a plan of its
\* route and stands at a step of it, it waits only in a step that is a job, and only
\* a worker that runs has a job.
THEOREM TypeCorrect == Spec => []TypeOK
<1>1. Types => TypeOK
  BY DEF Types
<1> QED
  BY <1>1, TypesHold, PTL

----------------------------------------------------------------------------
(***************************************************************************)
(* The server and the workers                                              *)
(***************************************************************************)
\* What vouches for a worker: a process that runs, the answer to a ping, that the server
\* serves.  Nobody asks for what has ended when no server runs, and a server serves as
\* long as it has requests.
Vouch ==
  /\ \A w \in Worker : up[w] => vouched
  /\ \A e \in ended : vouched
  /\ server = "serving" => vouched
  /\ server = "down" => ended = {}
  /\ \A q \in Request : Open(q) => server = "serving"

LEMMA VouchServer ==
  ASSUME Types, Vouch, Start \/ Pong \/ PingTimesOut \/ ServerDies
  PROVE  Vouch'
<1>1. CASE Start
  BY <1>1 DEF Types, TypeOK, Vouch, Start, request_vars, workers, Open
<1>2. CASE Pong
  BY <1>2 DEF Vouch, Pong, request_vars, workers, Open
<1>3. CASE PingTimesOut
  BY <1>3 DEF Vouch, PingTimesOut, request_vars, workers, Open
<1>4. CASE ServerDies
  BY <1>4 DEF Types, TypeOK, Vouch, ServerDies, workers, Open
<1> QED
  BY <1>1, <1>2, <1>3, <1>4

\* A request only goes on in a server that serves it.
LEMMA VouchRequest ==
  ASSUME Types, Vouch, NEW q \in Request,
         Receive(q) \/ RefuseBody(q) \/ RequestSteps(q) \/ StopHearing(q)
  PROVE  Vouch'
<1>1. /\ UNCHANGED <<server, vouched, up>> /\ ended' \subseteq ended
      /\ server = "serving"
      /\ \A x \in Request \ {q} : phase'[x] = phase[x]
  <2>1. CASE Receive(q)
    BY <2>1 DEF Types, TypeOK, Receive, server_vars, redis, workers
  <2>2. CASE TakeStep(q)
    BY <2>2 DEF Types, TypeOK, Vouch, TakeStep, Succeed, Fail, server_vars, redis, workers, Open
  <2>3. CASE AddJob(q)
    BY <2>3 DEF Types, TypeOK, Vouch, AddJob, server_vars, workers, Open
  <2>4. CASE WhenFinished(q)
    BY <2>4 DEF Types, TypeOK, Vouch, WhenFinished, Succeed, Fail, server_vars, workers, Open
  <2>5. CASE Clean(q)
    BY <2>5 DEF Types, TypeOK, Vouch, Clean, server_vars, redis, workers, Open
  <2>6. CASE Answer(q)
    BY <2>6 DEF Types, TypeOK, Vouch, Answer, server_vars, redis, workers, Open
  <2>7. CASE RefuseBody(q)
    BY <2>7 DEF Types, TypeOK, RefuseBody, server_vars, redis, workers
  <2>8. CASE AddJobFails(q)
    BY <2>8 DEF Types, TypeOK, Vouch, AddJobFails, Fail, server_vars, redis, workers, Open
  <2>9. CASE StopHearing(q)
    BY <2>9
    DEF Types, TypeOK, Vouch, StopHearing, server_vars, request_vars, redis, workers, Open
  <2> QED
    BY <2>1, <2>2, <2>3, <2>4, <2>5, <2>6, <2>7, <2>8, <2>9 DEF RequestSteps
<1> QED
  BY <1>1 DEF Vouch, Open

LEMMA VouchWorker ==
  ASSUME Types, Vouch, NEW w \in Worker,
         StartWorker(w) \/ WorkerDies(w) \/ WorkerSteps(w)
  PROVE  Vouch'
<1>1. CASE StartWorker(w)
  BY <1>1 DEF Types, TypeOK, Vouch, StartWorker, request_vars, redis, Open
<1>2. CASE WorkerDies(w)
  BY <1>2 DEF Types, TypeOK, Vouch, WorkerDies, server_vars, request_vars, redis, Open
<1>3. CASE TakeJob(w)
  BY <1>3 DEF Vouch, TakeJob, server_vars, request_vars, Open
<1>4. CASE EndJob(w)
  <2>1. vouched /\ UNCHANGED <<server, vouched, phase, up>>
    BY <1>4 DEF Types, TypeOK, Vouch, EndJob, server_vars, request_vars
  <2>2. server = "down" => ended' = {}
    <3>1. server = "down" => ~IsAwaited(job[w])
      BY DEF Vouch, IsAwaited, Open
    <3> QED
      BY <1>4, <3>1 DEF EndJob, Report, Vouch
  <2> QED
    BY <2>1, <2>2 DEF Vouch, Open
<1> QED
  BY <1>1, <1>2, <1>3, <1>4 DEF WorkerSteps

LEMMA VouchNext == Types /\ Vouch /\ [Next]_vars => Vouch'
<1> SUFFICES ASSUME Types, Vouch, [Next]_vars PROVE Vouch'
  OBVIOUS
<1>1. CASE UNCHANGED vars
  BY <1>1 DEF vars, server_vars, request_vars, redis, workers, Vouch, Open
<1> QED
  BY <1>1, VouchServer, VouchRequest, VouchWorker DEF Next

\* ServesOnlyBesideAWorker is an invariant of JobQueue: no ping that an earlier server
\* process left in the queue, and no worker that ran only before, ever lets a server
\* process serve.
THEOREM ServesBesideAWorker == Spec => []ServesOnlyBesideAWorker
<1>1. Init => Vouch
  BY DEF Init, Vouch, Open
<1>2. Vouch => ServesOnlyBesideAWorker
  BY DEF Vouch, ServesOnlyBesideAWorker
<1> QED
  BY <1>1, <1>2, TypesHold, VouchNext, PTL DEF Spec

----------------------------------------------------------------------------
(***************************************************************************)
(* Where a request's job is                                                *)
(***************************************************************************)
IsARequests(j) == j.name \in JobName
IsOf(j, x) == phase[x] \in {"waiting", "cutOff"} /\ j = JobOf(x)

\* What is in the queue or at a worker is the job that its request came to, ...
QueueIsOfRequests == \A i \in 1..Len(queue) :
  IsARequests(queue[i]) => IsOf(queue[i], queue[i].for)
WorkersAreOfRequests == \A w \in Worker :
  job[w] # NoJob /\ IsARequests(job[w]) => IsOf(job[w], job[w].for)

\* ... what has ended is awaited still, ...
EndedIsAwaited == \A e \in ended :
  IsARequests(e.job) => phase[e.job.for] = "waiting" /\ e.job = JobOf(e.job.for)

\* ... and each is in one place, once.
OncePerPlace ==
  /\ \A i, k \in 1..Len(queue) : IsARequests(queue[i]) /\ queue[i] = queue[k] => i = k
  /\ \A v, w \in Worker : job[v] # NoJob /\ IsARequests(job[v]) /\ job[v] = job[w] => v = w
  /\ \A e, f \in ended : IsARequests(e.job) /\ e.job = f.job => e = f
InOnePlace ==
  /\ \A i \in 1..Len(queue), w \in Worker : IsARequests(queue[i]) => queue[i] # job[w]
  /\ \A e \in ended, i \in 1..Len(queue) : IsARequests(e.job) => queue[i] # e.job
  /\ \A e \in ended, w \in Worker : IsARequests(e.job) => job[w] # e.job

OneJob == /\ QueueIsOfRequests /\ WorkersAreOfRequests /\ EndedIsAwaited
          /\ OncePerPlace /\ InOnePlace

\* A request without a job anywhere may move as it likes.
LEMMA OneJobFreeMove ==
  ASSUME Types, OneJob, NEW q \in Request,
         UNCHANGED <<queue, job>>, ended' \subseteq ended,
         \A i \in 1..Len(queue) : IsARequests(queue[i]) => queue[i].for # q,
         \A w \in Worker : job[w] # NoJob /\ IsARequests(job[w]) => job[w].for # q,
         \A e \in ended' : IsARequests(e.job) => e.job.for # q,
         \A x \in Request \ {q} : /\ phase'[x] = phase[x]
                                  /\ plan'[x] = plan[x] /\ at'[x] = at[x]
  PROVE  OneJob'
<1>1. \A x \in Request \ {q} : \A j : IsOf(j, x) => IsOf(j, x)'
  BY DEF IsOf, JobOf, StepOf
<1>2. \A j \in Job : IsARequests(j) => j.for \in Request
  BY Jobs, StepNames DEF IsARequests
<1>3. QueueIsOfRequests'
  <2> SUFFICES ASSUME NEW i \in 1..Len(queue), IsARequests(queue[i])
               PROVE  IsOf(queue[i], queue[i].for)'
    BY DEF QueueIsOfRequests, IsARequests
  <2>1. queue[i] \in Job
    BY DEF Types, TypeOK
  <2>2. queue[i].for \in Request \ {q} /\ IsOf(queue[i], queue[i].for)
    BY <1>2, <2>1 DEF OneJob, QueueIsOfRequests
  <2> QED
    BY <1>1, <2>2
<1>4. WorkersAreOfRequests'
  <2> SUFFICES ASSUME NEW w \in Worker, job[w] # NoJob, IsARequests(job[w])
               PROVE  IsOf(job[w], job[w].for)'
    BY DEF WorkersAreOfRequests, IsARequests
  <2>1. job[w] \in Job
    BY DEF Types, TypeOK
  <2>2. job[w].for \in Request \ {q} /\ IsOf(job[w], job[w].for)
    BY <1>2, <2>1 DEF OneJob, WorkersAreOfRequests
  <2> QED
    BY <1>1, <2>2
<1>5. EndedIsAwaited'
  <2> SUFFICES ASSUME NEW e \in ended', IsARequests(e.job)
               PROVE  phase'[e.job.for] = "waiting" /\ e.job = JobOf(e.job.for)'
    BY DEF EndedIsAwaited, IsARequests
  <2>1. e.job \in Job /\ e \in ended
    BY DEF Types, TypeOK
  <2>2. e.job.for \in Request \ {q} /\ phase[e.job.for] = "waiting" /\ e.job = JobOf(e.job.for)
    BY <1>2, <2>1 DEF OneJob, EndedIsAwaited
  <2> QED
    BY <2>2 DEF JobOf, StepOf
<1>6. OncePerPlace' /\ InOnePlace'
  BY DEF OneJob, OncePerPlace, InOnePlace, IsARequests
<1> QED
  BY <1>3, <1>4, <1>5, <1>6 DEF OneJob

LEMMA OneJobRequest ==
  ASSUME Types, OneJob, NEW q \in Request,
         \/ Receive(q) \/ RefuseBody(q) \/ TakeStep(q) \/ AddJobFails(q)
         \/ Clean(q) \/ Answer(q)
  PROVE  OneJob'
<1>1. /\ phase[q] \notin {"waiting", "cutOff"}
      /\ UNCHANGED <<queue, job, ended>>
      /\ \A x \in Request \ {q} : /\ phase'[x] = phase[x]
                                  /\ plan'[x] = plan[x] /\ at'[x] = at[x]
  <2>1. CASE Receive(q)
    BY <2>1 DEF Types, TypeOK, Receive, redis, workers
  <2>2. CASE TakeStep(q)
    BY <2>2 DEF Types, TypeOK, TakeStep, Succeed, Fail, redis, workers
  <2>3. CASE Clean(q)
    BY <2>3 DEF Types, TypeOK, Clean, redis, workers
  <2>4. CASE Answer(q)
    BY <2>4 DEF Types, TypeOK, Answer, redis, workers
  <2>5. CASE RefuseBody(q)
    BY <2>5 DEF Types, TypeOK, RefuseBody, redis, workers
  <2>6. CASE AddJobFails(q)
    BY <2>6 DEF Types, TypeOK, AddJobFails, Fail, redis, workers
  <2> QED
    BY <2>1, <2>2, <2>3, <2>4, <2>5, <2>6
<1>2. /\ \A i \in 1..Len(queue) : IsARequests(queue[i]) => queue[i].for # q
      /\ \A w \in Worker : job[w] # NoJob /\ IsARequests(job[w]) => job[w].for # q
      /\ \A e \in ended' : IsARequests(e.job) => e.job.for # q
  BY <1>1 DEF OneJob, QueueIsOfRequests, WorkersAreOfRequests, EndedIsAwaited, IsOf
<1> QED
  BY <1>1, <1>2, OneJobFreeMove

\* The job that a request hears of is nowhere else, and heard of once.
LEMMA OneJobWhenFinished ==
  ASSUME Types, OneJob, NEW q \in Request, WhenFinished(q)
  PROVE  OneJob'
<1>1. PICK e \in ended : e.job = JobOf(q) /\ ended' = ended \ {e}
  BY DEF WhenFinished
<1>2. /\ phase[q] = "waiting"
      /\ UNCHANGED <<queue, job>>
      /\ \A x \in Request \ {q} : /\ phase'[x] = phase[x]
                                  /\ plan'[x] = plan[x] /\ at'[x] = at[x]
  BY DEF Types, TypeOK, WhenFinished, Succeed, Fail, workers
<1>3. IsARequests(e.job)
  BY <1>1, <1>2 DEF Types, TypeOK, JobOf, JobFor, IsARequests
<1>4. \A i \in 1..Len(queue) : IsARequests(queue[i]) => queue[i].for # q
  BY <1>1, <1>3 DEF OneJob, QueueIsOfRequests, IsOf, InOnePlace
<1>5. \A w \in Worker : job[w] # NoJob /\ IsARequests(job[w]) => job[w].for # q
  BY <1>1, <1>3 DEF OneJob, WorkersAreOfRequests, IsOf, InOnePlace
<1>6. \A f \in ended' : IsARequests(f.job) => f.job.for # q
  BY <1>1, <1>3 DEF OneJob, EndedIsAwaited, OncePerPlace
<1> QED
  BY <1>1, <1>2, <1>4, <1>5, <1>6, OneJobFreeMove

\* A job stays its request's when no request that waits, or waited, moves.
LEMMA StillOfRequests ==
  ASSUME Types, OneJob, \A x \in Request : \A k : IsOf(k, x) => IsOf(k, x)'
  PROVE  \A k \in Job : /\ IsARequests(k)
                        /\ \/ \E i \in 1..Len(queue) : queue[i] = k
                           \/ \E w \in Worker : job[w] = k
                        => IsOf(k, k.for)'
<1> SUFFICES ASSUME NEW k \in Job, IsARequests(k),
                    \/ \E i \in 1..Len(queue) : queue[i] = k
                    \/ \E w \in Worker : job[w] = k
             PROVE  IsOf(k, k.for)'
  OBVIOUS
<1>1. k.for \in Request /\ k # NoJob
  BY Jobs, StepNames DEF IsARequests
<1>2. IsOf(k, k.for)
  BY <1>1 DEF OneJob, QueueIsOfRequests, WorkersAreOfRequests
<1> QED
  BY <1>1, <1>2

\* What joins the queue is new there, if it is a request's.
LEMMA OneJobAppend ==
  ASSUME Types, OneJob, NEW j \in Job, queue' = Append(queue, j),
         IsARequests(j) => /\ IsOf(j, j.for)'
                           /\ \A i \in 1..Len(queue) : queue[i] # j
                           /\ \A w \in Worker : job[w] # j
                           /\ \A e \in ended : e.job # j,
         \A x \in Request : \A k : IsOf(k, x) => IsOf(k, x)',
         UNCHANGED <<job, ended>>, EndedIsAwaited'
  PROVE  OneJob'
<1>1. /\ Len(queue) \in Nat /\ Len(queue') = Len(queue) + 1
      /\ \A i \in 1..Len(queue) : queue'[i] = queue[i] /\ queue[i] \in Job
      /\ queue'[Len(queue) + 1] = j
  BY DEF Types, TypeOK
<1>2. \A i \in 1..Len(queue') : i \in 1..Len(queue) \/ i = Len(queue) + 1
  BY <1>1
<1>3. QueueIsOfRequests'
  <2> SUFFICES ASSUME NEW i \in 1..Len(queue'), NEW k, k = queue'[i], IsARequests(k)
               PROVE  IsOf(k, k.for)'
    BY DEF QueueIsOfRequests, IsARequests
  <2>1. CASE i \in 1..Len(queue)
    BY <2>1, <1>1, StillOfRequests
  <2>2. CASE i = Len(queue) + 1
    BY <2>2, <1>1
  <2> QED
    BY <1>2, <2>1, <2>2
<1>4. WorkersAreOfRequests'
  <2> SUFFICES ASSUME NEW w \in Worker, NEW k, k = job[w], k # NoJob, IsARequests(k)
               PROVE  IsOf(k, k.for)'
    BY DEF WorkersAreOfRequests, IsARequests
  <2>1. k \in Job
    BY DEF Types, TypeOK
  <2> QED
    BY <2>1, StillOfRequests
<1>5. OncePerPlace'
  BY <1>1, <1>2 DEF OneJob, OncePerPlace, IsARequests
<1>6. InOnePlace'
  BY <1>1, <1>2 DEF OneJob, InOnePlace, IsARequests
<1> QED
  BY <1>3, <1>4, <1>5, <1>6 DEF OneJob

LEMMA OneJobStart == ASSUME Types, OneJob, Start PROVE OneJob'
<1>1. /\ queue' = Append(queue, Ping(starts'))
      /\ UNCHANGED <<phase, plan, at, job, ended>>
  BY DEF Start, request_vars, workers
<1>2. Ping(starts') \in Job /\ ~IsARequests(Ping(starts'))
  <2>1. starts' \in 1..MaxStarts
    BY MaxStartsIsANumber DEF Start, Types, TypeOK
  <2> QED
    BY <2>1, Jobs, StepNames DEF IsARequests, Ping
<1>3. EndedIsAwaited'
  BY <1>1 DEF OneJob, EndedIsAwaited, IsARequests, JobOf, StepOf
<1>4. \A x \in Request : \A k : IsOf(k, x) => IsOf(k, x)'
  BY <1>1 DEF IsOf, JobOf, StepOf
<1> QED
  BY <1>1, <1>2, <1>3, <1>4, OneJobAppend

LEMMA OneJobAddJob == ASSUME Types, OneJob, NEW q \in Request, AddJob(q) PROVE OneJob'
<1>1. /\ phase[q] = "running" /\ StepOf(q) \in JobName
      /\ phase'[q] = "waiting"
      /\ \A x \in Request \ {q} : phase'[x] = phase[x]
      /\ queue' = Append(queue, JobOf(q))
      /\ UNCHANGED <<plan, at, job, ended>>
  BY DEF Types, TypeOK, AddJob, workers
<1>2. PICK j \in Job : j = JobOf(q)
  BY <1>1, Jobs DEF JobOf
<1>3. j.for = q /\ IsARequests(j)
  BY <1>1, <1>2, StepNames DEF JobOf, JobFor, IsARequests
<1>4. IsOf(j, q)'
  BY <1>1, <1>2 DEF IsOf, JobOf, StepOf
<1>5. /\ \A i \in 1..Len(queue) : IsARequests(queue[i]) => queue[i].for # q
      /\ \A w \in Worker : job[w] # NoJob /\ IsARequests(job[w]) => job[w].for # q
      /\ \A e \in ended : IsARequests(e.job) => e.job.for # q
  BY <1>1 DEF OneJob, QueueIsOfRequests, WorkersAreOfRequests, EndedIsAwaited, IsOf
<1>6. \A x \in Request : \A k : IsOf(k, x) => IsOf(k, x)'
  BY <1>1 DEF IsOf, JobOf, StepOf
<1>7. EndedIsAwaited'
  <2> SUFFICES ASSUME NEW e \in ended, IsARequests(e.job)
               PROVE  phase'[e.job.for] = "waiting" /\ e.job = JobOf(e.job.for)'
    BY <1>1 DEF EndedIsAwaited, IsARequests
  <2>1. e.job.for \in Request
    BY Jobs, StepNames DEF IsARequests, Types, TypeOK
  <2> QED
    BY <2>1, <1>1, <1>5 DEF OneJob, EndedIsAwaited, JobOf, StepOf
<1>8. /\ \A i \in 1..Len(queue) : queue[i] # j
      /\ \A w \in Worker : job[w] # j
      /\ \A e \in ended : e.job # j
  BY <1>2, <1>3, <1>5, Jobs
<1> QED
  BY <1>1, <1>2, <1>3, <1>4, <1>6, <1>7, <1>8, OneJobAppend

LEMMA OneJobServer ==
  ASSUME Types, OneJob, Pong \/ PingTimesOut \/ ServerDies
  PROVE  OneJob'
<1>1. /\ UNCHANGED <<queue, job, plan, at>> /\ ended' \subseteq ended
      /\ \/ UNCHANGED phase
         \/ /\ ended' = {}
            /\ \A x \in Request : phase[x] \in {"waiting", "cutOff"} => phase'[x] = "cutOff"
  <2>1. CASE Pong \/ PingTimesOut
    BY <2>1 DEF Pong, PingTimesOut, request_vars, workers
  <2>2. CASE ServerDies
    BY <2>2 DEF Types, TypeOK, ServerDies, workers, Open
  <2> QED
    BY <2>1, <2>2
<1>2. \A x \in Request : \A k : IsOf(k, x) => IsOf(k, x)'
  BY <1>1 DEF IsOf, JobOf, StepOf
<1>3. QueueIsOfRequests'
  <2> SUFFICES ASSUME NEW i \in 1..Len(queue), NEW k, k = queue[i], IsARequests(k)
               PROVE  IsOf(k, k.for)'
    BY <1>1 DEF QueueIsOfRequests, IsARequests
  <2>1. k \in Job
    BY DEF Types, TypeOK
  <2> QED
    BY <2>1, <1>2, StillOfRequests
<1>4. WorkersAreOfRequests'
  <2> SUFFICES ASSUME NEW w \in Worker, NEW k, k = job[w], k # NoJob, IsARequests(k)
               PROVE  IsOf(k, k.for)'
    BY <1>1 DEF WorkersAreOfRequests, IsARequests
  <2>1. k \in Job
    BY DEF Types, TypeOK
  <2> QED
    BY <2>1, <1>2, StillOfRequests
<1>5. EndedIsAwaited'
  BY <1>1 DEF OneJob, EndedIsAwaited, IsARequests, JobOf, StepOf
<1>6. OncePerPlace' /\ InOnePlace'
  BY <1>1 DEF OneJob, OncePerPlace, InOnePlace, IsARequests
<1> QED
  BY <1>3, <1>4, <1>5, <1>6 DEF OneJob

\* A worker that starts or dies leaves the jobs that it has not taken alone.
LEMMA OneJobWorker ==
  ASSUME Types, OneJob, NEW w \in Worker, StartWorker(w) \/ WorkerDies(w)
  PROVE  OneJob'
<1>1. /\ UNCHANGED <<queue, ended, phase, plan, at>>
      /\ \A v \in Worker : job'[v] = job[v] \/ job'[v] = NoJob
  BY DEF Types, TypeOK, StartWorker, WorkerDies, request_vars, redis
<1>2. /\ \A i \in 1..Len(queue) : queue[i] # NoJob
      /\ \A e \in ended : e.job # NoJob
  BY Jobs DEF Types, TypeOK
<1>3. QueueIsOfRequests' /\ EndedIsAwaited'
  BY <1>1 DEF OneJob, QueueIsOfRequests, EndedIsAwaited, IsOf, IsARequests, JobOf, StepOf
<1>4. WorkersAreOfRequests'
  BY <1>1 DEF OneJob, WorkersAreOfRequests, IsOf, IsARequests, JobOf, StepOf
<1>5. OncePerPlace'
  BY <1>1 DEF OneJob, OncePerPlace, IsARequests
<1>6. InOnePlace'
  BY <1>1, <1>2 DEF OneJob, InOnePlace, IsARequests
<1> QED
  BY <1>3, <1>4, <1>5, <1>6 DEF OneJob

LEMMA OneJobTakeJob ==
  ASSUME Types, OneJob, NEW w \in Worker, TakeJob(w)
  PROVE  OneJob'
<1>1. /\ UNCHANGED <<ended, phase, plan, at>>
      /\ job' = [job EXCEPT ![w] = Head(queue)]
      /\ queue' = Tail(queue) /\ queue # <<>>
  BY DEF TakeJob, request_vars
<1>2. /\ Len(queue) \in Nat \ {0} /\ Len(queue') = Len(queue) - 1
      /\ Head(queue) = queue[1]
      /\ \A i \in 1..Len(queue') : i + 1 \in 1..Len(queue) /\ queue'[i] = queue[i + 1]
  BY <1>1 DEF Types, TypeOK
<1>3. job'[w] = queue[1] /\ 1 \in 1..Len(queue) /\ \A v \in Worker \ {w} : job'[v] = job[v]
  BY <1>1, <1>2 DEF Types, TypeOK
<1>4. QueueIsOfRequests' /\ EndedIsAwaited'
  BY <1>1, <1>2 DEF OneJob, QueueIsOfRequests, EndedIsAwaited, IsOf, IsARequests, JobOf, StepOf
<1>5. WorkersAreOfRequests'
  BY <1>1, <1>3
  DEF OneJob, WorkersAreOfRequests, QueueIsOfRequests, IsOf, IsARequests, JobOf, StepOf
<1>6. OncePerPlace'
  BY <1>1, <1>2, <1>3 DEF OneJob, OncePerPlace, InOnePlace, IsARequests
<1>7. InOnePlace'
  BY <1>1, <1>2, <1>3 DEF OneJob, OncePerPlace, InOnePlace, IsARequests
<1> QED
  BY <1>4, <1>5, <1>6, <1>7 DEF OneJob

\* What has ended was nowhere but at the worker; if nobody waits for it, it is gone.
LEMMA OneJobEndJob ==
  ASSUME Types, OneJob, NEW w \in Worker, EndJob(w)
  PROVE  OneJob'
<1>1. PICK j \in Job : j = job[w]
  BY DEF Types, TypeOK, EndJob
<1>2. /\ UNCHANGED <<queue, phase, plan, at>>
      /\ job'[w] = NoJob
      /\ \A v \in Worker \ {w} : job'[v] = job[v]
  BY DEF Types, TypeOK, EndJob, request_vars
<1>3. PICK f : Report(j, f)
  BY <1>1 DEF EndJob
<1>4. \/ ended' = ended
      \/ IsAwaited(j) /\ ended' = ended \cup {[job |-> j, error |-> Serialized(f.error)]}
  BY <1>3 DEF Report
<1>5. NoJob \notin Job /\ \A k \in Job : IsARequests(k) => k.for \in Request /\ k.name # "ping"
  BY Jobs, StepNames DEF IsARequests
<1>6. IsARequests(j) /\ IsAwaited(j) => phase[j.for] = "waiting" /\ j = JobOf(j.for)
  <2> SUFFICES ASSUME IsARequests(j), IsAwaited(j)
               PROVE  phase[j.for] = "waiting" /\ j = JobOf(j.for)
    OBVIOUS
  <2>1. j # Ping(starts)
    BY <1>5 DEF Ping
  <2>2. PICK q \in Request : phase[q] = "waiting" /\ j = JobOf(q)
    BY <2>1 DEF IsAwaited
  <2>3. j.for = q
    BY <2>2 DEF JobOf, JobFor
  <2> QED
    BY <2>2, <2>3
<1>7. QueueIsOfRequests'
  BY <1>2 DEF OneJob, QueueIsOfRequests, IsOf, IsARequests, JobOf, StepOf
<1>8. WorkersAreOfRequests'
  BY <1>2 DEF OneJob, WorkersAreOfRequests, IsOf, IsARequests, JobOf, StepOf
<1>9. EndedIsAwaited'
  BY <1>2, <1>4, <1>6 DEF OneJob, EndedIsAwaited, IsARequests, JobOf, StepOf
<1>10. IsARequests(j) => /\ \A i \in 1..Len(queue) : queue[i] # j
                         /\ \A v \in Worker : job'[v] # j
                         /\ \A e \in ended : e.job # j
  BY <1>1, <1>2, <1>5 DEF OneJob, OncePerPlace, InOnePlace
<1>11. OncePerPlace'
  BY <1>2, <1>4, <1>10 DEF OneJob, OncePerPlace, IsARequests
<1>12. \A e \in ended : e.job # NoJob
  BY <1>5 DEF Types, TypeOK
<1>13. \A i \in 1..Len(queue) : queue[i] # NoJob
  BY <1>5 DEF Types, TypeOK
<1>14. InOnePlace'
  BY <1>2, <1>4, <1>10, <1>12, <1>13 DEF OneJob, InOnePlace, IsARequests
<1> QED
  BY <1>7, <1>8, <1>9, <1>11, <1>14 DEF OneJob

LEMMA OneJobNext == Types /\ OneJob /\ [Next]_vars => OneJob'
<1> SUFFICES ASSUME Types, OneJob, [Next]_vars PROVE OneJob'
  OBVIOUS
<1>1. CASE UNCHANGED <<queue, ended, phase, plan, at, job>>
  BY <1>1
  DEF OneJob, QueueIsOfRequests, WorkersAreOfRequests, EndedIsAwaited, OncePerPlace,
      InOnePlace, IsOf, JobOf, StepOf
<1>2. CASE Start \/ Pong \/ PingTimesOut \/ ServerDies
  BY <1>2, OneJobStart, OneJobServer
<1>3. CASE \E q \in Request : Receive(q) \/ RefuseBody(q) \/ RequestSteps(q) \/ StopHearing(q)
  <2>1. CASE \E q \in Request : StopHearing(q)
    BY <1>1, <2>1 DEF StopHearing, request_vars, redis, workers
  <2> QED
    BY <1>3, <2>1, OneJobRequest, OneJobAddJob, OneJobWhenFinished DEF RequestSteps
<1>4. CASE \E w \in Worker : StartWorker(w) \/ WorkerDies(w) \/ WorkerSteps(w)
  BY <1>4, OneJobWorker, OneJobTakeJob, OneJobEndJob DEF WorkerSteps
<1>5. CASE UNCHANGED vars
  BY <1>1, <1>5 DEF vars, request_vars, redis, workers
<1> QED
  BY <1>2, <1>3, <1>4, <1>5 DEF Next

LEMMA OneJobInit == Init => OneJob
<1> SUFFICES ASSUME Init PROVE OneJob
  OBVIOUS
<1>1. 1..Len(queue) = {} /\ ended = {} /\ \A w \in Worker : job[w] = NoJob
  <2>1. queue = <<>> /\ ended = {} /\ job = [w \in Worker |-> NoJob]
    BY DEF Init
  <2> QED
    BY <2>1
<1> QED
  BY <1>1
  DEF OneJob, QueueIsOfRequests, WorkersAreOfRequests, EndedIsAwaited, OncePerPlace, InOnePlace

LEMMA OneJobImplies == Types /\ OneJob => OneJobAtATime
<1> SUFFICES ASSUME Types, OneJob, NEW q \in Request, NEW step \in JobName, NEW j \in Job,
                    j = JobFor(q, step), Queued(j) # {} \/ Taken(j) # {}
             PROVE  /\ phase[q] \in {"waiting", "cutOff"} /\ j = JobOf(q)
                    /\ ~HasEnded(j)
                    /\ Queued(j) = {} \/ Taken(j) = {}
                    /\ \A i, k \in Queued(j) : i = k
                    /\ \A v, w \in Taken(j) : v = w
  BY Jobs DEF OneJobAtATime
<1>1. j.for = q /\ IsARequests(j) /\ j # NoJob
  BY Jobs DEF JobFor, IsARequests
<1>2. IsOf(j, q)
  BY <1>1 DEF OneJob, QueueIsOfRequests, WorkersAreOfRequests, Queued, Taken
<1>3. ~HasEnded(j) /\ (Queued(j) = {} \/ Taken(j) = {})
  BY <1>1 DEF OneJob, InOnePlace, HasEnded, Queued, Taken
<1>4. /\ \A i, k \in Queued(j) : i = k
      /\ \A v, w \in Taken(j) : v = w
  BY <1>1 DEF OneJob, OncePerPlace, Queued, Taken
<1> QED
  BY <1>2, <1>3, <1>4 DEF IsOf

\* OneJobAtATime is an invariant of JobQueue: a request never has two jobs about, and
\* never one while it goes on without knowing how the job ended, whichever process dies
\* and however often.
THEOREM OneJobHolds == Spec => []OneJobAtATime
BY OneJobInit, OneJobNext, OneJobImplies, TypesHold, PTL DEF Spec

----------------------------------------------------------------------------
(***************************************************************************)
(* Who waits has a job                                                     *)
(***************************************************************************)
\* The job is queued, at a worker, or has ended and nobody has asked for it yet.
IsAbout(j) ==
  \/ \E i \in 1..Len(queue) : queue[i] = j
  \/ \E w \in Worker : job[w] = j
  \/ HasEnded(j)

LEMMA JobsAbout == \A j : IsAbout(j) <=> Queued(j) # {} \/ Taken(j) # {} \/ HasEnded(j)
BY DEF IsAbout, Queued, Taken

LEMMA WaitersAfter ==
  ASSUME \A q \in Request \ lost' : \A j :
           phase'[q] = "waiting" /\ j = JobOf(q)' => IsAbout(j)'
  PROVE  WaitersHaveJobs'
<1> SUFFICES ASSUME NEW q \in Request \ lost', phase'[q] = "waiting", NEW j, j = JobOf(q)'
             PROVE  Queued(j)' # {} \/ Taken(j)' # {} \/ HasEnded(j)'
  BY DEF WaitersHaveJobs, Queued, Taken, HasEnded
<1>1. IsAbout(j)'
  OBVIOUS
<1>2. ASSUME NEW i \in 1..Len(queue'), queue'[i] = j PROVE Queued(j)' # {}
  <2>1. i \in Queued(j)'
    BY <1>2 DEF Queued
  <2> QED
    BY <2>1
<1>3. ASSUME NEW w \in Worker, job'[w] = j PROVE Taken(j)' # {}
  <2>1. w \in Taken(j)'
    BY <1>3 DEF Taken
  <2> QED
    BY <2>1
<1> QED
  BY <1>1, <1>2, <1>3 DEF IsAbout

\* A step that sends nobody to wait, and loses no job of one who waits and may hear of it.
LEMMA WaitersStay ==
  ASSUME WaitersHaveJobs,
         \A q \in Request \ lost' : phase'[q] = "waiting" =>
           /\ q \notin lost /\ phase[q] = "waiting" /\ plan'[q] = plan[q] /\ at'[q] = at[q]
           /\ \A j : j = JobOf(q) /\ IsAbout(j) => IsAbout(j)'
  PROVE  WaitersHaveJobs'
<1> SUFFICES ASSUME NEW q \in Request \ lost', phase'[q] = "waiting", NEW j, j = JobOf(q)'
             PROVE  IsAbout(j)'
  BY WaitersAfter
<1>1. q \notin lost /\ phase[q] = "waiting" /\ j = JobOf(q)
  BY DEF JobOf, StepOf
<1>2. IsAbout(j)
  BY <1>1, JobsAbout DEF WaitersHaveJobs
<1> QED
  BY <1>1, <1>2

\* No request waits while a server starts, or is down.
LEMMA WaitersServer ==
  ASSUME Types, Vouch, WaitersHaveJobs, Start \/ Pong \/ PingTimesOut \/ ServerDies
  PROVE  WaitersHaveJobs'
<1>1. \A q \in Request : phase'[q] # "waiting"
  <2>1. CASE ServerDies
    BY <2>1 DEF ServerDies, Open
  <2>2. CASE Start \/ Pong \/ PingTimesOut
    BY <2>2 DEF Vouch, Open, Start, Pong, PingTimesOut, request_vars
  <2> QED
    BY <2>1, <2>2
<1> QED
  BY <1>1, WaitersAfter

\* A request adds a job, and waits for it.
LEMMA WaitersAddJob ==
  ASSUME Types, WaitersHaveJobs, NEW q \in Request, AddJob(q)
  PROVE  WaitersHaveJobs'
<1>1. /\ Len(queue) \in Nat /\ Len(queue') = Len(queue) + 1
      /\ \A i \in 1..Len(queue) : queue'[i] = queue[i]
      /\ queue'[Len(queue) + 1] = JobOf(q)
  BY DEF Types, TypeOK, AddJob
<1>2. Len(queue) + 1 \in 1..Len(queue') /\ \A i \in 1..Len(queue) : i \in 1..Len(queue')
  BY <1>1
<1>3. /\ UNCHANGED <<plan, at, job, ended, lost>>
      /\ \A x \in Request : x # q => phase'[x] = phase[x]
  BY DEF Types, TypeOK, AddJob, workers
<1>4. \A j : IsAbout(j) => IsAbout(j)'
  BY <1>1, <1>2, <1>3 DEF IsAbout, HasEnded
<1> SUFFICES ASSUME NEW x \in Request \ lost', phase'[x] = "waiting", NEW j, j = JobOf(x)'
             PROVE  IsAbout(j)'
  BY WaitersAfter
<1>5. j = JobOf(x)
  BY <1>3 DEF JobOf, StepOf
<1>6. CASE x = q
  BY <1>1, <1>2, <1>5, <1>6 DEF IsAbout
<1>7. CASE x # q
  <2>1. IsAbout(j)
    BY <1>3, <1>5, <1>7, JobsAbout DEF WaitersHaveJobs
  <2> QED
    BY <1>4, <2>1
<1> QED
  BY <1>6, <1>7

\* The other steps of a request leave it without a job, and the jobs of others alone.
LEMMA WaitersRequest ==
  ASSUME Types, WaitersHaveJobs, NEW q \in Request,
         \/ Receive(q) \/ RefuseBody(q) \/ StopHearing(q) \/ TakeStep(q) \/ AddJobFails(q)
         \/ WhenFinished(q) \/ Clean(q) \/ Answer(q)
  PROVE  WaitersHaveJobs'
<1>1. /\ UNCHANGED <<queue, job>> /\ lost \subseteq lost'
      /\ phase'[q] # "waiting" \/ q \in lost'
      /\ \A x \in Request : x # q =>
           phase'[x] = phase[x] /\ plan'[x] = plan[x] /\ at'[x] = at[x]
  <2>1. CASE Receive(q) \/ RefuseBody(q)
    BY <2>1 DEF Types, TypeOK, Receive, RefuseBody, redis, workers
  <2>2. CASE StopHearing(q)
    BY <2>2 DEF StopHearing, request_vars, redis, workers
  <2>3. CASE TakeStep(q)
    BY <2>3 DEF Types, TypeOK, TakeStep, Succeed, Fail, redis, workers
  <2>4. CASE AddJobFails(q)
    BY <2>4 DEF Types, TypeOK, AddJobFails, Fail, redis, workers
  <2>5. CASE WhenFinished(q)
    BY <2>5 DEF Types, TypeOK, WhenFinished, Succeed, Fail, workers
  <2>6. CASE Clean(q) \/ Answer(q)
    BY <2>6 DEF Types, TypeOK, Clean, Answer, redis, workers
  <2> QED
    BY <2>1, <2>2, <2>3, <2>4, <2>5, <2>6
<1>2. \A e \in ended : e \in ended' \/ e.job = JobOf(q)
  BY DEF Receive, RefuseBody, StopHearing, TakeStep, AddJobFails, WhenFinished, Clean, Answer, redis
<1>3. ASSUME NEW x \in Request, x # q, NEW j, j = JobOf(x), IsAbout(j) PROVE IsAbout(j)'
  <2>1. j # JobOf(q)
    BY <1>3 DEF JobOf, JobFor
  <2> QED
    BY <1>1, <1>2, <1>3, <2>1 DEF IsAbout, HasEnded
<1> QED
  BY <1>1, <1>3, WaitersStay

\* Workers take jobs without losing any, and tell whoever may hear how they ended; the
\* death of a worker loses the job it has, and with it the caller's hearing.
LEMMA WaitersWorker ==
  ASSUME Types, WaitersHaveJobs, NEW w \in Worker,
         StartWorker(w) \/ WorkerDies(w) \/ WorkerSteps(w)
  PROVE  WaitersHaveJobs'
<1>1. UNCHANGED <<phase, plan, at>> /\ lost \subseteq lost'
  BY DEF StartWorker, WorkerDies, WorkerSteps, TakeJob, EndJob, request_vars
<1>2. ASSUME NEW q \in Request \ lost', phase[q] = "waiting", NEW j, j = JobOf(q), IsAbout(j)
      PROVE  IsAbout(j)'
  <2>1. CASE StartWorker(w)
    BY <1>2, <2>1 DEF StartWorker, redis, IsAbout, HasEnded
  <2>2. CASE WorkerDies(w)
    <3>1. /\ UNCHANGED <<queue, ended>> /\ j # job[w]
          /\ \A v \in Worker : v # w => job'[v] = job[v]
      BY <1>2, <2>2 DEF Types, TypeOK, WorkerDies, redis
    <3> QED
      BY <1>2, <3>1 DEF IsAbout, HasEnded
  <2>3. CASE TakeJob(w)
    <3>1. /\ UNCHANGED ended
          /\ job' = [job EXCEPT ![w] = Head(queue)] /\ job[w] = NoJob
          /\ queue' = Tail(queue) /\ queue # <<>>
      BY <2>3 DEF TakeJob
    <3>2. /\ Len(queue) \in Nat \ {0} /\ Len(queue') = Len(queue) - 1
          /\ job'[w] = queue[1] /\ \A v \in Worker : v # w => job'[v] = job[v]
          /\ \A i \in 1..Len(queue') : queue'[i] = queue[i + 1]
      BY <3>1 DEF Types, TypeOK
    <3>3. j # NoJob
      BY <1>2, Jobs DEF Types, TypeOK, JobOf
    <3>4. ASSUME NEW i \in 1..Len(queue), queue[i] = j, i # 1 PROVE IsAbout(j)'
      <4>1. i - 1 \in 1..Len(queue') /\ queue'[i - 1] = j
        BY <3>2, <3>4
      <4> QED
        BY <4>1 DEF IsAbout
    <3> QED
      BY <1>2, <3>1, <3>2, <3>3, <3>4 DEF IsAbout, HasEnded
  <2>4. CASE EndJob(w)
    <3>1. /\ queue' = queue /\ \A v \in Worker : v # w => job'[v] = job[v]
          /\ \E f : Report(job[w], f)
          /\ lost' = lost
      BY <2>4 DEF Types, TypeOK, EndJob
    <3>2. ended \subseteq ended'
      BY <3>1 DEF Report
    <3>3. CASE j = job[w]
      <4>1. IsAwaited(job[w])
        BY <1>2, <3>1, <3>3 DEF IsAwaited
      <4>2. PICK f : Report(job[w], f)
        BY <3>1
      <4> DEFINE e == [job |-> job[w], error |-> Serialized(f.error)]
      <4>3. e \in ended' /\ e.job = j
        BY <3>3, <4>1, <4>2 DEF Report
      <4>4. HasEnded(j)'
        <5> HIDE DEF e
        <5> QED
          BY <4>3 DEF HasEnded
      <4> QED
        BY <4>4 DEF IsAbout
    <3>4. CASE j # job[w]
      BY <1>2, <3>1, <3>2, <3>4 DEF IsAbout, HasEnded
    <3> QED
      BY <3>3, <3>4
  <2> QED
    BY <2>1, <2>2, <2>3, <2>4 DEF WorkerSteps
<1> QED
  BY <1>1, <1>2, WaitersStay

\* WaitersHaveJobs is an invariant of JobQueue: whichever process dies and however often,
\* a request that waits, and may still hear of its job, has it queued or at a worker, or
\* how it ended is on its way.
THEOREM WaitersAreServed == Spec => []WaitersHaveJobs
<1>1. Init => Vouch /\ WaitersHaveJobs
  BY DEF Init, Vouch, WaitersHaveJobs, Open
<1>2. Types /\ Vouch /\ WaitersHaveJobs /\ [Next]_vars => WaitersHaveJobs'
  <2> SUFFICES ASSUME Types, Vouch, WaitersHaveJobs, [Next]_vars PROVE WaitersHaveJobs'
    OBVIOUS
  <2>1. CASE UNCHANGED vars
    BY <2>1, WaitersStay DEF vars, request_vars, redis, workers, IsAbout, HasEnded
  <2> QED
    BY <2>1, WaitersServer, WaitersAddJob, WaitersRequest, WaitersWorker
    DEF Next, RequestSteps
<1> QED
  BY <1>1, <1>2, TypesHold, VouchNext, PTL DEF Spec

----------------------------------------------------------------------------
(***************************************************************************)
(* Answers                                                                 *)
(***************************************************************************)
\* Which routes take the steps that some route treats in a way of its own.
LEMMA StepsOfRoutes ==
  ASSUME NEW r \in Route, NEW p \in Plans(r), NEW i \in 1..Len(p)
  PROVE  /\ r = "getFile" => p[i] \in {"exists", "find", "show"}
         /\ p[i] = "show" => r = "getFile"
         /\ p[i] = "exists" => r \in {"getRepo", "getFile"}
<1>1. \/ r \in {"postRepo", "putRepo"} /\ p = <<"create", "getOrigin", "setOriginTo">>
      \/ r = "putRepo" /\ p = <<"find", "getOrigin", "setOriginTo">>
      \/ r = "putRepo" /\ p \in {<<"find", "getOrigin">>, <<"create", "getOrigin">>}
      \/ r = "postFetch" /\ p = <<"find", "fetch">>
      \/ r = "postCommit" /\ p = <<"find", "fetch", "commit", "push">>
      \/ r = "getRepo" /\ p = <<"exists", "find", "branches">>
      \/ r = "getFile" /\ p = <<"exists", "find", "show">>
  BY DEF Plans, Route
<1>2. CASE r \in {"postRepo", "putRepo"} /\ p = <<"create", "getOrigin", "setOriginTo">>
  <2> i = 1 \/ i = 2 \/ i = 3
    BY <1>2
  <2> QED
    BY <1>2
<1>3. CASE r = "putRepo" /\ p = <<"find", "getOrigin", "setOriginTo">>
  <2> i = 1 \/ i = 2 \/ i = 3
    BY <1>3
  <2> QED
    BY <1>3
<1>4. CASE r = "putRepo" /\ p \in {<<"find", "getOrigin">>, <<"create", "getOrigin">>}
  <2> i = 1 \/ i = 2
    BY <1>4
  <2> QED
    BY <1>4
<1>5. CASE r = "postFetch" /\ p = <<"find", "fetch">>
  <2> i = 1 \/ i = 2
    BY <1>5
  <2> QED
    BY <1>5
<1>6. CASE r = "postCommit" /\ p = <<"find", "fetch", "commit", "push">>
  <2> i = 1 \/ i = 2 \/ i = 3 \/ i = 4
    BY <1>6
  <2> QED
    BY <1>6
<1>7. CASE r = "getRepo" /\ p = <<"exists", "find", "branches">>
  <2> i = 1 \/ i = 2 \/ i = 3
    BY <1>7
  <2> QED
    BY <1>7
<1>8. CASE r = "getFile" /\ p = <<"exists", "find", "show">>
  <2> i = 1 \/ i = 2 \/ i = 3
    BY <1>8
  <2> QED
    BY <1>8
<1> QED
  BY <1>1, <1>2, <1>3, <1>4, <1>5, <1>6, <1>7, <1>8

\* That the status of a response tells what happened.
Tells(number, failed) ==
  /\ number \in {200, 201} <=> failed = NoFailure
  /\ number = 403 <=> IsDenied(failed)
  /\ number = 429 <=> IsLocked(failed) /\ ~ChecksRemote(failed.process)
  /\ number = 400 => ChecksRemote(failed.process) \/ failed.error = "BadRequest"
  /\ number = 404 <=> IsMissing(failed)

\* What the request makes of a failure, of its own or of a job.
Outcome(s, error) ==
  IF s \in JobName THEN Deserialized(Serialized(error)) ELSE ResultOf(s, error)

\* What git says when it fails is told, whether or not the error crosses the queue.
LEMMA GitFailureIsTold ==
  ASSUME NEW r \in Route, NEW s \in Step,
         r = "getFile" => s \in {"exists", "find", "show"},
         s = "show" => r = "getFile",
         NEW p \in Processes(s), NEW said \in SUBSET MaySay(p),
         NEW f, f = [process |-> p, stderr |-> said, error |-> Raised(p, said)]
  PROVE  Tells(StatusFor(r, Outcome(s, f.error)), f)
<1>1. f.process = p /\ f.stderr = said /\ f.error = Raised(p, said) /\ f # NoFailure
  BY DEF NoFailure, Raised, RemoteErrorFor, ErrorFor
<1>2. s = "show" => p = "show" /\ said \cap DenialWords = {} /\ said \cap LockWords = {}
  BY WordsAreDistinct, ProcessesOfSteps DEF MaySay
<1>3. s # "show" => p # "show" /\ r # "getFile"
  BY ProcessesOfSteps, StepNames
<1>4. CASE s = "show"
  <2>1. /\ f.error = IF said \cap PathWords # {} THEN "FileNotFound" ELSE "GitCommandError"
        /\ ~ChecksRemote(p)
    BY <1>1, <1>2, <1>4 DEF Raised, ErrorFor, ChecksRemote
  <2>2. Outcome(s, f.error) = IF said \cap PathWords # {} THEN "nothing" ELSE "GitCommandError"
    BY <1>4, <2>1, StepNames DEF Outcome, ResultOf
  <2>3. StatusFor(r, Outcome(s, f.error)) = IF said \cap PathWords # {} THEN 404 ELSE 500
    BY <1>4, <2>2 DEF StatusFor, QueryStatus, UnhandledStatus
  <2>4. /\ ~IsDenied(f) /\ ~IsLocked(f)
        /\ IsMissing(f) <=> said \cap PathWords # {}
    BY <1>1, <1>2, <1>4, <2>1 DEF IsDenied, IsLocked, IsMissing
  <2> QED
    BY <1>1, <2>3, <2>4 DEF Tells
<1>5. CASE s # "show"
  <2>1. CASE said \cap DenialWords # {}
    <3>1. f.error = "AccessDenied"
      BY <1>1, <2>1 DEF Raised, RemoteErrorFor, ErrorFor
    <3>2. StatusFor(r, Outcome(s, f.error)) = 403
      BY <1>3, <1>5, <3>1
      DEF Outcome, ResultOf, Deserialized, Serialized, StatusFor, ErrorStatus
    <3>3. IsDenied(f) /\ ~IsLocked(f) /\ ~IsMissing(f)
      BY <1>1, <1>3, <1>5, <2>1, <3>1 DEF IsDenied, IsLocked, IsMissing
    <3> QED
      BY <1>1, <3>2, <3>3 DEF Tells
  <2>2. CASE said \cap DenialWords = {} /\ ChecksRemote(p)
    <3>1. f.error = "InvalidRepoUrl"
      BY <1>1, <2>2 DEF Raised, RemoteErrorFor, ErrorFor
    <3>2. StatusFor(r, Outcome(s, f.error)) = 400
      BY <1>3, <1>5, <3>1
      DEF Outcome, ResultOf, Deserialized, Serialized, StatusFor, ErrorStatus
    <3>3. ~IsDenied(f) /\ ChecksRemote(f.process) /\ ~IsMissing(f)
      BY <1>1, <1>3, <1>5, <2>2, <3>1 DEF IsDenied, IsLocked, IsMissing
    <3> QED
      BY <1>1, <3>2, <3>3 DEF Tells
  <2>3. CASE said \cap DenialWords = {} /\ ~ChecksRemote(p) /\ said \cap LockWords # {}
    <3>1. f.error = "LockedByAnotherProcess"
      BY <1>1, <2>3 DEF Raised, ErrorFor
    <3>2. StatusFor(r, Outcome(s, f.error)) = 429
      BY <1>3, <1>5, <3>1
      DEF Outcome, ResultOf, Deserialized, Serialized, StatusFor, ErrorStatus
    <3>3. ~IsDenied(f) /\ IsLocked(f) /\ ~ChecksRemote(f.process) /\ ~IsMissing(f)
      BY <1>1, <1>3, <1>5, <2>3, <3>1 DEF IsDenied, IsLocked, IsMissing
    <3> QED
      BY <1>1, <3>2, <3>3 DEF Tells
  <2>4. CASE said \cap DenialWords = {} /\ ~ChecksRemote(p) /\ said \cap LockWords = {}
    <3>1. f.error \in {"FileNotFound", "GitCommandError"}
      BY <1>1, <2>4 DEF Raised, ErrorFor
    <3>2. StatusFor(r, Outcome(s, f.error)) = 500
      <4>1. Outcome(s, f.error) \in {"FileNotFound", "GitCommandError", "Error"}
        BY <1>5, <3>1 DEF Outcome, ResultOf, Deserialized, Serialized
      <4> QED
        BY <1>3, <1>5, <4>1 DEF StatusFor, ErrorStatus, UnhandledStatus
    <3>3. ~IsDenied(f) /\ ~IsLocked(f) /\ ~ChecksRemote(f.process) /\ ~IsMissing(f)
      BY <1>1, <1>3, <1>5, <2>4, <3>1 DEF IsDenied, IsLocked, IsMissing
    <3> QED
      BY <1>1, <3>2, <3>3 DEF Tells
  <2> QED
    BY <2>1, <2>2, <2>3, <2>4
<1> QED
  BY <1>4, <1>5

\* So are the errors of the code.
LEMMA ThrownIsTold ==
  ASSUME NEW r \in Route, NEW s \in Step,
         s = "exists" => r \in {"getRepo", "getFile"},
         NEW e \in Thrown(s), NEW f, f = [process |-> "none", stderr |-> {}, error |-> e]
  PROVE  Tells(StatusFor(r, Outcome(s, f.error)), f)
<1>1. /\ ~IsDenied(f) /\ ~IsLocked(f) /\ f.error = e
      /\ IsMissing(f) <=> e \in {"nothing", "ENOENT"}
      /\ f # NoFailure
  BY DEF IsDenied, IsLocked, IsMissing, NoFailure, Thrown
<1>2. CASE s \in JobName
  <2>1. e = "Error"
    BY <1>2, StepNames DEF Thrown
  <2>2. StatusFor(r, Outcome(s, e)) = 500
    BY <1>2, <2>1
    DEF Outcome, Deserialized, Serialized, StatusFor, ErrorStatus, UnhandledStatus
  <2> QED
    BY <1>1, <2>1, <2>2 DEF Tells
<1>3. CASE s \notin JobName
  <2>1. /\ e \in {"nothing", "NoSuchRepo", "RepoAlreadyExists", "Error", "ENOENT"}
        /\ e = "nothing" => s = "exists"
    BY DEF Thrown
  <2>2. Outcome(s, e) = e
    BY <1>3, <2>1 DEF Outcome, ResultOf
  <2>3. /\ e \in {"nothing", "ENOENT"} => StatusFor(r, e) = 404
        /\ e \notin {"nothing", "ENOENT"} => StatusFor(r, e) = 500
    BY <2>1 DEF StatusFor, QueryStatus, ErrorStatus, UnhandledStatus
  <2> QED
    BY <1>1, <2>1, <2>2, <2>3 DEF Tells
<1> QED
  BY <1>2, <1>3

LEMMA FailureIsTold ==
  ASSUME NEW r \in Route, NEW p \in Plans(r), NEW i \in 1..Len(p), NEW f \in Failures(p[i])
  PROVE  Tells(StatusFor(r, Outcome(p[i], f.error)), f)
<1>1. p[i] \in Step
  BY PlansAreSequencesOfSteps
<1>2. CASE \E g \in Processes(p[i]) : \E said \in SUBSET MaySay(g) :
             f = [process |-> g, stderr |-> said, error |-> Raised(g, said)]
  <2>1. PICK g \in Processes(p[i]) : \E said \in SUBSET MaySay(g) :
             f = [process |-> g, stderr |-> said, error |-> Raised(g, said)]
    BY <1>2
  <2> PICK said \in SUBSET MaySay(g) :
             f = [process |-> g, stderr |-> said, error |-> Raised(g, said)]
    BY <2>1
  <2>2. /\ r = "getFile" => p[i] \in {"exists", "find", "show"}
        /\ p[i] = "show" => r = "getFile"
    BY StepsOfRoutes
  <2> QED
    BY <1>1, <2>1, <2>2, GitFailureIsTold
<1>3. CASE \E e \in Thrown(p[i]) : f = [process |-> "none", stderr |-> {}, error |-> e]
  BY <1>1, <1>3, StepsOfRoutes, ThrownIsTold
<1> QED
  BY <1>2, <1>3 DEF Failures

LEMMA SuccessIsTold == \A r : Tells(StatusFor(r, "ok"), NoFailure)
BY DEF Tells, StatusFor, SuccessStatus, QueryStatus, NoFailure, IsDenied, IsLocked, IsMissing

LEMMA RefusalIsTold ==
  Tells(UnhandledStatus("BadRequest"), [NoFailure EXCEPT !.error = "BadRequest"])
BY DEF Tells, UnhandledStatus, NoFailure, IsDenied, IsLocked, IsMissing

\* Nothing looks at the error of a clone that cannot be removed, nor at Redis's own.
LEMMA PlainErrorIsTold ==
  \A r : Tells(StatusFor(r, "Error"), [NoFailure EXCEPT !.error = "Error"])
BY DEF Tells, StatusFor, ErrorStatus, UnhandledStatus, NoFailure, IsDenied, IsLocked, IsMissing

\* The failures that may end a request's steps.
Cause == (UNION {Failures(s) : s \in Step})
         \cup {NoFailure, [NoFailure EXCEPT !.error = "Error"],
               [NoFailure EXCEPT !.error = "BadRequest"]}

\* What the server, and Redis for it, know of how a request has gone.
RequestIsTold(x) ==
  /\ phase[x] \in {"idle", "running"} => cause[x] = NoFailure
  /\ phase[x] = "waiting" =>
       /\ ~HasEnded(JobOf(x)) => cause[x] = NoFailure
       /\ \A e \in ended : e.job = JobOf(x) =>
            /\ e.error = Serialized(cause[x].error)
            /\ cause[x] \in Failures(StepOf(x)) \cup {NoFailure}
  /\ phase[x] \in {"answering", "cleaning"} =>
       Tells(StatusFor(route[x], result[x]), cause[x])
  /\ phase[x] = "answered" => Tells(status[x], cause[x])

Told == cause \in [Request -> Cause] /\ \A x \in Request : RequestIsTold(x)

\* A request that does not move, and of whose job nothing new is known.
Rests(x) ==
  /\ phase'[x] = phase[x] /\ route'[x] = route[x] /\ plan'[x] = plan[x] /\ at'[x] = at[x]
  /\ result'[x] = result[x] /\ status'[x] = status[x] /\ cause'[x] = cause[x]
  /\ phase[x] = "waiting" => \A e : e.job = JobOf(x) => (e \in ended <=> e \in ended')

LEMMA RestingIsTold ==
  ASSUME NEW x \in Request, RequestIsTold(x), Rests(x)
  PROVE  RequestIsTold(x)'
<1>1. JobOf(x)' = JobOf(x) /\ StepOf(x)' = StepOf(x)
  BY DEF Rests, JobOf, StepOf
<1>2. phase[x] = "waiting" => HasEnded(JobOf(x))' = HasEnded(JobOf(x))
  BY <1>1 DEF Rests, HasEnded
<1> QED
  BY <1>1, <1>2 DEF Rests, RequestIsTold

LEMMA JobsDiffer ==
  ASSUME NEW x, NEW y, x # y
  PROVE  JobOf(x) # JobOf(y)
BY DEF JobOf, JobFor

LEMMA ToldServer ==
  ASSUME Types, Vouch, Told, Start \/ Pong \/ PingTimesOut
  PROVE  Told'
<1>1. UNCHANGED <<phase, route, plan, at, result, status, cause>>
  BY DEF Start, Pong, PingTimesOut, request_vars
<1>2. ASSUME NEW x \in Request, phase[x] = "waiting", NEW e, e.job = JobOf(x)
      PROVE  e \in ended <=> e \in ended'
  <2>1. server = "serving"
    BY <1>2 DEF Vouch, Open
  <2> QED
    BY <2>1 DEF Start, Pong, PingTimesOut
<1>3. \A x \in Request : Rests(x)
  BY <1>1, <1>2 DEF Rests
<1> QED
  BY <1>1, <1>3, RestingIsTold DEF Told

LEMMA ToldServerDies ==
  ASSUME Types, Told, ServerDies
  PROVE  Told'
<1>1. ASSUME NEW x \in Request
      PROVE  /\ UNCHANGED <<route[x], status[x]>>
             /\ \/ phase'[x] = "cutOff"
                \/ phase'[x] = phase[x] /\ cause'[x] = cause[x] /\ ~Open(x)
  BY DEF Types, TypeOK, Told, ServerDies
<1>2. cause' \in [Request -> Cause]
  BY DEF ServerDies, Told, Cause
<1>3. ASSUME NEW x \in Request PROVE RequestIsTold(x)'
  BY <1>1 DEF Told, RequestIsTold, Open
<1> QED
  BY <1>2, <1>3 DEF Told

\* The failure of a step of its plan is one of the causes, and is told.
LEMMA FailIsTold ==
  ASSUME Types, NEW q \in Request, phase[q] \in {"running", "waiting"},
         NEW f \in Failures(StepOf(q))
  PROVE  /\ f \in Cause
         /\ Tells(StatusFor(route[q], Outcome(StepOf(q), f.error)), f)
<1>1. StepOf(q) \in Step /\ plan[q] \in Plans(route[q]) /\ at[q] \in 1..Len(plan[q])
  BY StepOfIsAStep
<1>2. route[q] \in Route
  BY DEF Types, TypeOK
<1> QED
  BY <1>1, <1>2, FailureIsTold DEF Cause, StepOf

LEMMA ToldTakeStep ==
  ASSUME Types, Told, NEW q \in Request, TakeStep(q)
  PROVE  Told'
<1>1. phase[q] = "running" /\ StepOf(q) \notin JobName /\ cause[q] = NoFailure
  BY DEF Told, RequestIsTold, TakeStep
<1>2. UNCHANGED <<route, plan, status, ended>>
  BY DEF TakeStep, Succeed, Fail, redis
<1>3. /\ cause' \in [Request -> Cause]
      /\ \/ /\ Succeed(q) /\ cause' = cause
         \/ \E f \in Failures(StepOf(q)) :
              /\ Fail(q, ResultOf(StepOf(q), f.error))
              /\ cause'[q] = f /\ \A x \in Request \ {q} : cause'[x] = cause[x]
  <2>1. CASE cause' = cause /\ Succeed(q)
    BY <2>1 DEF Told
  <2>2. CASE \E f \in Failures(StepOf(q)) :
               /\ Fail(q, ResultOf(StepOf(q), f.error))
               /\ cause' = [cause EXCEPT ![q] = f]
    BY <1>1, <2>2, FailIsTold DEF Told
  <2> QED
    BY <2>1, <2>2 DEF TakeStep
<1>4. \A x \in Request \ {q} : Rests(x)
  BY <1>2, <1>3 DEF Types, TypeOK, Rests, Succeed, Fail
<1>5. RequestIsTold(q)'
  <2>1. CASE Succeed(q) /\ cause' = cause
    <3>1. CASE phase'[q] = "running"
      BY <1>1, <2>1, <3>1 DEF RequestIsTold
    <3>2. CASE phase'[q] = "answering" /\ result'[q] = "ok"
      BY <1>1, <2>1, <3>2, SuccessIsTold DEF RequestIsTold
    <3> QED
      BY <2>1, <3>1, <3>2 DEF Types, TypeOK, Succeed
  <2>2. CASE \E f \in Failures(StepOf(q)) :
               Fail(q, ResultOf(StepOf(q), f.error)) /\ cause'[q] = f
    <3>1. PICK f \in Failures(StepOf(q)) :
               Fail(q, ResultOf(StepOf(q), f.error)) /\ cause'[q] = f
      BY <2>2
    <3>2. /\ phase'[q] \in {"answering", "cleaning"}
          /\ result'[q] = ResultOf(StepOf(q), f.error)
      BY <3>1 DEF Types, TypeOK, Fail
    <3>3. Tells(StatusFor(route[q], ResultOf(StepOf(q), f.error)), f)
      BY <1>1, FailIsTold DEF Outcome
    <3> QED
      BY <1>2, <3>1, <3>2, <3>3 DEF RequestIsTold
  <2> QED
    BY <1>3, <2>1, <2>2
<1> QED
  BY <1>3, <1>4, <1>5, RestingIsTold DEF Told

LEMMA ToldReceive ==
  ASSUME Types, Told, NEW q \in Request, Receive(q)
  PROVE  Told'
<1>1. /\ phase[q] = "idle" /\ phase'[q] = "running" /\ cause' = cause
      /\ \A x \in Request \ {q} : Rests(x)
  BY DEF Types, TypeOK, Receive, Rests, redis
<1>2. RequestIsTold(q)'
  BY <1>1 DEF Told, RequestIsTold
<1> QED
  BY <1>1, <1>2, RestingIsTold DEF Told

LEMMA ToldRefuseBody ==
  ASSUME Types, Told, NEW q \in Request, RefuseBody(q)
  PROVE  Told'
<1>1. /\ phase'[q] = "answered"
      /\ status'[q] = UnhandledStatus("BadRequest")
      /\ cause' = [cause EXCEPT ![q] = [NoFailure EXCEPT !.error = "BadRequest"]]
  BY DEF Types, TypeOK, RefuseBody
<1>2. /\ cause' \in [Request -> Cause]
      /\ cause'[q] = [NoFailure EXCEPT !.error = "BadRequest"]
      /\ \A x \in Request \ {q} : cause'[x] = cause[x]
  BY <1>1 DEF Told, Cause
<1>3. \A x \in Request \ {q} : Rests(x)
  BY <1>2 DEF Types, TypeOK, RefuseBody, Rests, redis
<1>4. RequestIsTold(q)'
  BY <1>1, <1>2, RefusalIsTold DEF RequestIsTold
<1> QED
  BY <1>2, <1>3, <1>4, RestingIsTold DEF Told

LEMMA ToldAddJobFails ==
  ASSUME Types, Told, NEW q \in Request, AddJobFails(q)
  PROVE  Told'
<1>1. /\ phase'[q] \in {"cleaning", "answering"} /\ result'[q] = "Error" /\ route' = route
      /\ cause' = [cause EXCEPT ![q] = [NoFailure EXCEPT !.error = "Error"]]
  BY DEF Types, TypeOK, AddJobFails, Fail
<1>2. /\ cause' \in [Request -> Cause]
      /\ cause'[q] = [NoFailure EXCEPT !.error = "Error"]
      /\ \A x \in Request \ {q} : cause'[x] = cause[x]
  BY <1>1 DEF Told, Cause
<1>3. \A x \in Request \ {q} : Rests(x)
  BY <1>2 DEF Types, TypeOK, AddJobFails, Fail, Rests, redis
<1>4. RequestIsTold(q)'
  BY <1>1, <1>2, PlainErrorIsTold DEF RequestIsTold
<1> QED
  BY <1>2, <1>3, <1>4, RestingIsTold DEF Told

LEMMA ToldAddJob ==
  ASSUME Types, Told, OneJob, NEW q \in Request, AddJob(q)
  PROVE  Told'
<1>1. /\ phase[q] = "running" /\ phase'[q] = "waiting" /\ StepOf(q) \in JobName
      /\ UNCHANGED <<cause, ended, plan, at>>
      /\ \A x \in Request \ {q} : Rests(x)
  BY DEF Types, TypeOK, AddJob, Rests
<1>2. JobOf(q)' = JobOf(q)
  BY <1>1 DEF JobOf, StepOf
<1>3. \A e \in ended : e.job # JobOf(q)
  BY <1>1 DEF OneJob, EndedIsAwaited, IsARequests, JobOf, JobFor
<1>4. RequestIsTold(q)'
  BY <1>1, <1>2, <1>3 DEF Told, RequestIsTold
<1> QED
  BY <1>1, <1>4, RestingIsTold DEF Told

LEMMA ToldWhenFinished ==
  ASSUME Types, Told, NEW q \in Request, WhenFinished(q)
  PROVE  Told'
<1>1. PICK e \in ended :
       /\ e.job = JobOf(q)
       /\ ended' = ended \ {e}
       /\ IF e.error = Serialized("none") THEN Succeed(q) ELSE Fail(q, Deserialized(e.error))
  BY DEF WhenFinished
<1>2. /\ phase[q] = "waiting" /\ StepOf(q) \in JobName
      /\ UNCHANGED <<route, plan, status, cause>>
  BY <1>1 DEF Types, TypeOK, WhenFinished, Succeed, Fail
<1>3. /\ e.error = Serialized(cause[q].error)
      /\ cause[q] \in Failures(StepOf(q)) \cup {NoFailure}
  BY <1>1, <1>2 DEF Told, RequestIsTold
<1>4. \A x \in Request \ {q} : Rests(x)
  <2>1. \A x \in Request \ {q} : JobOf(x) # e.job
    BY <1>1, JobsDiffer
  <2>2. \A x \in Request \ {q} : /\ phase'[x] = phase[x] /\ at'[x] = at[x]
                                 /\ result'[x] = result[x]
    BY <1>1 DEF Types, TypeOK, Succeed, Fail
  <2> QED
    BY <1>1, <1>2, <2>1, <2>2 DEF Rests
<1>5. cause[q] \in Failures(StepOf(q)) => cause[q].error # "none"
  BY <1>2, StepNames, FailuresAreErrors DEF Error
<1>6. RequestIsTold(q)'
  <2>1. CASE e.error = Serialized("none")
    <3>1. cause[q] = NoFailure
      BY <1>3, <1>5, <2>1 DEF Serialized
    <3>2. \/ phase'[q] = "running"
          \/ phase'[q] = "answering" /\ result'[q] = "ok"
      BY <1>1, <2>1 DEF Types, TypeOK, Succeed
    <3> QED
      BY <1>2, <3>1, <3>2, SuccessIsTold DEF RequestIsTold
  <2>2. CASE e.error # Serialized("none")
    <3>1. cause[q] \in Failures(StepOf(q))
      BY <1>3, <2>2 DEF NoFailure
    <3>2. /\ phase'[q] \in {"answering", "cleaning"}
          /\ result'[q] = Deserialized(Serialized(cause[q].error))
      BY <1>1, <1>3, <2>2 DEF Types, TypeOK, Fail
    <3>3. Tells(StatusFor(route[q], Deserialized(Serialized(cause[q].error))), cause[q])
      BY <1>2, <3>1, FailIsTold DEF Outcome
    <3> QED
      BY <1>2, <3>2, <3>3 DEF RequestIsTold
  <2> QED
    BY <2>1, <2>2
<1> QED
  BY <1>2, <1>4, <1>6, RestingIsTold DEF Told

LEMMA ToldClean ==
  ASSUME Types, Told, NEW q \in Request, Clean(q)
  PROVE  Told'
<1>1. /\ phase[q] = "cleaning" /\ phase'[q] = "answering" /\ route' = route
      /\ \/ UNCHANGED <<result, cause>>
         \/ /\ result'[q] = "Error"
            /\ cause'[q] = [NoFailure EXCEPT !.error = "Error"]
  BY DEF Types, TypeOK, Told, Clean
<1>2. cause' \in [Request -> Cause] /\ \A x \in Request \ {q} : cause'[x] = cause[x]
  BY DEF Clean, Told, Cause
<1>3. \A x \in Request \ {q} : Rests(x)
  BY <1>2 DEF Types, TypeOK, Clean, Rests, redis
<1>4. RequestIsTold(q)'
  BY <1>1, PlainErrorIsTold DEF Told, RequestIsTold
<1> QED
  BY <1>2, <1>3, <1>4, RestingIsTold DEF Told

LEMMA ToldAnswer ==
  ASSUME Types, Told, NEW q \in Request, Answer(q)
  PROVE  Told'
<1>1. /\ phase[q] = "answering" /\ phase'[q] = "answered"
      /\ status'[q] = StatusFor(route[q], result[q])
      /\ UNCHANGED cause
  BY DEF Types, TypeOK, Answer
<1>2. \A x \in Request \ {q} : Rests(x)
  BY DEF Types, TypeOK, Answer, Rests, redis
<1>3. RequestIsTold(q)'
  BY <1>1 DEF Told, RequestIsTold
<1> QED
  BY <1>1, <1>2, <1>3, RestingIsTold DEF Told

LEMMA ToldWorker ==
  ASSUME Told, NEW w \in Worker, StartWorker(w) \/ WorkerDies(w) \/ TakeJob(w)
  PROVE  Told'
<1>1. UNCHANGED <<phase, route, plan, at, result, status, cause, ended>>
  BY DEF StartWorker, WorkerDies, TakeJob, request_vars, redis
<1> QED
  BY <1>1, RestingIsTold DEF Told, Rests

\* The one who waits for a job is told how it ended, and nobody else.
LEMMA ToldEndJob ==
  ASSUME Types, Told, OneJob, NEW w \in Worker, EndJob(w)
  PROVE  Told'
<1>1. PICK j \in Job : j = job[w]
  BY DEF Types, TypeOK, EndJob
<1>2. PICK f \in Failures(j.name) \cup {NoFailure} :
       /\ j.name = "ping" => f = NoFailure
       /\ Report(j, f)
  BY <1>1 DEF EndJob
<1>3. UNCHANGED <<phase, route, plan, at, result, status>>
  BY DEF EndJob, request_vars
<1>4. CASE ~IsAwaited(j)
  <2>1. UNCHANGED <<ended, cause>>
    BY <1>2, <1>4 DEF Report
  <2> QED
    BY <1>3, <2>1, RestingIsTold DEF Told, Rests
<1>5. CASE IsAwaited(j) /\ j.name = "ping"
  <2>1. cause' = cause /\ ended' = ended \cup {[job |-> j, error |-> Serialized(f.error)]}
    BY <1>2, <1>5 DEF Report
  <2>2. \A x \in Request : phase[x] = "waiting" => JobOf(x) # j
    <3>1. \A x \in Request : phase[x] = "waiting" => JobOf(x).name \in JobName
      BY DEF Types, TypeOK, JobOf, JobFor
    <3> QED
      BY <1>5, <3>1, StepNames
  <2>3. \A x \in Request : Rests(x)
    BY <1>3, <2>1, <2>2 DEF Rests
  <2> QED
    BY <2>1, <2>3, RestingIsTold DEF Told
<1>6. CASE IsAwaited(j) /\ j.name # "ping"
  <2>1. PICK q \in Request : phase[q] = "waiting" /\ j = JobOf(q)
    BY <1>6 DEF IsAwaited, Ping
  <2>2. j.for = q /\ j.name = StepOf(q) /\ StepOf(q) \in JobName /\ IsARequests(j)
    BY <2>1 DEF Types, TypeOK, JobOf, JobFor, IsARequests
  <2>3. /\ ended' = ended \cup {[job |-> j, error |-> Serialized(f.error)]}
        /\ cause' = [cause EXCEPT ![q] = f]
    BY <1>2, <1>6, <2>2 DEF Report
  <2>4. cause' \in [Request -> Cause] /\ cause'[q] = f
    <3>1. StepOf(q) \in Step
      BY <2>2, StepNames
    <3>2. f \in Cause
      BY <1>2, <2>2, <3>1 DEF Cause
    <3> QED
      BY <2>3, <3>2 DEF Told
  <2>5. \A x \in Request \ {q} : JobOf(x) # j
    BY <2>1, JobsDiffer
  <2>6. \A x \in Request \ {q} : Rests(x)
    BY <1>3, <2>3, <2>5 DEF Rests, Told
  <2>7. RequestIsTold(q)'
    <3>1. JobOf(q)' = j /\ StepOf(q)' = StepOf(q)
      BY <1>3, <2>1 DEF JobOf, StepOf
    <3>2. \A e \in ended : e.job # j
      BY <1>1, <2>2 DEF OneJob, InOnePlace
    <3>3. HasEnded(j)' /\ \A e \in ended' : e.job = j => e.error = Serialized(f.error)
      <4> DEFINE new == [job |-> j, error |-> Serialized(f.error)]
      <4>1. new.job = j /\ new.error = Serialized(f.error)
        OBVIOUS
      <4> HIDE DEF new
      <4>2. ended' = ended \cup {new}
        BY <2>3 DEF new
      <4> QED
        BY <3>2, <4>1, <4>2 DEF HasEnded
    <3>4. f \in Failures(StepOf(q)) \cup {NoFailure}
      BY <1>2, <2>2
    <3> QED
      BY <1>3, <2>1, <2>4, <3>1, <3>3, <3>4 DEF RequestIsTold, HasEnded
  <2> QED
    BY <2>4, <2>6, <2>7, RestingIsTold DEF Told
<1> QED
  BY <1>4, <1>5, <1>6

LEMMA ToldNext == Types /\ Vouch /\ OneJob /\ Told /\ [Next]_vars => Told'
<1> SUFFICES ASSUME Types, Vouch, OneJob, Told, [Next]_vars PROVE Told'
  OBVIOUS
<1>1. CASE UNCHANGED vars
  BY <1>1, RestingIsTold DEF vars, request_vars, redis, Told, Rests
<1>2. CASE Start \/ Pong \/ PingTimesOut \/ ServerDies
  BY <1>2, ToldServer, ToldServerDies
<1>3. CASE \E q \in Request : Receive(q) \/ RefuseBody(q) \/ RequestSteps(q) \/ StopHearing(q)
  <2>1. CASE \E q \in Request : StopHearing(q)
    BY <2>1, RestingIsTold DEF StopHearing, request_vars, redis, Told, Rests
  <2> QED
    BY <1>3, <2>1, ToldReceive, ToldRefuseBody, ToldTakeStep, ToldAddJob, ToldAddJobFails,
       ToldWhenFinished, ToldClean, ToldAnswer DEF RequestSteps
<1>4. CASE \E w \in Worker : StartWorker(w) \/ WorkerDies(w) \/ WorkerSteps(w)
  BY <1>4, ToldWorker, ToldEndJob DEF WorkerSteps
<1> QED
  BY <1>1, <1>2, <1>3, <1>4 DEF Next

LEMMA ToldInit == Init => Told
BY DEF Init, Told, RequestIsTold, Cause

\* AnswersTellWhatHappened is an invariant of JobQueue: whatever git says, in whichever
\* process and on whichever route, and whichever processes die, the status of a
\* response tells what happened to the request.
THEOREM AnswersTell == Spec => []AnswersTellWhatHappened
<1>1. Told => AnswersTellWhatHappened
  BY DEF Told, RequestIsTold, Tells, AnswersTellWhatHappened
<1>2. Init => Vouch
  BY DEF Init, Vouch, Open
<1> QED
  BY <1>1, <1>2, ToldInit, ToldNext, OneJobInit, OneJobNext, VouchNext, TypesHold, PTL DEF Spec
=============================================================================
