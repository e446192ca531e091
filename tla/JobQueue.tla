------------------------------ MODULE JobQueue ------------------------------
(***************************************************************************)
(* The server, the worker and the job queue between them, in the life and  *)
(* death of their processes.                                               *)
(*                                                                         *)
(* A server process starts by pinging the workers: it serves requests only *)
(* once a worker has taken its ping, and exits when none has in time.  A   *)
(* request goes through the steps of its route; the steps that are jobs    *)
(* wait in the queue, which is in Redis, until a worker takes them, and    *)
(* the request waits with them, without a timeout.                         *)
(*                                                                         *)
(* Either process may die at any moment.  The queue stays.  A job that     *)
(* died with its worker is not taken again: bullmq gives stalled jobs back *)
(* only where there is a QueueScheduler, and there is none.  A request     *)
(* that died with its server leaves its job in the queue.  A connection to *)
(* Redis that has been lost stays lost, while the process goes on.         *)
(***************************************************************************)
EXTENDS Naturals, Answers

CONSTANTS
  Request,    \* the requests of consumers
  Worker,     \* the places for worker processes, one by ADR 16
  MaxStarts,  \* bound: how often a server process is started
  NoJob       \* "the worker is idle"

ASSUME MaxStartsIsANumber == MaxStarts \in Nat

ASSUME NoJobIsNoJob == NoJob \notin [for : Request \cup 1..MaxStarts, name : JobName \cup {"ping"}]

VARIABLES
  \* Of the server.
  server,   \* what its process does
  starts,   \* how many server processes there have been
  phase,    \* of each request
  route,    \* what it asks for
  plan,     \* the steps of that
  at,       \* the step it has come to
  result,   \* what came of its steps
  status,   \* the status of the response
  \* Of Redis.
  queue,    \* the jobs that wait
  ended,    \* the jobs that have ended, if somebody may still ask, with the error
  \* Of the workers.
  up,       \* the process runs
  job,      \* the job it has taken
  \* What properties refer to.
  cause,    \* the failure that ended a request's steps
  vouched,  \* a worker process has run since this server process started
  lost      \* the requests that wait for a job and will never hear of it

server_vars == <<server, starts, vouched>>
request_vars == <<phase, route, plan, at, result, status>>
redis == <<queue, ended>>
workers == <<up, job>>
vars == <<server_vars, request_vars, redis, workers, cause, lost>>

NoFailure == [process |-> "none", stderr |-> {}, error |-> "none"]

\* A job is named by who waits for it.
JobFor(q, step) == [for |-> q, name |-> step]
Ping(n) == [for |-> n, name |-> "ping"]
StepOf(q) == plan[q][at[q]]
JobOf(q) == JobFor(q, StepOf(q))

Phase == {"idle", "running", "waiting", "cleaning", "answering", "answered", "cutOff"}
Open(q) == phase[q] \in {"running", "waiting", "cleaning", "answering"}

Init ==
  /\ server = "down"
  /\ starts = 0
  /\ vouched = FALSE
  /\ phase = [q \in Request |-> "idle"]
  /\ route = [q \in Request |-> "getRepo"]
  /\ plan = [q \in Request |-> <<>>]
  /\ at = [q \in Request |-> 1]
  /\ result = [q \in Request |-> "none"]
  /\ status = [q \in Request |-> 0]
  /\ queue = <<>>
  /\ ended = {}
  /\ up = [w \in Worker |-> FALSE]
  /\ job = [w \in Worker |-> NoJob]
  /\ cause = [q \in Request |-> NoFailure]
  /\ lost = {}

----------------------------------------------------------------------------
(***************************************************************************)
(* The server process                                                      *)
(***************************************************************************)
\* server.ts connects to Redis, then pings the workers.
Start ==
  /\ server = "down"
  /\ starts < MaxStarts
  /\ server' = "pinging"
  /\ starts' = starts + 1
  /\ vouched' = \E w \in Worker : up[w]
  /\ queue' = Append(queue, Ping(starts'))
  /\ UNCHANGED <<request_vars, ended, workers, cause, lost>>

\* The ping is answered: it starts to listen.
Pong ==
  /\ server = "pinging"
  /\ \E e \in ended : e.job = Ping(starts) /\ ended' = ended \ {e}
  /\ server' = "serving"
  /\ UNCHANGED <<starts, vouched, request_vars, queue, workers, cause, lost>>

\* Mutant of PingTimesOut: its error is swallowed.
PingTimesOutUnnoticed ==
  /\ server = "pinging"
  /\ server' = "serving"
  /\ UNCHANGED <<starts, vouched, request_vars, redis, workers, cause, lost>>

\* No answer within 5 seconds: runProcess exits.  The ping stays in the queue.
PingTimesOut ==
  /\ server = "pinging"
  /\ server' = "down"
  /\ ended' = {}
  /\ UNCHANGED <<starts, vouched, request_vars, queue, workers, cause, lost>>

\* The process dies, and with it what its requests were at.
ServerDies ==
  /\ server # "down"
  /\ server' = "down"
  /\ phase' = [q \in Request |-> IF Open(q) THEN "cutOff" ELSE phase[q]]
  /\ result' = [q \in Request |-> IF Open(q) THEN "none" ELSE result[q]]
  /\ cause' = [q \in Request |-> IF Open(q) THEN NoFailure ELSE cause[q]]
  /\ ended' = {}
  /\ lost' = {}
  /\ UNCHANGED <<starts, vouched, route, plan, at, status, queue, workers>>

----------------------------------------------------------------------------
(***************************************************************************)
(* Requests                                                                *)
(***************************************************************************)
\* A request arrives.
Receive(q) ==
  /\ server = "serving"
  /\ phase[q] = "idle"
  /\ phase' = [phase EXCEPT ![q] = "running"]
  /\ \E r \in Route : \E p \in Plans(r) :
       /\ route' = [route EXCEPT ![q] = r]
       /\ plan' = [plan EXCEPT ![q] = p]
  /\ UNCHANGED <<server_vars, at, result, status, redis, workers, cause, lost>>

\* The body is not JSON, or does not have what the schema of the route requires.
RefuseBody(q) ==
  /\ server = "serving"
  /\ phase[q] = "idle"
  /\ \E r \in Route : Requires(r) # {}
  /\ phase' = [phase EXCEPT ![q] = "answered"]
  /\ status' = [status EXCEPT ![q] = UnhandledStatus("BadRequest")]
  /\ cause' = [cause EXCEPT ![q] = [NoFailure EXCEPT !.error = "BadRequest"]]
  /\ UNCHANGED <<server_vars, route, plan, at, result, redis, workers, lost>>

\* Mutant of Succeed: the last step is not noticed.
SucceedOnceMore(q) ==
  /\ at' = [at EXCEPT ![q] = @ + 1]
  /\ phase' = [phase EXCEPT ![q] = "running"]
  /\ UNCHANGED <<route, plan, result, status>>

\* The step has succeeded: the next one, or the response.
Succeed(q) ==
  /\ IF at[q] < Len(plan[q])
     THEN /\ at' = [at EXCEPT ![q] = @ + 1]
          /\ phase' = [phase EXCEPT ![q] = "running"]
          /\ UNCHANGED result
     ELSE /\ phase' = [phase EXCEPT ![q] = "answering"]
          /\ result' = [result EXCEPT ![q] = "ok"]
          /\ UNCHANGED at
  /\ UNCHANGED <<route, plan, status>>

\* The step has failed.  When it fails after the repo was created, that is undone.
Fail(q, error) ==
  /\ phase' = [phase EXCEPT ![q] =
                 IF plan[q][1] = "create" /\ at[q] > 1 THEN "cleaning" ELSE "answering"]
  /\ result' = [result EXCEPT ![q] = error]
  /\ UNCHANGED <<route, plan, at, status>>

\* A step that the server takes itself.
TakeStep(q) ==
  /\ phase[q] = "running"
  /\ StepOf(q) \notin JobName
  /\ \/ /\ Succeed(q)
        /\ UNCHANGED cause
     \/ \E f \in Failures(StepOf(q)) :
          /\ Fail(q, ResultOf(StepOf(q), f.error))
          /\ cause' = [cause EXCEPT ![q] = f]
  /\ UNCHANGED <<server_vars, redis, workers, lost>>

\* Mutant of AddJob: the request does not wait for its job.
AddJobUnawaited(q) ==
  /\ phase[q] = "running"
  /\ StepOf(q) \in JobName
  /\ queue' = Append(queue, JobOf(q))
  /\ Succeed(q)
  /\ UNCHANGED <<server_vars, ended, workers, cause, lost>>

\* A step that is a job of the worker.
AddJob(q) ==
  /\ phase[q] = "running"
  /\ StepOf(q) \in JobName
  /\ queue' = Append(queue, JobOf(q))
  /\ phase' = [phase EXCEPT ![q] = "waiting"]
  /\ UNCHANGED <<server_vars, route, plan, at, result, status, ended, workers, cause, lost>>

\* Redis does not take it.
AddJobFails(q) ==
  /\ phase[q] = "running"
  /\ StepOf(q) \in JobName
  /\ Fail(q, "Error")
  /\ cause' = [cause EXCEPT ![q] = [NoFailure EXCEPT !.error = "Error"]]
  /\ UNCHANGED <<server_vars, redis, workers, lost>>

\* An error on the connection of the server's QueueEvents: the listener of connectToRedis
\* is still there from the first connection, and disconnects it for good, while the
\* process goes on.  No request that waits, now or later, hears of its job then; here
\* that may come to any of them, at any moment before its job ends.
StopHearing(q) ==
  /\ phase[q] = "waiting"
  /\ \A e \in ended : e.job # JobOf(q)
  /\ lost' = lost \cup {q}
  /\ UNCHANGED <<server_vars, request_vars, redis, workers, cause>>

\* The request hears how its job has ended, however long that takes.
WhenFinished(q) ==
  /\ phase[q] = "waiting"
  /\ \E e \in ended :
       /\ e.job = JobOf(q)
       /\ ended' = ended \ {e}
       /\ IF e.error = Serialized("none") THEN Succeed(q) ELSE Fail(q, Deserialized(e.error))
  /\ UNCHANGED <<server_vars, queue, workers, cause, lost>>

\* The catch of create: removeExisting may throw in turn, and then its error counts.
Clean(q) ==
  /\ phase[q] = "cleaning"
  /\ phase' = [phase EXCEPT ![q] = "answering"]
  /\ \/ UNCHANGED <<result, cause>>
     \/ /\ result' = [result EXCEPT ![q] = "Error"]
        /\ cause' = [cause EXCEPT ![q] = [NoFailure EXCEPT !.error = "Error"]]
  /\ UNCHANGED <<server_vars, route, plan, at, status, redis, workers, lost>>

\* The response; the handler has returned, and its variables are gone.
Answer(q) ==
  /\ phase[q] = "answering"
  /\ phase' = [phase EXCEPT ![q] = "answered"]
  /\ status' = [status EXCEPT ![q] = StatusFor(route[q], result[q])]
  /\ route' = [route EXCEPT ![q] = "getRepo"]
  /\ plan' = [plan EXCEPT ![q] = <<>>]
  /\ at' = [at EXCEPT ![q] = 1]
  /\ result' = [result EXCEPT ![q] = "none"]
  /\ UNCHANGED <<server_vars, redis, workers, cause, lost>>

RequestSteps(q) ==
  \/ TakeStep(q) \/ AddJob(q) \/ AddJobFails(q) \/ WhenFinished(q) \/ Clean(q) \/ Answer(q)

----------------------------------------------------------------------------
(***************************************************************************)
(* Worker processes                                                        *)
(***************************************************************************)
StartWorker(w) ==
  /\ ~up[w]
  /\ up' = [up EXCEPT ![w] = TRUE]
  /\ vouched' = TRUE
  /\ UNCHANGED <<server, starts, request_vars, redis, job, cause, lost>>

\* The process dies, or its connection to Redis does: the job that it has taken is gone.
WorkerDies(w) ==
  /\ up[w]
  /\ up' = [up EXCEPT ![w] = FALSE]
  /\ job' = [job EXCEPT ![w] = NoJob]
  /\ lost' = lost \cup {q \in Request : phase[q] = "waiting" /\ JobOf(q) = job[w]}
  /\ UNCHANGED <<server_vars, request_vars, redis, cause>>

\* The first in the queue.
TakeJob(w) ==
  /\ up[w] /\ job[w] = NoJob
  /\ queue # <<>>
  /\ job' = [job EXCEPT ![w] = Head(queue)]
  /\ queue' = Tail(queue)
  /\ UNCHANGED <<server_vars, request_vars, ended, up, cause, lost>>

\* Somebody in the server process that runs now waits for the job, and will hear of it.
IsAwaited(j) ==
  \/ server = "pinging" /\ j = Ping(starts)
  \/ \E q \in Request \ lost : phase[q] = "waiting" /\ j = JobOf(q)

\* Redis tells whoever waits.
Report(j, failure) ==
  IF IsAwaited(j)
  THEN /\ ended' = ended \cup {[job |-> j, error |-> Serialized(failure.error)]}
       /\ cause' = IF j.name = "ping" THEN cause ELSE [cause EXCEPT ![j.for] = failure]
  ELSE UNCHANGED <<ended, cause>>

\* Mutant of EndJob: a job that fails is never reported.
EndJobOnSuccess(w) ==
  /\ job[w] # NoJob
  /\ job' = [job EXCEPT ![w] = NoJob]
  /\ Report(job[w], NoFailure) \/ UNCHANGED <<ended, cause>>
  /\ UNCHANGED <<server_vars, request_vars, queue, up, lost>>

\* processJob returns, or throws.  A ping always succeeds.
EndJob(w) ==
  /\ job[w] # NoJob
  /\ job' = [job EXCEPT ![w] = NoJob]
  /\ \E f \in Failures(job[w].name) \cup {NoFailure} :
       /\ job[w].name = "ping" => f = NoFailure
       /\ Report(job[w], f)
  /\ UNCHANGED <<server_vars, request_vars, queue, up, lost>>

WorkerSteps(w) == TakeJob(w) \/ EndJob(w)

----------------------------------------------------------------------------
Next ==
  \/ Start \/ Pong \/ PingTimesOut \/ ServerDies
  \/ \E q \in Request : Receive(q) \/ RefuseBody(q) \/ RequestSteps(q) \/ StopHearing(q)
  \/ \E w \in Worker : StartWorker(w) \/ WorkerDies(w) \/ WorkerSteps(w)

Spec == Init /\ [][Next]_vars

\* The event loop and Redis go on as long as their processes run, and so does some worker.
FairSpec ==
  /\ Spec
  /\ WF_vars(Pong)
  /\ \A q \in Request : WF_vars(RequestSteps(q))
  /\ WF_vars(\E w \in Worker : WorkerSteps(w))

----------------------------------------------------------------------------
(***************************************************************************)
(* Properties                                                              *)
(***************************************************************************)
Job == [for : Request, name : JobName] \cup {Ping(n) : n \in 1..MaxStarts}

TypeOK ==
  /\ server \in {"down", "pinging", "serving"}
  /\ starts \in 0..MaxStarts
  /\ vouched \in BOOLEAN
  /\ phase \in [Request -> Phase]
  /\ route \in [Request -> Route]
  /\ \A q \in Request : phase[q] \notin {"idle", "answered"} =>
       plan[q] \in Plans(route[q]) /\ at[q] \in 1..Len(plan[q])
  /\ \A q \in Request : phase[q] = "waiting" => StepOf(q) \in JobName
  /\ result \in [Request -> Error \cup {"none", "ok", "nothing"}]
  /\ status \in [Request -> Status \cup {0}]
  /\ queue \in Seq(Job)
  /\ \A e \in ended : e.job \in Job /\ e.error.type \in Error \cup {"none"}
  /\ up \in [Worker -> BOOLEAN]
  /\ lost \subseteq Request
  /\ job \in [Worker -> Job \cup {NoJob}]
  /\ \A w \in Worker : job[w] # NoJob => up[w]

\* Where a request's job may be.
Queued(j) == {i \in 1..Len(queue) : queue[i] = j}
Taken(j) == {w \in Worker : job[w] = j}
HasEnded(j) == \E e \in ended : e.job = j

\* What a request has in the queue, or at a worker, is the one job that it waits for,
\* or waited for when its server died: it does nothing more until it knows how the job
\* ended, and nothing after a failure, whichever process dies.
OneJobAtATime == \A q \in Request, step \in JobName :
  LET j == JobFor(q, step) IN
  Queued(j) # {} \/ Taken(j) # {} =>
    /\ phase[q] \in {"waiting", "cutOff"} /\ j = JobOf(q)
    /\ ~HasEnded(j)
    /\ Queued(j) = {} \/ Taken(j) = {}
    /\ \A i, k \in Queued(j) : i = k
    /\ \A v, w \in Taken(j) : v = w

\* Conversely, nobody waits for what nobody will do: as long as a request may hear of its
\* job, the job is in the queue, or at a worker that runs, or how it ended is on its way,
\* whichever ping, earlier server process or other request that has been for.
WaitersHaveJobs == \A q \in Request \ lost : phase[q] = "waiting" =>
  LET j == JobOf(q) IN Queued(j) # {} \/ Taken(j) # {} \/ HasEnded(j)

\* While a request is served, the server has found more than Redis: since its process
\* started, a worker process has run.  Pings that earlier processes left behind do not
\* count.
ServesOnlyBesideAWorker ==
  (\E q \in Request : Open(q)) => server = "serving" /\ vouched

\* The response tells what happened, through two processes and however many catches:
\* a denial by the remote is a 403 and nothing else is; a lock is a 429, unless the
\* check of a new URL came across it; a 400 means that the check failed, or that the body
\* was refused; a 404 that there is no such repo to read, no such file in it, or no file
\* where the server keeps its repos; a success, that nothing failed.
IsDenied(failure) == failure.stderr \cap DenialWords # {}
IsLocked(failure) == failure.stderr \cap LockWords # {} /\ ~IsDenied(failure)
IsMissing(failure) ==
  \/ failure.error \in {"nothing", "ENOENT"}
  \/ failure.process = "show" /\ failure.stderr \cap PathWords # {}
AnswersTellWhatHappened == \A q \in Request : phase[q] = "answered" =>
  LET failed == cause[q] IN
  /\ status[q] \in {200, 201} <=> failed = NoFailure
  /\ status[q] = 403 <=> IsDenied(failed)
  /\ status[q] = 429 <=> IsLocked(failed) /\ ~ChecksRemote(failed.process)
  /\ status[q] = 400 => ChecksRemote(failed.process) \/ failed.error = "BadRequest"
  /\ status[q] = 404 <=> IsMissing(failed)

\* Every request is answered, unless its server dies or no longer hears how jobs end, or
\* the worker that has its job dies, or no worker runs at all.
AnsweredUnlessSomethingDied == \A q \in Request :
  Open(q) ~> \/ phase[q] \in {"answered", "cutOff"}
             \/ q \in lost
             \/ \A w \in Worker : ~up[w]
=============================================================================
