---------------------------- MODULE Connections ----------------------------
(***************************************************************************)
(* Connecting repos to their remotes, and fetching them.                   *)
(*                                                                         *)
(* The server runs every HTTP request as an async function on one event    *)
(* loop: each await is a point where other requests, and the background    *)
(* workers, may take steps.  A request to connect a repo creates the       *)
(* local clone if the repo is new (and removes it again if that fails),    *)
(* reads the clone's origin, and hands the change of origin to a worker    *)
(* through a FIFO queue in Redis.  A successful connection emits           *)
(* repo.connected, and a rule on that event starts a fetch, which goes     *)
(* through the same queue.  A worker is another process: it knows a clone  *)
(* only by its path.                                                       *)
(*                                                                         *)
(* The server may die and start again: its requests are cut off, and what  *)
(* they have made and asked for stays, on the disk and in Redis.           *)
(*                                                                         *)
(* Not here: the loss of a worker, the steps inside the validation of a    *)
(* remote, commits.                                                        *)
(***************************************************************************)
EXTENDS Naturals, Sequences, RemoteUrls

CONSTANTS
  Repo,     \* the repo ids
  Connect,  \* the requests to connect a repo (PUT /repos/:repoId, POST /repos)
  Fetch,    \* the requests to fetch a repo (POST /repos/:repoId/fetches)
  Worker,   \* the background workers
  MaxDeaths, \* bound: how often the server dies
  NoClone,  \* "no directory at the path of the repo"
  NoJob     \* "this worker is idle"

\* The fetch that the rule on repo.connected starts for a connect request.
AutoFetch(c) == <<"auto", c>>
AutoFetches == {AutoFetch(c) : c \in Connect}
Fetcher == Fetch \cup AutoFetches
Request == Connect \cup Fetcher

ASSUME RequestsAreDistinct ==
  /\ Connect \cap Fetcher = {}
  /\ Fetch \cap AutoFetches = {}

ASSUME MaxDeathsIsANumber == MaxDeaths \in Nat

ASSUME NoValues ==
  /\ NoClone \notin Connect
  /\ NoJob \notin [name : {"setOriginTo"}, repo : Repo, url : Url, caller : Connect]
  /\ NoJob \notin [name : {"fetch"}, repo : Repo, caller : Fetcher]

VARIABLES
  \* Of the server: one entry for each request.
  pc,       \* where the async function of the request waits
  repo,     \* the repo id of the request
  url,      \* the remote URL of a connect request
  creators, \* the connect requests inside the transaction of create()
  seen,     \* the origin a connect request has read
  outcome,  \* what the job of the request ended with
  reason,   \* the error the request fails with
  emitted,  \* the domain events emitted so far
  deaths,   \* how often its process has died
  \* Of the disk: one entry for each repo id.
  clone,    \* which connect request made the directory now at its path
  bare,     \* is that directory a git repo, git init having ended
  origin,   \* the URL of its remote called origin
  \* Of Redis and the workers.
  queue,    \* the jobs waiting
  job,      \* the job each worker has
  stage,    \* how far the worker is with it
  listed    \* did `git remote` list origin

server == <<pc, repo, url, creators, seen, reason, emitted, deaths>>
disk == <<clone, bare, origin>>
workers == <<job, stage, listed>>
vars == <<server, outcome, disk, queue, workers>>

----------------------------------------------------------------------------
SetOriginJob == [name : {"setOriginTo"}, repo : Repo, url : Url, caller : Connect]
FetchJob == [name : {"fetch"}, repo : Repo, caller : Fetcher]
Job == SetOriginJob \cup FetchJob

\* Where a worker is with the job of a connect request.
ConnectStage == {"validating", "listing", "writing"}

\* How a job ends.  An error keeps its class on the way back to the server.
Failure == {"denied", "invalid", "locked", "error"}
Outcome == {"none", "ok"} \cup Failure

\* Why a request fails: the failure of its job, or an error in the server.
Reason == {"none", "noSuchRepo", "noClone", "alreadyExists", "cloneExists",
           "gitError", "initFailed", "removeFailed"} \cup Failure

\* The awaits inside the transaction of create(), and those before it.
InTransaction == {"reading", "deciding", "waiting"}
ConnectStep == {"finding", "opening", "creating", "making", "initialising",
                "configuring"} \cup InTransaction
FetchStep == {"opening", "waiting"}
Settled == {"ok", "failed"}

\* Nothing more comes of the request: it has its answer, or its server has died.
Over == Settled \cup {"cutOff"}

EventName == {"repo.connected", "repo.reconnected", "repo.fetched",
              "repo.fetch-failed"}
Event == [name : EventName, repo : Repo, by : Request]

Exists(r) == clone[r] # NoClone
IsRepo(r) == Exists(r) /\ bare[r]

\* The workers that run git in the clone of a repo.
Running(r) == {w \in Worker : stage[w] \notin {"idle", "open"} /\ job[w].repo = r}

Emitted(name, q) == [name |-> name, repo |-> repo[q], by |-> q] \in emitted

Emit(name, q) ==
  emitted' = emitted \cup {[name |-> name, repo |-> repo[q], by |-> q]}

Goto(q, step) == pc' = [pc EXCEPT ![q] = step]

Fail(q, why) ==
  /\ pc' = [pc EXCEPT ![q] = "failed"]
  /\ reason' = [reason EXCEPT ![q] = why]

\* Nothing is connected yet, and the consumers have chosen what to ask for.
Init ==
  /\ pc = [q \in Request |-> "idle"]
  /\ repo \in [Request -> Repo]
  /\ \A c \in Connect : repo[AutoFetch(c)] = repo[c]
  /\ url \in [Connect -> Url]
  /\ creators = {}
  /\ seen = [c \in Connect |-> NoUrl]
  /\ outcome = [q \in Request |-> "none"]
  /\ reason = [q \in Request |-> "none"]
  /\ emitted = {}
  /\ deaths = 0
  /\ clone = [r \in Repo |-> NoClone]
  /\ bare = [r \in Repo |-> FALSE]
  /\ origin = [r \in Repo |-> NoUrl]
  /\ queue = <<>>
  /\ job = [w \in Worker |-> NoJob]
  /\ stage = [w \in Worker |-> "idle"]
  /\ listed = [w \in Worker |-> FALSE]

----------------------------------------------------------------------------
(***************************************************************************)
(* connectToRemote, in the server                                          *)
(***************************************************************************)

\* The request arrives, and LaBoîte asks the inventory whether the repo exists.
ReceiveConnect(c) ==
  /\ pc[c] = "idle"
  /\ Goto(c, IF Exists(repo[c]) THEN "finding" ELSE "creating")
  /\ UNCHANGED <<repo, url, creators, seen, reason, emitted, deaths, outcome, disk,
                 queue, workers>>

\* InventoryOfReposOnDisk.find asks again.
FindRepo(c) ==
  /\ pc[c] = "finding"
  /\ IF Exists(repo[c])
     THEN Goto(c, "opening") /\ UNCHANGED reason
     ELSE Fail(c, "noSuchRepo")
  /\ UNCHANGED <<repo, url, creators, seen, emitted, deaths, outcome, disk, queue, workers>>

\* DirectLocalClones.openExisting asks a third time.
OpenClone(c) ==
  /\ pc[c] = "opening"
  /\ IF Exists(repo[c])
     THEN Goto(c, "reading") /\ UNCHANGED reason
     ELSE Fail(c, "noClone")
  /\ UNCHANGED <<repo, url, creators, seen, emitted, deaths, outcome, disk, queue, workers>>

\* InventoryOfReposOnDisk.create asks again before it creates.
CreateRepo(c) ==
  /\ pc[c] = "creating"
  /\ IF Exists(repo[c])
     THEN Fail(c, "alreadyExists")
     ELSE Goto(c, "making") /\ UNCHANGED reason
  /\ UNCHANGED <<repo, url, creators, seen, emitted, deaths, outcome, disk, queue, workers>>

\* Mutant of MakeDirectory: it does not check that the path is free.
MakeDirectoryUnchecked(c) ==
  /\ pc[c] = "making"
  /\ Goto(c, "initialising")
  /\ clone' = [clone EXCEPT ![repo[c]] = c]
  /\ UNCHANGED <<repo, url, creators, seen, reason, emitted, deaths, outcome, bare, origin,
                 queue, workers>>

\* DirectLocalClones.createNew: no await parts the check from mkdirSync.
MakeDirectory(c) ==
  /\ pc[c] = "making"
  /\ IF Exists(repo[c])
     THEN /\ Fail(c, "cloneExists")
          /\ UNCHANGED disk
     ELSE /\ Goto(c, "initialising")
          /\ clone' = [clone EXCEPT ![repo[c]] = c]
          /\ UNCHANGED <<bare, origin, reason>>
  /\ UNCHANGED <<repo, url, creators, seen, emitted, deaths, outcome, queue, workers>>

\* The first of the git processes of handleInit, `git init --bare`, ends.
InitBare(c) ==
  /\ pc[c] = "initialising"
  /\ Goto(c, "configuring")
  /\ bare' = [bare EXCEPT ![repo[c]] = TRUE]
  /\ UNCHANGED <<repo, url, creators, seen, reason, emitted, deaths, outcome, clone,
                 origin, queue, workers>>

\* Mutant of Configure: the transaction runs outside create()'s try.
ConfigureOutsideTry(c) ==
  /\ pc[c] = "configuring"
  /\ Goto(c, "reading")
  /\ UNCHANGED <<repo, url, creators, seen, reason, emitted, deaths, outcome, disk, queue,
                 workers>>

\* The `git config` processes end, and create() starts its transaction.
Configure(c) ==
  /\ pc[c] = "configuring"
  /\ Goto(c, "reading")
  /\ creators' = creators \cup {c}
  /\ UNCHANGED <<repo, url, seen, reason, emitted, deaths, outcome, disk, queue, workers>>

\* One of those processes fails.  This is outside create()'s try: the directory
\* stays.
FailInit(c) ==
  /\ pc[c] \in {"initialising", "configuring"}
  /\ Fail(c, "initFailed")
  /\ UNCHANGED <<repo, url, creators, seen, emitted, deaths, outcome, disk, queue, workers>>

\* removeExisting deletes the directory, rmdirSync holding the event loop.
RemoveClone(r) ==
  /\ Exists(r)
  /\ clone' = [clone EXCEPT ![r] = NoClone]
  /\ bare' = [bare EXCEPT ![r] = FALSE]
  /\ origin' = [origin EXCEPT ![r] = NoUrl]

\* It finds no directory, or a worker's git writes a file into one that rmdirSync
\* has just emptied: what is left may be no git repo.
FailRemove(r) ==
  /\ Exists(r) => Running(r) # {}
  /\ \/ /\ bare' = [bare EXCEPT ![r] = FALSE]
        /\ origin' = [origin EXCEPT ![r] = NoUrl]
     \/ UNCHANGED <<bare, origin>>
  /\ UNCHANGED clone

\* Mutant of GiveUp: every request removes the clone, whoever created it.
GiveUpRemoving(c, why) ==
  \/ RemoveClone(repo[c]) /\ Fail(c, why)
  \/ FailRemove(repo[c]) /\ Fail(c, "removeFailed")

\* setOriginTo throws.  Inside create() the catch removes the clone and rethrows,
\* unless removing it throws as well.
GiveUp(c, why) ==
  \/ c \notin creators /\ Fail(c, why) /\ UNCHANGED disk
  \/ c \in creators /\ RemoveClone(repo[c]) /\ Fail(c, why)
  \/ c \in creators /\ FailRemove(repo[c]) /\ Fail(c, "removeFailed")

\* Repo.setOriginTo reads the origin with `git config --local --list`, which may fail.
ReadOrigin(c) ==
  /\ pc[c] = "reading"
  /\ \/ /\ IsRepo(repo[c])
        /\ Goto(c, "deciding")
        /\ seen' = [seen EXCEPT ![c] = ReadBack(origin[repo[c]])]
        /\ UNCHANGED <<reason, disk>>
     \/ /\ GiveUp(c, "gitError")
        /\ UNCHANGED seen
  /\ UNCHANGED <<repo, url, creators, emitted, deaths, outcome, queue, workers>>

\* Mutant of Reconnect: any origin will do.
ReconnectToAnyOrigin(c) ==
  /\ pc[c] = "deciding"
  /\ seen[c] # NoUrl
  /\ Emit("repo.reconnected", c)
  /\ Goto(c, "ok")
  /\ UNCHANGED <<repo, url, creators, seen, reason, deaths, outcome, disk, queue, workers>>

\* That process has ended, and the clone had this origin already.
Reconnect(c) ==
  /\ pc[c] = "deciding"
  /\ seen[c] = url[c]
  /\ Emit("repo.reconnected", c)
  /\ Goto(c, "ok")
  /\ UNCHANGED <<repo, url, creators, seen, reason, deaths, outcome, disk, queue, workers>>

\* Mutants of RequestOrigin: the job has no URL; the consumer is answered before
\* the job has run.
RequestOriginWithoutUrl(c) ==
  /\ pc[c] = "deciding"
  /\ seen[c] # url[c]
  /\ Goto(c, "waiting")
  /\ queue' = Append(queue, [name |-> "setOriginTo", repo |-> repo[c], caller |-> c])
  /\ UNCHANGED <<repo, url, creators, seen, reason, emitted, deaths, outcome, disk, workers>>

RequestOriginUnawaited(c) ==
  /\ pc[c] = "deciding"
  /\ seen[c] # url[c]
  /\ Emit("repo.connected", c)
  /\ Goto(c, "ok")
  /\ queue' = Append(queue, [name |-> "setOriginTo", repo |-> repo[c],
                             url |-> url[c], caller |-> c])
  /\ UNCHANGED <<repo, url, creators, seen, reason, deaths, outcome, disk, workers>>

\* It had another, or none: BackgroundGitRepoProxy.setOriginTo adds the job.
RequestOrigin(c) ==
  /\ pc[c] = "deciding"
  /\ seen[c] # url[c]
  /\ Goto(c, "waiting")
  /\ queue' = Append(queue, [name |-> "setOriginTo", repo |-> repo[c],
                             url |-> url[c], caller |-> c])
  /\ UNCHANGED <<repo, url, creators, seen, reason, emitted, deaths, outcome, disk, workers>>

\* LaBoîte.fetchFromRemote up to its first await: find asks whether the repo exists.
FetchStart(f) ==
  IF Exists(repo[f])
  THEN [step |-> "opening", why |-> "none"]
  ELSE [step |-> "failed", why |-> "noSuchRepo"]

\* Mutant of Connected: the rule is not registered.
ConnectedWithoutRule(c) ==
  /\ pc[c] = "waiting"
  /\ outcome[c] = "ok"
  /\ Emit("repo.connected", c)
  /\ Goto(c, "ok")
  /\ UNCHANGED <<repo, url, creators, seen, reason, deaths, outcome, disk, queue, workers>>

\* The job has succeeded: repo.connected is emitted, and in the same step the
\* rule on it starts the fetch.
Connected(c) ==
  /\ pc[c] = "waiting"
  /\ outcome[c] = "ok"
  /\ Emit("repo.connected", c)
  /\ LET f == AutoFetch(c)
     IN  /\ pc' = [pc EXCEPT ![c] = "ok", ![f] = FetchStart(f).step]
         /\ reason' = [reason EXCEPT ![f] = FetchStart(f).why]
  /\ UNCHANGED <<repo, url, creators, seen, deaths, outcome, disk, queue, workers>>

\* The job has failed.
NotConnected(c) ==
  /\ pc[c] = "waiting"
  /\ outcome[c] \in Failure
  /\ GiveUp(c, outcome[c])
  /\ UNCHANGED <<repo, url, creators, seen, emitted, deaths, outcome, queue, workers>>

ConnectSteps(c) ==
  \/ FindRepo(c) \/ OpenClone(c)
  \/ CreateRepo(c) \/ MakeDirectory(c) \/ InitBare(c) \/ Configure(c) \/ FailInit(c)
  \/ ReadOrigin(c) \/ Reconnect(c) \/ RequestOrigin(c)
  \/ Connected(c) \/ NotConnected(c)

----------------------------------------------------------------------------
(***************************************************************************)
(* fetchFromRemote, in the server: for a consumer, or for the rule         *)
(***************************************************************************)

\* The request arrives.
ReceiveFetch(f) ==
  /\ pc[f] = "idle"
  /\ Goto(f, FetchStart(f).step)
  /\ reason' = [reason EXCEPT ![f] = FetchStart(f).why]
  /\ UNCHANGED <<repo, url, creators, seen, emitted, deaths, outcome, disk, queue, workers>>

\* openExisting asks again; then BackgroundGitRepoProxy.fetch adds the job.
RequestFetch(f) ==
  /\ pc[f] = "opening"
  /\ IF Exists(repo[f])
     THEN /\ Goto(f, "waiting")
          /\ queue' = Append(queue, [name |-> "fetch", repo |-> repo[f], caller |-> f])
          /\ UNCHANGED reason
     ELSE /\ Fail(f, "noClone")
          /\ UNCHANGED queue
  /\ UNCHANGED <<repo, url, creators, seen, emitted, deaths, outcome, disk, workers>>

\* Repo.fetch: the job has succeeded.
Fetched(f) ==
  /\ pc[f] = "waiting"
  /\ outcome[f] = "ok"
  /\ Emit("repo.fetched", f)
  /\ Goto(f, "ok")
  /\ UNCHANGED <<repo, url, creators, seen, reason, deaths, outcome, disk, queue, workers>>

\* Mutant of FetchFailed: the error is rethrown before the event is emitted.
FetchFailedSilently(f) ==
  /\ pc[f] = "waiting"
  /\ outcome[f] \in Failure
  /\ Fail(f, outcome[f])
  /\ UNCHANGED <<repo, url, creators, seen, emitted, deaths, outcome, disk, queue, workers>>

\* Repo.fetch: the job has failed.
FetchFailed(f) ==
  /\ pc[f] = "waiting"
  /\ outcome[f] \in Failure
  /\ Emit("repo.fetch-failed", f)
  /\ Fail(f, outcome[f])
  /\ UNCHANGED <<repo, url, creators, seen, deaths, outcome, disk, queue, workers>>

FetchSteps(f) == RequestFetch(f) \/ Fetched(f) \/ FetchFailed(f)

----------------------------------------------------------------------------
(***************************************************************************)
(* processJob, in a worker                                                 *)
(***************************************************************************)

\* Mutant of TakeJob: the job stays in the queue until it has ended.
TakeJobLeavingIt(w) ==
  /\ stage[w] = "idle"
  /\ queue # <<>>
  /\ job' = [job EXCEPT ![w] = Head(queue)]
  /\ stage' = [stage EXCEPT ![w] = "open"]
  /\ UNCHANGED <<server, outcome, disk, queue, listed>>

\* bullmq gives an idle worker the oldest job.
TakeJob(w) ==
  /\ stage[w] = "idle"
  /\ queue # <<>>
  /\ job' = [job EXCEPT ![w] = Head(queue)]
  /\ queue' = Tail(queue)
  /\ stage' = [stage EXCEPT ![w] = "open"]
  /\ listed' = [listed EXCEPT ![w] = FALSE]
  /\ UNCHANGED <<server, outcome, disk>>

\* Mutant of Finish: an error of the worker itself, such as a clone that is
\* gone, is logged but not rethrown to the queue.
FinishSwallowingErrors(w, result) ==
  /\ outcome' = IF result = "error" THEN outcome
                ELSE [outcome EXCEPT ![job[w].caller] = result]
  /\ job' = [job EXCEPT ![w] = NoJob]
  /\ stage' = [stage EXCEPT ![w] = "idle"]

\* The worker tells the caller how its job ended, and is idle again.
Finish(w, result) ==
  /\ outcome' = [outcome EXCEPT ![job[w].caller] = result]
  /\ job' = [job EXCEPT ![w] = NoJob]
  /\ stage' = [stage EXCEPT ![w] = "idle"]

\* openExisting, in the worker: the clone may be gone by now.
OpenForJob(w) ==
  /\ stage[w] = "open"
  /\ IF Exists(job[w].repo)
     THEN /\ stage' = [stage EXCEPT ![w] = IF job[w].name = "fetch"
                                           THEN "fetching" ELSE "validating"]
          /\ UNCHANGED <<outcome, job>>
     ELSE Finish(w, "error")
  /\ UNCHANGED <<server, disk, queue, listed>>

\* What handleValidateRemote may end with: the remote decides, any error from it but a
\* denial being reported as an invalid URL; any of the other git processes may fail, of
\* itself or because another one has locked the clone, or died and left its lock; and
\* they need a git repo to succeed in.
ValidationResults(w) ==
  {"denied", "invalid", "locked", "error"} \cup (IF IsRepo(job[w].repo) THEN {"ok"} ELSE {})

\* handleConnect: the remote is validated before anything is written.
ValidateRemote(w) ==
  /\ stage[w] = "validating"
  /\ \E result \in ValidationResults(w) :
       IF result = "ok"
       THEN stage' = [stage EXCEPT ![w] = "listing"] /\ UNCHANGED <<outcome, job>>
       ELSE Finish(w, result)
  /\ UNCHANGED <<server, disk, queue, listed>>

\* handleSetOrigin: `git remote` lists the remotes.
ListRemotes(w) ==
  /\ stage[w] = "listing"
  /\ IsRepo(job[w].repo)
  /\ stage' = [stage EXCEPT ![w] = "writing"]
  /\ listed' = [listed EXCEPT ![w] = origin[job[w].repo] # NoUrl]
  /\ UNCHANGED <<server, outcome, disk, queue, job>>

\* `git remote set-url` needs the remote to exist, `git remote add` needs it not to.
CanWriteOrigin(w) ==
  /\ IsRepo(job[w].repo)
  /\ listed[w] <=> origin[job[w].repo] # NoUrl

\* handleSetOrigin: the chosen one of the two commands succeeds.
WriteOrigin(w) ==
  /\ stage[w] = "writing"
  /\ CanWriteOrigin(w)
  /\ origin' = [origin EXCEPT ![job[w].repo] = job[w].url]
  /\ Finish(w, "ok")
  /\ UNCHANGED <<server, clone, bare, queue, listed>>

\* One of its processes fails: the clone has changed since, another process locks the
\* config or has died and left its lock there, or for a reason of its own.
FailSetOrigin(w) ==
  /\ stage[w] \in {"listing", "writing"}
  /\ Finish(w, "error")
  /\ UNCHANGED <<server, disk, queue, listed>>

\* What `git fetch origin` may end with.
FetchResults(w) ==
  {"denied", "locked", "error"}
    \cup (IF IsRepo(job[w].repo) /\ origin[job[w].repo] # NoUrl THEN {"ok"} ELSE {})

\* handleFetch ends.
EndFetch(w) ==
  /\ stage[w] = "fetching"
  /\ \E result \in FetchResults(w) : Finish(w, result)
  /\ UNCHANGED <<server, disk, queue, listed>>

WorkerSteps(w) ==
  \/ TakeJob(w) \/ OpenForJob(w)
  \/ ValidateRemote(w) \/ ListRemotes(w) \/ WriteOrigin(w) \/ FailSetOrigin(w)
  \/ EndFetch(w)

----------------------------------------------------------------------------
(***************************************************************************)
(* The death of the server                                                 *)
(***************************************************************************)

\* Its process dies, and another starts.
ServerDies ==
  /\ deaths < MaxDeaths
  /\ deaths' = deaths + 1
  /\ pc' = [q \in Request |-> IF pc[q] \in Settled \cup {"idle"} THEN pc[q] ELSE "cutOff"]
  /\ UNCHANGED <<repo, url, creators, seen, reason, emitted, outcome, disk, queue, workers>>

\* A `git init` that it was running is another process, and may still end, now or later.
OrphanInit(c) ==
  /\ pc[c] = "cutOff"
  /\ clone[repo[c]] = c
  /\ ~bare[repo[c]]
  /\ bare' = [bare EXCEPT ![repo[c]] = TRUE]
  /\ UNCHANGED <<server, outcome, clone, origin, queue, workers>>

----------------------------------------------------------------------------
\* Every consumer has its answer, and every fetch that was started has ended.
Terminated ==
  /\ \A q \in Connect \cup Fetch : pc[q] \in Over
  /\ \A f \in AutoFetches : pc[f] \in Over \cup {"idle"}
  /\ UNCHANGED vars

Next ==
  \/ \E c \in Connect : ReceiveConnect(c) \/ ConnectSteps(c) \/ OrphanInit(c)
  \/ \E f \in Fetch : ReceiveFetch(f)
  \/ \E f \in Fetcher : FetchSteps(f)
  \/ \E w \in Worker : WorkerSteps(w)
  \/ ServerDies
  \/ Terminated

Spec == Init /\ [][Next]_vars

\* The event loop runs every request that can go on, and every worker works.
Fairness ==
  /\ \A c \in Connect : WF_vars(ConnectSteps(c))
  /\ \A f \in Fetcher : WF_vars(FetchSteps(f))
  /\ \A w \in Worker : WF_vars(WorkerSteps(w))

FairSpec == Spec /\ Fairness

----------------------------------------------------------------------------
(***************************************************************************)
(* Properties                                                              *)
(***************************************************************************)

ServerTypeOK ==
  /\ pc \in [Request -> {"idle"} \cup ConnectStep \cup FetchStep \cup Over]
  /\ repo \in [Request -> Repo]
  /\ url \in [Connect -> Url]
  /\ creators \subseteq Connect
  /\ seen \in [Connect -> Shown]
  /\ outcome \in [Request -> Outcome]
  /\ reason \in [Request -> Reason]
  /\ emitted \subseteq Event
  /\ deaths \in 0..MaxDeaths

DiskTypeOK ==
  /\ clone \in [Repo -> Connect \cup {NoClone}]
  /\ bare \in [Repo -> BOOLEAN]
  /\ origin \in [Repo -> Url \cup {NoUrl}]

\* A worker has a job exactly while it is busy, and one of the kind that its
\* stage belongs to.
WorkerTypeOK ==
  /\ job \in [Worker -> Job \cup {NoJob}]
  /\ stage \in [Worker -> {"idle", "open", "fetching"} \cup ConnectStage]
  /\ \A w \in Worker :
       /\ stage[w] = "idle" <=> job[w] = NoJob
       /\ stage[w] \in ConnectStage => job[w] \in SetOriginJob
       /\ stage[w] = "fetching" => job[w] \in FetchJob
  /\ listed \in [Worker -> BOOLEAN]

TypeOK == ServerTypeOK /\ DiskTypeOK /\ queue \in Seq(Job) /\ WorkerTypeOK

\* From its mkdir to its last word, the directory at the path of the repo is
\* the one that a creating request made itself: whatever the others do, it is
\* not replaced, and a failed creation never deletes the clone of another.
Creating(c) ==
  \/ pc[c] \in {"initialising", "configuring"}
  \/ c \in creators /\ pc[c] \in InTransaction

CreatorOwnsClone == \A c \in Connect : Creating(c) => clone[repo[c]] = c

\* A directory leaves its path only by the hand of the request that made it, as
\* that request fails.
OnlyItsCreatorRemoves ==
  [][\A r \in Repo : Exists(r) /\ clone'[r] # clone[r] =>
       /\ clone'[r] = NoClone
       /\ clone[r] \in creators
       /\ pc'[clone[r]] = "failed"]_vars

\* A failed creation leaves nothing on the disk, but for the two failures that
\* create() does not clean up after: git init, and the removal itself.
FailedCreationCleansUp == \A c \in Connect :
  pc[c] = "failed" /\ clone[repo[c]] = c => reason[c] \in {"initFailed", "removeFailed"}

\* A directory that is no git repo, or has no origin, is one that its creator is
\* still at work on, or has left: git init or the removal failed, or the server died.
UnusableClonesAreLeftovers == \A r \in Repo :
  Exists(r) /\ (~bare[r] \/ origin[r] = NoUrl) =>
    LET c == clone[r]
    IN  \/ Creating(c)
        \/ pc[c] = "cutOff"
        \/ pc[c] = "failed" /\ reason[c] \in {"initFailed", "removeFailed"}

\* A request that reads its URL as the origin starts no fetch.  It can rely on the fetch of
\* the request that connected it, giving a URL that reads so: that one has started, or will
\* as soon as the request hears of its job, unless the server has died between the two.
ReconnectedMeansFetchStarted == \A c \in Connect :
  Emitted("repo.reconnected", c) =>
    \E d \in Connect :
      /\ repo[d] = repo[c] /\ ReadBack(url[d]) = url[c] /\ outcome[d] = "ok"
      /\ pc[AutoFetch(d)] # "idle" \/ pc[d] \in {"waiting", "cutOff"}

\* A repo that was connected disappears for one reason only: the request that
\* created it, and that this one had joined, has failed meanwhile.
LostOnlyToFailedCreation == \A c \in Connect :
  pc[c] = "ok" /\ ~Exists(repo[c]) =>
    \E d \in creators \ {c} : repo[d] = repo[c] /\ pc[d] = "failed"

\* Every job belongs to a request that waits for it, or did when its server died,
\* and has no result yet, and no request has two: no caller is answered for the job
\* of another.
JobsOf(q) ==
  {<<"queued", i>> : i \in {i \in DOMAIN queue : queue[i].caller = q}} \cup
  {<<"taken", w>> : w \in {w \in Worker : job[w] # NoJob /\ job[w].caller = q}}

OneJobPerWaiter == \A q \in Request :
  /\ JobsOf(q) # {} => pc[q] \in {"waiting", "cutOff"} /\ outcome[q] = "none"
  /\ \A i, j \in JobsOf(q) : i = j

\* A request that waits, and has not been told how its job ended, has one: nobody waits
\* for what nobody will do, whatever became of the clone.
WaitersHaveJobs == \A q \in Request :
  pc[q] = "waiting" /\ outcome[q] = "none" => JobsOf(q) # {}

\* In the step that emits repo.connected the rule starts a fetch.  It still goes on, or
\* has emitted one event, of the kind of its end; it may end without one only if the repo
\* was gone when the fetch looked for it, or with its server.
FetchFollowsConnection == \A c \in Connect :
  Emitted("repo.connected", c) =>
    LET f == AutoFetch(c)
        EndedBy(name) == \A n \in {"repo.fetched", "repo.fetch-failed"} :
          Emitted(n, f) <=> n = name
    IN  \/ pc[f] \in FetchStep \cup {"cutOff"}
        \/ pc[f] = "failed" /\ reason[f] \in {"noSuchRepo", "noClone"}
        \/ pc[f] = "ok" /\ EndedBy("repo.fetched")
        \/ pc[f] = "failed" /\ EndedBy("repo.fetch-failed")

\* A request has taken effect once its job has, or once it has read the origin that it
\* asks for.
TookEffect(c) == seen[c] = url[c] \/ outcome[c] = "ok"

\* The phase of a request, as Links has it.
Phase(c) ==
  CASE pc[c] = "idle" -> "idle"
    [] pc[c] = "ok" -> "ok"
    [] pc[c] = "failed" -> "refused"
    [] OTHER -> IF TookEffect(c) THEN "linked" ELSE "pending"

\* The origin of the clone is the link.
Promise == INSTANCE Links WITH
  target <- [c \in Connect |-> [repo |-> repo[c], url |-> url[c]]],
  link <- origin,
  phase <- [c \in Connect |-> Phase(c)]

\* Connecting implements Links: a link changes in one step, to the URL of a request that
\* is still unanswered, and only that request may be told that it succeeded, or one that
\* has read the link as its own URL.
ConnectingKeepsItsPromise == Promise!Spec

\* No request waits for ever, and no fetch, whatever becomes of the clone it
\* works on, unless its server dies.
EveryRequestSettles == \A q \in Request : pc[q] # "idle" ~> pc[q] \in Over

\* Every repo.connected is followed by the repo.fetched or the
\* repo.fetch-failed of the fetch it starts, unless the repo is gone when the
\* fetch looks for it, which is logged only, or the server dies.
ConnectedThenFetched == \A c \in Connect :
  Emitted("repo.connected", c) ~>
    \/ Emitted("repo.fetched", AutoFetch(c))
    \/ Emitted("repo.fetch-failed", AutoFetch(c))
    \/ reason[AutoFetch(c)] \in {"noSuchRepo", "noClone"}
    \/ pc[AutoFetch(c)] = "cutOff"

----------------------------------------------------------------------------
\* What the repository's documents say, and the code does not do.

\* doc/features/repo_info.feature: "Once you've connected a repo, you can see
\* information about it."
ConnectedRepoCanBeSeen == \A c \in Connect : pc[c] = "ok" => Exists(repo[c])

\* doc/features/repo_info.feature, "Failed to connect": when a consumer has
\* failed to connect to a remote repo, there is no such repo.
FailedConnectLeavesNoRepo == \A c \in Connect :
  pc[c] = "failed" /\ (\A d \in Connect \ {c} : pc[d] = "idle") => ~Exists(repo[c])

\* packages/core/src/repo.spec.ts, "emits a repo.reconnected event if the new url is the
\* same", while doc/features/connect.feature has a repo that is given another URL linked
\* to that: only a repo that has been connected to this very URL is reconnected.
ReconnectedIsToTheSameUrl == \A c \in Connect :
  Emitted("repo.reconnected", c) =>
    \E d \in Connect : repo[d] = repo[c] /\ url[d] = url[c] /\ outcome[d] = "ok"
=============================================================================
