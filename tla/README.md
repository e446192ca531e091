# git-en-boite in TLA+

git-en-boite is a web service that keeps local clones of remote git repositories for
its consumers. They connect a repo to a remote URL, fetch it, commit files to its
branches, read its branches and files, and follow its domain events, all over HTTP.
This directory has TLA+ specifications of its logic, configurations with which TLC
checks them on small instances, and proofs that TLAPS checks for all instances.

Paths below are relative to `packages/` unless they start with `doc/`.

Contents: [the system](#the-system) ·
[the modules](#the-modules) ·
[how the modules follow the code](#how-the-modules-follow-the-code) ·
[runs](#runs) · [what the code does not keep](#what-the-code-does-not-keep) ·
[proofs](#proofs) · [not modelled](#not-modelled) · [plan](#plan)

To check a specification: `tlc -workers 2 -config ConnectRace.cfg MCConnections`;
to check proofs: `tlapm ConnectionsProofs.tla`.

## The system

Two kinds of processes and two shared stores:

- the **server** (`app/src/server.ts`): one Node.js process with one event loop. Each
  HTTP request is an async function; every `await` lets the others go on;
- the **worker** (`app/src/worker.ts`): a process that takes jobs from a queue, one at a
  time. ADR 16 (`doc/adr/0016-...`) reduced the workers to one, because git refuses to
  work on a clone in which another git process is at work;
- **Redis**: the queue (bullmq), and the channels of domain events;
- the **disk**: one directory for each repo, its local clone. Server and worker both run
  git in it.

| component | state | operations | what makes it correct |
|---|---|---|---|
| Application, `app/src/la_boîte.ts` | none of its own | connectToRemote, fetchFromRemote, commit, getInfo, getFileContent | each keeps its promise to the consumer under interleaving |
| Inventory, `inventory/src/inventory_of_repos_on_disk.ts` | the directories | create (a transaction that removes the directory if it fails), find, exists | only who made a directory removes it; a failed creation leaves nothing |
| Repo, `core/src/repo.ts` | none | setOriginTo, fetch, branches, commit, fileContent; emits the domain events | events tell what happened |
| Rule on repo.connected, `core/src/domain_rules` | none | starts a fetch | each connected repo is fetched |
| Local clones, direct, `local-clones/src/direct_local_clone.ts`, `bare_repo.ts`, `git_directory.ts`, `handlers/` | the clone: refs, config, index files | git processes, in sequence | no lost or mixed commits, no left-over refs or files |
| Background worker and queue, `local-clones/src/background_worker_local_clones.ts` | the jobs in Redis, the job of each worker | setOriginTo, fetch and push become jobs; the caller waits | one answer for each job, to its caller |
| Errors, `git_command_error.ts`, `core/src/errors.ts`, `core/src/serialize_errors.ts`, `web/src/routes/repos/handleRepoErrors.ts` | none | words of git → class → JSON → class → status | the status tells what happened |
| Events, `app/src/GlobalDomainEventBus.ts` | two connections to Redis | emit publishes, a message calls the listeners | each event reaches each listener once, in order |
| Event streams, `web/src/routes/events`, `web/src/routes/repos/events` | the listeners of each open response | write events, end at the awaited one | a stream misses nothing and ends when it should |
| Start-up, `app/src/server.ts`, `runProcess.ts` | the processes | ping the workers, serve, exit | does not serve without a worker |
| Messages of a clone, `message-dispatch`, `local-clones/src/operations.ts`, `bare_repo.ts` | none | a message goes to its handler, which may send others | each operation runs the processes of its messages |
| HTTP routes, `web/src/routes`, `validate_request.ts` | none | refuse a body that does not fit, call the application, answer | see the application |

How they interact: a route calls the application, which asks the inventory for a repo
(directory on disk) and calls it; the repo calls the local clone. `commit`, `getRefs`,
`getOrigin` and `showFile` run git in the server's own process, `setOriginTo`, `fetch`
and `push` go through the queue to the worker, which opens the same directory by its
path. Whoever emits an event calls the listeners of the local bus in the same step:
the rule that fetches, the log, and the global bus, which publishes to Redis; the
server gets the event back from Redis and writes it to the open streams.

What is hard: requests that interleave at every `await` between what they have read and
what they do with it (exists, then create; origin read, then compared; refs fetched, then
pushed over); a directory that one request deletes while others, and queued jobs, use it;
git processes that fail half-way in a handler that has no clean-up; waits without a
timeout; processes and connections that die; events that are published before anybody
listens. `PROJECT.json` lists these hazards, each at its line, with the properties that
are about it.

## The modules

| module | models | composes |
|---|---|---|
| `RemoteUrls` | the URLs of remotes, and what the server reads back of one | |
| `Links` | what connecting promises, abstractly | `RemoteUrls` |
| `Connections` | connect and fetch: server, disk, queue, workers | `RemoteUrls`, implements `Links` |
| `ConnectionsProofs` | theorems about `Connections`: the clones on the disk | |
| `LinksProofs` | theorems about `Connections`: jobs, events, origins, and that it implements `Links` | `ConnectionsProofs` |
| `Branches` | what committing promises, abstractly | |
| `Commits` | a commit from its request to its push, among others | implements `Branches` |
| `CommitsProofs` | theorems about `Commits`: types, histories, branches | |
| `BranchesProofs` | theorems about `Commits`: jobs, and that it implements `Branches` | `CommitsProofs` |
| `CloneRefs` | the refs of a clone, the check of a remote process by process, the info of a repo | `RemoteUrls` |
| `CloneRefsProofs` | theorems about `CloneRefs` | |
| `EventStream` | domain events from the emitter through Redis to the consumers' streams | |
| `EventStreamProofs` | theorems about `EventStream` | |
| `Messages` | the messages of a clone and the git processes behind each, as pure operators | |
| `Answers` | errors, steps of the routes and HTTP statuses, as pure operators | `Messages` |
| `JobQueue` | requests, jobs, and the life and death of server and worker | `Answers` |
| `JobQueueProofs` | theorems about `JobQueue` | |
| `MC...` | symmetry and values of constants, for TLC | |

The modules look at one program from five sides. Each abstracts what another details:
`Connections` has the validation of a remote as one step with its possible results, which
`CloneRefs` splits into its git processes; `Commits` and `CloneRefs` start from a clone
that exists, whose creation and removal are in `Connections`; `Commits` and `CloneRefs`
assume processes that stay up, `Connections` a worker that does, `JobQueue` none;
`EventStream` takes from `Connections` that a
fetch that was started ends with an event.

## How the modules follow the code

Common to all: an action is what runs between one `await` and the next, the code before
the first and after the last included, so every `await` is a point where anything else
may happen. (Some of these functions await something that is ready, such as
`inventoryOfRepos.exists`; the models then allow more interleavings than Node does, never
fewer.) An operation that runs one git process is one action, with a success and the
failures that the process may have. A process that has started ends: git may fail, not
hang. Names of the actions follow the functions; the map in `PROJECT.json` has the lines.

### Connections

State: of each request `pc` (the await at which it is), `repo`, `url`, `seen` (the origin
that it has read), `outcome` (how its job ended), `reason` (its error), `creators` (the
requests inside the transaction of `create`), `emitted`; of each repo the directory
`clone` (named by the request that made it), `bare` (git init has ended), `origin`; the
FIFO `queue`; of each worker `job`, `stage` and `listed` (did `git remote` show an origin).

| action | code |
|---|---|
| `ReceiveConnect`, `FindRepo`, `OpenClone` | `connectToRemote`: exists; find, openExisting |
| `CreateRepo`, `MakeDirectory`, `InitBare`, `Configure`, `FailInit` | `create`: exists again, createNew with mkdirSync, `git init`, the two `git config` of handleInit |
| `ReadOrigin`, `Reconnect`, `RequestOrigin` | `Repo.setOriginTo`: getOrigin, which may fail, the comparison, the job |
| `Connected`, `NotConnected` | whenFinished: repo.connected and the automatic fetch, or the error and, inside `create`, removeExisting |
| `ReceiveFetch`, `RequestFetch`, `Fetched`, `FetchFailed` | `fetchFromRemote`, `Repo.fetch` |
| `TakeJob`, `OpenForJob` | the worker's processJob |
| `ValidateRemote`, `ListRemotes`, `WriteOrigin`, `FailSetOrigin` | handleConnect, handleValidateRemote, handleSetOrigin |
| `EndFetch` | handleFetch |
| `ServerDies`, `OrphanInit` | the death and the new start of the server's process; the `git init` that survives it |

A `POST /repos` is a connect of a repo id that nobody else uses. Requests have made their
choice of repo and URL in the initial state.

When the server dies, its requests are cut off where they wait. What they have made stays
on the disk, their jobs stay in Redis and are done, for nobody, and a `git init` that was
running may still end, at once or later (`OrphanInit`), since it is another process. The
transaction of `create` has no record on the disk: nothing cleans up after it.

Any git process may fail, in any clone: it may find a lock, of a process at work or of one
that died, or a full disk. Where a step runs several processes one failure stands for all.

`ReadBack`, in `RemoteUrls`, is what handleGetConfig makes of the origin: it splits each
line at every `=` and keeps one part, so of a URL with a `=` in it (`CutUrl`) it shows the
beginning. Such a URL never equals itself: connecting it once more is not a reconnect but a
connect with its job and its fetch. The beginning may be a URL that another consumer gives,
and that consumer is told "reconnected" by a repo that is linked elsewhere; the run `CutUrl`
shows it.

`Links` is the promise: a repo's link changes in one step, to the URL of a request that
has not been answered, and only that request may then say that it succeeded, or one that
reads its own URL as the link and keeps it (`Keep`); a request that is refused has changed
nothing, unless it undoes the creation of the repo. `Keep` compares with what the link
reads as: `Links` promises what the code can keep, and the stronger promise is the one that
`CutUrl` refutes. The refinement maps `link` to the origin of the clone, and the phase of a
request to "linked" once its job has written the origin, or once it has read the origin
that it asks for.

### Commits

One repo whose clone exists, with an origin among several remotes. A commit is known by
the request that made it, a file by the commit that added it. `history` has the commits
each commit contains, `tree` its files, `tracking` refs/remotes/origin, `pending`
refs/pending-commits, `index` the index files, `remote` the branches of each remote,
`heard` the refs a worker's git process has been told by the remote that it talks to.

`ReceiveCommit`, `Fetched`, `ShowRef`, `ReadTree`, `ReadTreeFails`, `AddFiles`,
`CommitIndex`, `UpdateRef`, `RequestPush`, `CommitFails`, `Pushed` are `LaBoîte.commit`
and handleCommit inside withUniqueIndex, one git process each (`ReadTreeFails` is the
`.catch` of handleCommit.ts:52, which also catches what the `.then` before it threw, so
that a failing read-tree ends in a commit without a parent). `TakeJob`, `HearRefs`,
`StoreRefs`, `Push`, `JobFails`, `SetOrigin` are the worker; a fetch may fail after it has
stored some of the branches. A push is a compare-and-set
on the head that the remote had told; the answer to a push that the remote took may be
lost. `OutsidePush` and `OutsideDelete` are the other users of the remotes.

`Branches` is the promise. It has no clone, no queue and no worker: a commit that is still
unanswered joins its branch of one remote, once and in one step, beside what is there; a
request is told "committed" only after that. A commit brings nothing to a remote but what
has been on the same branch of some remote before, or what others have pushed: the pending
refs of refused and of slower commits stay in the clone and never show up with somebody
else's. `Branches` leaves open what the code leaves open: a request may be refused although
its commit has landed, when the answer of the remote is lost, and others may delete. The
refinement maps the content of a branch to the history of its head.

### CloneRefs

One connected repo and one worker; the queue is a set here, because the order of jobs is
`Connections`' matter. `Receive` is a request that goes to the queue; one that reads its own
URL as the origin ends there (`Reconnects`) and runs no check. `LsRemote`, `MakeTempRef`, `PushTempRef`, `DeleteTempRef`,
`DeleteRemoteTempRef`, `SetOrigin` are the processes of handleValidateRemote and
handleConnect, `JobFails` the failure of any of them; `FetchOrigin` stores the branches of
the origin, and the tags on them (`git fetch --depth=1` follows tags whose commit it
fetches), `FetchSomeOfOrigin` is a fetch that fails after it has stored some;
`CommitTo` and `PushCommit` are a commit and its push. `ChangeAccess` and `ChangeBranch`
are the owner and the users of the remotes, at any moment. `InfoFails` and
`InfoBranches` are `getInfo`, read in one step: `git show-ref` lists the refs at once.

### EventStream

`Connect`, `Reconnect`, `StartFetch`, `EndFetch` emit what `Repo` emits. `Publish` is
Redis taking the next event and passing it to the subscribed connection, `Deliver` the
listeners getting it. `BreakPub`, `BreakSub` and `Restore` are the two connections of
ioredis, which reconnects and then sends again the commands that had no answer:
`BreakPub` may therefore go back to any earlier event that is not sure to have arrived.
While the subscription is broken, published events are lost. `GiveUp` is the error
listener of connectToRedis, which outlives the first connection and ends the connection
for good; what is emitted after that is never published. `Open`, `Shows`, `Ends`,
`Close` are the two event routes.

The listener of a stream writes each event, and calls `end()` with the one that the
consumer awaits. The response ends when its consumer has read what it was sent (`End`);
until then the listener is still there. An event that comes in between is written after the
end, and this destroys the stream: nothing ends the response any more, and the consumer
keeps it open. The status of a stream goes from "open" to "ending" and then to "ended", or to "broken".

### Answers and JobQueue

`Answers` has no state. `ErrorFor` is GitCommandError.for (of the words of git only the
three kinds that it looks for are kept), `RemoteErrorFor` handleRemoteError, `Serialized`
and `Deserialized` the way through the queue with its list of constructors, `Plans` the
steps of each route, `Failures` how each step may fail, `Requires` the keys that the schema
of each route asks for, `QueryStatus` the answer to a query by what it finds, `ErrorStatus`
handleRepoErrors and `UnhandledStatus` what Koa makes of the rest.

`Messages` has the commands and queries of operations.ts: `MessageFor` is the message that
each operation of a clone sends, `Sends` the messages that its handler sends on, the
operators on `...Runs` the git commands that each handler runs itself, `Runs` the table of
handlers in bare_repo.ts, and `Dispatched` all that are run in the end. `Answers`
takes from it which steps run git at all, and so may fail with words of git.

`JobQueue`: `Start`, `Pong`, `PingTimesOut`, `ServerDies` are the server process,
`StartWorker` and `WorkerDies` that of a worker, `TakeJob` and `EndJob` processJob. A
request (`Receive`) goes through its plan by `TakeStep` (in the server), or `AddJob` and
`WhenFinished` (through the queue), then `Clean` (the catch of `create`) and `Answer`. A
job that a dead worker had is not queued again: bullmq (1.28) returns stalled jobs only
through a QueueScheduler, and the code creates none. waitUntilFinished has no timeout but
in the ping. `RefuseBody` is validateRequestBody, which answers before anything is called,
`AddJobFails` a Redis that refuses the job. `StopHearing` is the error listener of
connectToRedis, which outlives the first connection: when Redis refuses a later one, it
disconnects for good, and the server goes on without hearing of its jobs. Of ended jobs
the model keeps those somebody may still ask for.

## Runs

| run | instance | states | properties |
|---|---|---|---|
| `ConnectRace` | 3 connects, 1 repo, 2 URLs, one with a `=` and what comes before it, 2 workers, symmetry in connects and workers | 857 k | `TypeOK`, `CreatorOwnsClone`, `FailedCreationCleansUp`, `LostOnlyToFailedCreation`, `OneJobPerWaiter`, `ReconnectedMeansFetchStarted`, `OnlyItsCreatorRemoves`, `ConnectingKeepsItsPromise` |
| `ConnectLive` | 2 connects, 1 fetch, 1 repo, 1 URL, 1 worker, 1 death of the server | 147 k | `OneJobPerWaiter`, `WaitersHaveJobs`, `FetchFollowsConnection`, `UnusableClonesAreLeftovers`, `ReconnectedMeansFetchStarted`, `ConnectingKeepsItsPromise`, `EveryRequestSettles`, `ConnectedThenFetched` |
| `CommitRace` | 2 commits to one branch, 1 outside commit, 1 connect, 2 URLs, 1 worker | 273 k | `TypeOK`, `CommitsHoldTheirHistory`, `CommittedMeansPushed`, `WaitersHaveJobs`, `BranchesOnlyGrow`, `CommittingKeepsItsPromise`, `EveryCommitSettles` |
| `RefsAndInfo` | 2 connects, 1 fetch, 1 branch, 2 URLs, one with a `=` and what comes before it, symmetry in the connects | 354 k | `TypeOK`, `OnlyFailedChecksLeaveRefs`, `OriginHasAcceptedAPush`, `InfoIsOfFetchedBranches` |
| `EventStreams` | 1 stream, 2 repos, 2 events, 2 outages | 581 k | `TypeOK`, `OpenStreamsMissNothing`, `EndedByTheAwaited`, `AwaitedEventsEndStreams` |
| `Answered` | 2 requests of any route, 1 worker, 2 server starts, one word of each kind | 677 k | `TypeOK`, `OneJobAtATime`, `WaitersHaveJobs`, `ServesOnlyBesideAWorker`, `AnswersTellWhatHappened`, `AnsweredUnlessSomethingDied` |
| `LostClone`, `LeftoverClone`, `CutUrl`, `LeftoverIndex`, `InfoLost`, `WaitForFetch` | the smallest that show it | | one violated claim each, see below |

What the passing runs show:

- **ConnectRace.** From `mkdir` to its answer a creating request works in the directory
  that it made; a directory goes only with the failure of that request; what a failed
  creation leaves behind comes from git init or from the removal itself; a connected repo
  is lost in one way only, by joining a clone whose creator then fails; no caller gets the
  answer to another's job; a consumer who is told "reconnected" can rely on the fetch of a
  request that has connected the repo to a URL that reads as theirs; and connecting refines
  `Links`. All this with a URL that the server cannot read back, and with its beginning.
- **ConnectLive.** Every connect and fetch is answered, also when the clone disappears
  beneath it, and every repo.connected is followed by the event of its fetch, unless the
  server dies. Both rest on what holds at every moment: who waits has a job, or has been
  told how it ended, and a fetch has started with each repo.connected and ends with one
  event, of the kind of its end, or finds no repo. When it dies, at whatever moment, jobs
  still belong to one request each, a clone without an origin is the work in progress or
  the left-over of its creator, and connecting still refines `Links`. A consumer who is told "reconnected" can rely on the
  fetch of the request that connected the repo but for one case, which the property names:
  the server has died after the job and before repo.connected. No later connect starts
  that fetch, because the origin is there already.
- **CommitRace.** Commits prepared side by side do not mix files; a consumer that is told
  "committed" finds the commit in the branch of a remote; a push never rewinds a branch,
  however stale its parent; committing refines `Branches`; who waits has a job, and every
  commit is answered.
- **RefsAndInfo.** A check that has not failed leaves no ref on either side; the origin is
  always a URL that has once accepted a push; the info shows what was fetched.
- **EventStreams.** While the connections hold an open stream gets every event once and in
  order; whatever breaks, a stream ends with the event that it waits for and not before;
  while the connections hold it does end, unless another event is right behind.
- **Answered.** A request never has two jobs, and its job is the one that it waits for,
  whichever process or connection dies; that job is queued, at a worker that runs, or has
  ended and is reported, unless the worker that had it died or the connection is lost; the
  server serves only when a worker has been up
  since it started, stale pings in the queue notwithstanding; the status tells a denial, a
  lock, an invalid URL and a success apart after two processes and several catches; and
  there is an answer unless the server or the worker with the job died, the server has
  lost its connection to the queue for good, or no worker runs.

Why the bounds are enough. The races are between a creator and those who join or compete
with it: two connects of a repo show each of them, and the third lets one join while the two
others fight. One repo is enough because requests for different repos share nothing but
queue and workers, of which the two workers stand for any delay; the theorems hold for any
number of repos. Two URLs tell reconnecting from connecting; no two of them are
interchangeable, since `ReadBack` tells them apart, so there is no symmetry in URLs. Two
workers include one, and run git in one clone at a time, which ADR 16 is about. One death cuts off any set of requests at any of their steps, and leaves others
to come after it. Two commits compete for one branch; the outside commit makes the parent
stale; the second URL makes it foreign. One stream opened again and again is as good as
several, since streams do not affect each other; two events distinguish orders, losses and
repeats; two outages break both connections, or one twice. Two server starts leave a ping
of the first for the second. One word of each kind is enough because GitCommandError.for
asks only whether there is one.

Bounds that are constants: `MaxDeaths`, `MaxEvents`, `MaxOutages`, `MaxStarts`. All the
rest are the sizes of sets of requests, each of which arrives at most once.

Fairness. `Connections` and `Commits`: weak fairness of each request and of each worker,
because the event loop runs every callback that is ready, bullmq gives jobs to idle
workers, and git processes end. Requests need not arrive, and the outside never needs to
act. `EventStream`: weak fairness of the end of each fetch (that is what
`ConnectedThenFetched` shows), of `Publish` and `Deliver`, which are enabled only while
the connections are up, and of `End`, since a consumer reads what it is sent; connections
need not come back. `JobQueue`: weak fairness of
the start of serving, of each request's steps and of some worker's steps; processes may
die and stay dead.

## What the code does not keep

Six claims of the repository's documents and tests are violated; each has a run that
checks only that claim and finds a trace, and an entry under "findings" in `PROJECT.json`.

1. **`LostClone`.** Once connected, a repo can be seen (`doc/features/repo_info.feature`):
   a request that finds the directory of another request's unfinished creation connects
   it, is answered 200, and loses it when the creator fails and removes the directory.
2. **`LeftoverClone`.** After a failed connect there is no repo (same feature): when git
   init fails the directory stays, since `createNew` is outside the `try` of `create`.
3. **`CutUrl`.** A repo.reconnected is for a URL that is the same (`repo.spec.ts`), and a
   changed URL is linked (`doc/features/connect.feature`): a consumer that gives what comes
   before the `=` of a repo's URL is told "reconnected", and the link stays what it was.
4. **`LeftoverIndex`.** The index is cleaned up (`git_directory.spec.ts`): not when the
   operation fails.
5. **`InfoLost`.** Once connected, a repo can be seen: a single tag that git fetch follows,
   or the temporary ref of a check whose push failed, makes RefName.parse throw from then
   on. The trace is the one of the tag; with `Fetch = {}` it is a connect to another URL.
6. **`WaitForFetch`.** The smoke test waits for repo.fetched after it has connected the
   repo: if the fetch is faster, the stream never ends.

Met while reading, without a run of their own. A fetch concurrent with the automatic one
is answered 429 in `doc/features/fetch_after_connection.feature`, whose acceptance tests run
without the queue; through the queue it waits and succeeds. An event stream "ends the
request when a matching event occurs" (`web/src/routes/events/index.spec.ts`): not when
another event is right behind the one it waits for (the status "broken" of `EventStream`).
`GitDirectory.read` trims what it reads, so a file is
shown without its final newline, while `doc/features/read_file.feature` calls it
"effectively the same as running git show".

## Proofs

What is proved holds for any number of repos, requests, URLs, branches and workers. The
assumptions are those that the modules name: the placeholders (`NoClone`, `NoUrl`,
`NoJob`, ...) are no values of the sets they stand beside, kinds of requests do not
overlap, bounds are numbers, what comes before the first `=` of a URL has none itself. TLC
evaluates them in each run.

`ConnectionsProofs`:

| theorem | about |
|---|---|
| `TypeCorrect` | `Spec => []TypeOK` |
| `CreatorsOwnTheirClones` | `Spec => []CreatorOwnsClone` |
| `OnlyCreatorsRemove` | `Spec => OnlyItsCreatorRemoves` |
| `FailedCreationsCleanUp` | `Spec => []FailedCreationCleansUp` |
| `ReposAreLostToFailedCreations` | `Spec => []LostOnlyToFailedCreation` |

None of the properties is inductive. The inductive invariant is `CreationInv`:
`CreatorsAreInside` (who is among the creators has passed its mkdir and is in the
transaction, or has ended), `MadeByItsCreator` (a directory lies at the path of the
request that made it, and that request has passed its mkdir), `CreatorOwnsClone`,
`FailedCreationCleansUp`, and `LostAfterFound` (a request that has found a directory which
is gone by now had found that of another creator, which failed). Mkdir fails on an
existing directory: this is the one step at which `CreatorOwnsClone` could break for a
second creator, and `MadeByItsCreator` the reason why removal hits one's own directory.

`CloneRefsProofs`: `RefsAreTyped`, `OnlyFailuresLeaveRefs`, `OriginsHaveAccepted`,
`InfoIsWhatWasFetched`. The strengthenings tie each left-over to the process that comes
next: `LocalTempRefs` (the temporary ref is in the clone only between its making and its
deletion), `RemoteTempRefs` (on the remote only between the first and the second push),
`PushedFirst` (a check past its push has been accepted), `TrackingRefsHold` (tracking refs
are those that were fetched or pushed, since nothing prunes).

`CommitsProofs`:

| theorem | about |
|---|---|
| `TypeCorrect` | `Spec => []TypeOK` |
| `CommitsHold` | `Spec => []CommitsHoldTheirHistory` |
| `BranchesGrow` | `Spec => BranchesOnlyGrow` |
| `CommittedIsPushed` | `Spec => []CommittedMeansPushed` |

`Objects` says what git's objects are in between: `Histories` (the tree of a commit is its
history, and histories are closed under history), `Unmade` and `Indexes` (before a commit
is made, the index of its request, which no other request writes, has the files of its
parent, then its own too), `RefsAreMade` (no ref, and nothing that a worker has heard, names
a commit that is not made). `Tasks` says that each job is waited for, by one caller, and
stands in one place. The two together give `RemotesGrow`, one step at a time: a push that
the remote accepts is of a commit whose history has the head which the remote still has.
`Landings` keeps this for the request that hears of its push, until it answers.

`BranchesProofs`:

| theorem | about |
|---|---|
| `WaitersAreServed` | `Spec => []WaitersHaveJobs` |
| `CommittingImplementsBranches` | `Spec => CommittingKeepsItsPromise`, the refinement of `Branches` |

`WaitersHaveJobs` is inductive beside `TypeOK`: a job that leaves the queue goes to a worker,
and one that leaves a worker tells its caller (`TakeJobAbout`, `IdleAbout`). The refinement
needs three more invariants. `TipsArePublic`: whatever is known
as the tip of a branch, by the clone, a remote, a git process that talks to one, or a
request that builds on it, has a history of public commits only: those of others that have
been pushed and those of requests for that branch that a remote has taken.
`PreparedOnPublic`: a commit adds to what is public only itself; this is where it matters
that `ShowRef` reads the tracking ref, and no pending one. `TakenOnce`: a request whose
push has not ended has not landed. Public commits stay public (`PublicGrows`), so a
push that a remote accepts is one `Take` (`PushPublishes`), an outside push one `Share`, and
everything that happens in the clone and in the queue is a stutter.

`JobQueueProofs`:

| theorem | about |
|---|---|
| `TypeCorrect` | `Spec => []TypeOK` |
| `ServesBesideAWorker` | `Spec => []ServesOnlyBesideAWorker` |
| `OneJobHolds` | `Spec => []OneJobAtATime` |
| `WaitersAreServed` | `Spec => []WaitersHaveJobs` |
| `AnswersTell` | `Spec => []AnswersTellWhatHappened` |

Each rests on the invariants before it. `Types` adds to `TypeOK` that plans are sequences of
steps also where no request looks at them. `Vouch`: a running worker, an ended ping, a
serving server each imply that a worker has run since the start; it is inductive because
nothing that has ended outlives its server. `OneJob`: what is in the queue or at a worker
is the job that its request came to, what has ended is still awaited, and each job is in
one place, once; so a request that hears of its job has none left. `WaitersHaveJobs` is
inductive beside `Types` and `Vouch`: a server that starts, or gives up its ping, has no
request that could miss what it forgets; a worker that dies makes the request that waits
for its job one of the `lost`; `EndJob` reports to everybody who still waits. `Told` follows the cause
of a failure: through the queue (what has ended bears the class of the cause) to the status.
`FailureIsTold` is the lemma about the pure operators: for every route, step of it and words
of git, the status tells the failure.

`LinksProofs`:

| theorem | about |
|---|---|
| `OneJobHolds` | `Spec => []OneJobPerWaiter` |
| `WaitersAreServed` | `Spec => []WaitersHaveJobs` |
| `FetchesFollowConnections` | `Spec => []FetchFollowsConnection` |
| `ReconnectedReliesOnAFetch` | `Spec => []ReconnectedMeansFetchStarted` |
| `UnusableClonesAreLeftBehind` | `Spec => []UnusableClonesAreLeftovers` |
| `ConnectingImplementsLinks` | `Spec => ConnectingKeepsItsPromise`, the refinement of `Links` |

`WaitersHaveJobs` is inductive beside `TypeOK`. `FetchFollowsConnection` follows from
`EventInv`: a fetcher has emitted its event exactly if it has ended other than by finding no
repo (`FetchersTell`), and who is connected has started a fetcher (`ConnectedStarts`), which
nobody has started before (`FetchesAreStarted`, of the next invariant).

Two more invariants, beside `CreationInv`. `JobInv`: each job asks for what its caller
wants and is in one place (`JobsAreOK`, `JobsAreSingle`), outcomes come only to those who
have asked (`OutcomesAreAsked`), an automatic fetch follows a success (`FetchesAreStarted`),
and what a request has seen fits where it is (`SeenIsRead`). `OriginInv`: an origin on the
disk, and one that a request has seen, was written by the job of some request for that URL
(`OriginsAreLinked`, `SeenIsLinked`), which then starts its fetch (`LinkedMeansFetch`), and
the origin of a creator's own clone stays (`CreatedStaysLinked`). With these, each action
of `Connections` is one step of `Links` or none: the write of the origin is `Link`, a
removal in `create` is `Undo`, and the death of the server changes no phase.

`EventStreamProofs`:

| theorem | about |
|---|---|
| `TypeCorrect` | `Spec => []TypeOK` |
| `StreamsEndWithTheAwaited` | `Spec => []EndedByTheAwaited` |
| `OpenStreamsGetEverything` | `Spec => []OpenStreamsMissNothing` |
| `AwaitedEventsComeInTime` | `Spec => []AwaitedAreUnderWay`, which follows from the two before it |

`EndedByTheAwaited` needs that closed streams are empty. `OpenStreamsMissNothing` follows
from `Flow`, which is about the way from Redis: while the connections hold, what is new to
a stream is on its way once and in order (`InOrder`), later than all that the stream has
got (`GotInOrder`), and what has been published is on its way or here (`NothingLost`).
Numbers of old events may be on their way twice; the stream's own start divides the two.

Only model-checked: liveness under fairness, which is out of the prover's reach
(`EveryRequestSettles`, `ConnectedThenFetched`, `EveryCommitSettles`,
`AwaitedEventsEndStreams`, `AnsweredUnlessSomethingDied`). What these rest on at each moment
is proved: `WaitersAreServed`, three times, `FetchesFollowConnections` and
`AwaitedEventsComeInTime` say that whatever a request or a stream waits for is still about.
What is left to the runs is that those who have it go on. The proofs use no induction over
data and no module has a recursive operator.

## Not modelled

- **handleGetFiles**: no operation of LocalClone sends its message; the acceptance tests do.
- **Contents of files, messages, authors**: no decision depends on them.
- **Ended jobs in Redis**: the code never removes them and never reads them again.
- **Configuration, logging, Docker, test drivers**: no state that an operation changes.

## Plan

In the order in which it was done, the most important behaviour first:

1. `Connections` with `Links`, and its proofs: creation and removal of clones.
2. `Commits`: what is lost or mixed when files are committed.
3. `CloneRefs` and its proofs: the check of a remote, left-over refs, the repo's info.
4. `EventStream`: delivery and end of event streams.
5. `Answers`, `JobQueue`: errors, statuses, death of processes.
6. `JobQueueProofs`: types, the worker beside a serving server, one job at a time, answers.
7. `CommitsProofs`: types, no mixed files, no rewound branch, committed means pushed.
8. `Connections` with a server that dies and starts again, and with the URLs that
   handleGetConfig cuts.
9. `Messages`, and `JobQueue` with refused bodies, refused jobs and lost connections.
10. `LinksProofs`: one job each, origins and fetches, the refinement of `Links`.
11. `EventStreamProofs`: types, the end of a stream, its completeness.
12. `Branches` and `BranchesProofs`: the refinement of what committing promises; who waits
    has a job, in all three modules with a queue; the fetch of each connection.

What could follow: an abstract promise of `JobQueue` (each step of a request done by one
job, in order); the permission check of `CloneRefs` as an implementation of a single step;
a worker that dies in `Commits` and `CloneRefs`, and what it leaves in a
clone; the list of all files, once an operation sends its message.
