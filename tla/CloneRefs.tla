----------------------------- MODULE CloneRefs -----------------------------
(***************************************************************************)
(* The refs of a local clone: who writes them, and what the repo's info    *)
(* makes of them.                                                          *)
(*                                                                         *)
(* The worker validates the URL of a connect request by pushing a          *)
(* temporary ref to it and deleting it again, one git process at a time,   *)
(* and only then makes it the origin; it fetches, which stores the         *)
(* branches of the origin and the tags on them; it pushes the pending      *)
(* commits of the server.  GET /repos/:repoId reads all these refs at any  *)
(* moment.                                                                 *)
(*                                                                         *)
(* This is one repo that is connected already, so its clone stays whatever *)
(* fails, and one worker, as ADR 16 has it.  The queue is a set: the order *)
(* of jobs is left open.  A commit, whose steps are in Commits, is one     *)
(* here, and its push another.                                             *)
(***************************************************************************)
EXTENDS Naturals, RemoteUrls

CONSTANTS
  Connect,   \* the requests that connect the repo to a URL
  Fetch,     \* the requests that fetch it
  Branch,    \* the names of branches
  First,     \* the URL that the repo is connected to at first
  NoJob      \* "the worker is idle"

ASSUME FirstIsAUrl == First \in Url

ASSUME RequestsAreDistinct == Connect \cap Fetch = {} /\ NoJob \notin Connect \cup Fetch

Request == Connect \cup Fetch

VARIABLES
  \* Of the server.
  phase,       \* of each request: is it waiting for its job, how did that end
  url,         \* what a connect request asks for
  \* Of the worker.
  job,         \* the request whose job it has
  stage,       \* the git process that it runs next for a connect request
  \* Of the clone.
  refs,        \* the refs in it
  origin,      \* the URL of its remote called origin
  \* Of the remotes.
  access,      \* what the credentials in the URL allow
  heads,       \* the branches
  tagged,      \* the branches on which a commit has a tag
  remoteTemps, \* the temporary refs, by the request that pushed each
  \* What a reader of the repo's info may rely on.
  lastFetched, \* the branches the last fetch found, those pushed since included
  everSeen,    \* the branches any fetch found, or any push made
  accepted     \* the URLs that have accepted a push

server == <<phase, url>>
worker == <<job, stage>>
clone == <<refs, origin>>
remotes == <<access, heads, tagged, remoteTemps>>
seen == <<lastFetched, everSeen>>
vars == <<server, worker, clone, remotes, seen, accepted>>

----------------------------------------------------------------------------
\* The refs that the code, and git on its behalf, writes.
TempRef(c) == [space |-> "temp", name |-> c]
TrackingRefs(B) == [space : {"remotes/origin"}, name : B]
PendingRefs(B) == [space : {"pending-commits"}, name : B]
Tags(B) == [space : {"tags"}, name : B]

Ref == TrackingRefs(Branch) \cup PendingRefs(Branch) \cup Tags(Branch)
       \cup {TempRef(c) : c \in Connect}

\* RefName.parse knows three kinds of refs, and throws on any other.
Parses(r) == r.space \in {"heads", "pending-commits", "remotes/origin"}

\* Mutant of IsRemote: every ref is taken for a branch of the remote.
IsAnyRef(r) == TRUE

IsRemote(r) == r.space = "remotes/origin"

\* GET /repos/:repoId, at this moment: it fails, or lists branches.
InfoFails == \E r \in refs : ~Parses(r)
InfoBranches == {r.name : r \in {r \in refs : IsRemote(r)}}

Access == {"none", "read", "write"}

Stage == {"idle", "asking", "preparing", "pushing", "forgetting", "retracting",
          "writing", "fetching"}

Init ==
  /\ phase = [q \in Request |-> "idle"]
  /\ url \in [Connect -> Url]
  /\ job = NoJob
  /\ stage = "idle"
  /\ refs = {}
  /\ origin = First
  /\ access \in [Url -> Access]
  /\ heads = [u \in Url |-> {}]
  /\ tagged = [u \in Url |-> {}]
  /\ remoteTemps = [u \in Url |-> {}]
  /\ lastFetched = {}
  /\ everSeen = {}
  /\ accepted = {First}

----------------------------------------------------------------------------
(***************************************************************************)
(* The server                                                              *)
(***************************************************************************)

\* The URL of the request is what is read back of the origin.
Reconnects(q) == q \in Connect /\ ReadBack(origin) = url[q]

\* The request arrives and adds its job, or is content with the origin it reads: see
\* Connections.  One that fails before it has a job leaves no more than one whose job does.
Receive(q) ==
  /\ phase[q] = "idle"
  /\ phase' = [phase EXCEPT ![q] = IF Reconnects(q) THEN "ok" ELSE "waiting"]
  /\ UNCHANGED <<url, worker, clone, remotes, seen, accepted>>

\* handleCommit leaves a pending ref: see Commits.
CommitTo(b) ==
  /\ refs' = refs \cup PendingRefs({b})
  /\ UNCHANGED <<server, worker, origin, remotes, seen, accepted>>

----------------------------------------------------------------------------
(***************************************************************************)
(* The worker                                                              *)
(***************************************************************************)
\* Mutant of TakeJob: the worker dispatches every job to handleConnect.
TakeJobToConnect(q) ==
  /\ stage = "idle"
  /\ phase[q] = "waiting"
  /\ job' = q
  /\ stage' = "asking"
  /\ UNCHANGED <<server, clone, remotes, seen, accepted>>

\* The worker takes the job of a request, whose name tells what to dispatch.
TakeJob(q) ==
  /\ stage = "idle"
  /\ phase[q] = "waiting"
  /\ job' = q
  /\ stage' = IF q \in Fetch THEN "fetching" ELSE "asking"
  /\ UNCHANGED <<server, clone, remotes, seen, accepted>>

Finish(result) ==
  /\ phase' = [phase EXCEPT ![job] = result]
  /\ job' = NoJob
  /\ stage' = "idle"
  /\ UNCHANGED url

Continue(from, to) ==
  /\ stage = from
  /\ stage' = to
  /\ UNCHANGED <<server, job>>

\* Whatever its stage, the git process fails, for a reason of its own or because
\* of the remote.
JobFails ==
  /\ stage # "idle"
  /\ Finish("failed")
  /\ UNCHANGED <<clone, remotes, seen, accepted>>

\* handleValidateRemote: `git ls-remote` reads the refs of the URL.
LsRemote ==
  /\ Continue("asking", "preparing")
  /\ access[url[job]] # "none"
  /\ UNCHANGED <<clone, remotes, seen, accepted>>

\* Four git processes make a commit, and `git update-ref` gives it a temporary ref.
MakeTempRef ==
  /\ Continue("preparing", "pushing")
  /\ refs' = refs \cup {TempRef(job)}
  /\ UNCHANGED <<origin, remotes, seen, accepted>>

\* `git push` of the ref needs write access.  Its answer may get lost.
PushTempRef ==
  /\ stage = "pushing"
  /\ access[url[job]] = "write"
  /\ remoteTemps' = [remoteTemps EXCEPT ![url[job]] = @ \cup {job}]
  /\ accepted' = accepted \cup {url[job]}
  /\ Continue("pushing", "forgetting") \/ Finish("failed")
  /\ UNCHANGED <<clone, access, heads, tagged, seen>>

\* Mutant of DeleteTempRef: the clone is not cleaned up.
KeepTempRef ==
  /\ Continue("forgetting", "retracting")
  /\ UNCHANGED <<clone, remotes, seen, accepted>>

\* `git update-ref -d` deletes it in the clone.
DeleteTempRef ==
  /\ Continue("forgetting", "retracting")
  /\ refs' = refs \ {TempRef(job)}
  /\ UNCHANGED <<origin, remotes, seen, accepted>>

\* `git push` of the empty ref deletes it on the remote.
DeleteRemoteTempRef ==
  /\ stage = "retracting"
  /\ access[url[job]] = "write"
  /\ remoteTemps' = [remoteTemps EXCEPT ![url[job]] = @ \ {job}]
  /\ Continue("retracting", "writing") \/ Finish("failed")
  /\ UNCHANGED <<clone, access, heads, tagged, seen, accepted>>

\* Mutant of SetOrigin: the origin is written while the URL is validated.
SetOriginEarly ==
  /\ stage \in {"preparing", "writing"}
  /\ origin' = url[job]
  /\ Finish("ok")
  /\ UNCHANGED <<refs, remotes, seen, accepted>>

\* handleSetOrigin.
SetOrigin ==
  /\ stage = "writing"
  /\ origin' = url[job]
  /\ Finish("ok")
  /\ UNCHANGED <<refs, remotes, seen, accepted>>

\* handleFetch: `git fetch` stores the branches of the origin and, of its own
\* accord, tags on what it stores.  It deletes no ref.
StoreFetched(B) ==
  /\ stage = "fetching"
  /\ access[origin] # "none"
  /\ \E T \in SUBSET tagged[origin] : refs' = refs \cup TrackingRefs(B) \cup Tags(T)
  /\ everSeen' = everSeen \cup B
  /\ UNCHANGED <<origin, remotes, accepted>>

FetchOrigin ==
  /\ StoreFetched(heads[origin])
  /\ lastFetched' = heads[origin]
  /\ Finish("ok")

\* It stores one ref after the other, and may fail in between: the connection
\* breaks, or a branch that was deleted since is in the way of a new one's name.
FetchSomeOfOrigin ==
  /\ \E B \in SUBSET heads[origin] : StoreFetched(B)
  /\ Finish("failed")
  /\ UNCHANGED lastFetched

\* handlePush: the push of a pending commit also stores the branch in the clone,
\* unless its answer gets lost.
PushCommit(b) ==
  /\ stage = "idle"
  /\ PendingRefs({b}) \subseteq refs
  /\ access[origin] = "write"
  /\ heads' = [heads EXCEPT ![origin] = @ \cup {b}]
  /\ accepted' = accepted \cup {origin}
  /\ \/ /\ refs' = refs \cup TrackingRefs({b})
        /\ lastFetched' = lastFetched \cup {b}
        /\ everSeen' = everSeen \cup {b}
     \/ UNCHANGED <<refs, seen>>
  /\ UNCHANGED <<server, worker, origin, access, tagged, remoteTemps>>

WorkerSteps ==
  \/ \E q \in Request : TakeJob(q)
  \/ LsRemote \/ MakeTempRef \/ PushTempRef \/ DeleteTempRef \/ DeleteRemoteTempRef
  \/ SetOrigin \/ FetchOrigin \/ FetchSomeOfOrigin \/ JobFails

----------------------------------------------------------------------------
(***************************************************************************)
(* The remotes                                                             *)
(***************************************************************************)
ChangeAccess(u, a) ==
  /\ access' = [access EXCEPT ![u] = a]
  /\ UNCHANGED <<server, worker, clone, heads, tagged, remoteTemps, seen, accepted>>

\* Somebody pushes a branch, deletes one, or tags its tip.
ChangeBranch(u, b) ==
  /\ \/ /\ heads' = [heads EXCEPT ![u] = @ \cup {b}]
        /\ UNCHANGED tagged
     \/ /\ heads' = [heads EXCEPT ![u] = @ \ {b}]
        /\ UNCHANGED tagged
     \/ /\ b \in heads[u]
        /\ tagged' = [tagged EXCEPT ![u] = @ \cup {b}]
        /\ UNCHANGED heads
  /\ UNCHANGED <<server, worker, clone, access, remoteTemps, seen, accepted>>

Next ==
  \/ \E q \in Request : Receive(q)
  \/ \E b \in Branch : CommitTo(b) \/ PushCommit(b)
  \/ WorkerSteps
  \/ \E u \in Url, a \in Access : ChangeAccess(u, a)
  \/ \E u \in Url, b \in Branch : ChangeBranch(u, b)

Spec == Init /\ [][Next]_vars

----------------------------------------------------------------------------
(***************************************************************************)
(* Properties                                                              *)
(***************************************************************************)
TypeOK ==
  /\ phase \in [Request -> {"idle", "waiting", "ok", "failed"}]
  /\ url \in [Connect -> Url]
  /\ stage \in Stage
  /\ job \in Request \cup {NoJob}
  /\ stage = "idle" <=> job = NoJob
  /\ stage = "fetching" <=> job \in Fetch
  /\ job # NoJob => phase[job] = "waiting"
  /\ refs \subseteq Ref
  /\ origin \in Url
  /\ access \in [Url -> Access]
  /\ heads \in [Url -> SUBSET Branch]
  /\ tagged \in [Url -> SUBSET Branch]
  /\ remoteTemps \in [Url -> SUBSET Connect]
  /\ lastFetched \subseteq Branch
  /\ everSeen \subseteq Branch
  /\ accepted \subseteq Url

\* What is left of a permission check, in the clone or on any remote, is left
\* by the check that goes on now or by one that failed: a URL that is accepted
\* has been cleaned up on both sides.
OnlyFailedChecksLeaveRefs == \A c \in Connect :
  TempRef(c) \in refs \/ (\E u \in Url : c \in remoteTemps[u]) =>
    phase[c] = "failed" \/ job = c

\* Whatever happens to access rights meanwhile, the origin of the clone is a URL
\* that has once accepted a push.
OriginHasAcceptedAPush == origin \in accepted

\* The info of a repo lists every branch that its last fetch found, and none that
\* no remote it was connected to has had: pending commits do not show.
InfoIsOfFetchedBranches ==
  ~InfoFails => lastFetched \subseteq InfoBranches /\ InfoBranches \subseteq everSeen

----------------------------------------------------------------------------
\* doc/features/repo_info.feature: "Once you've connected a repo, you can see
\* information about it", at least while no job is at work on its clone.
InfoCanBeSeen == job = NoJob => ~InfoFails
=============================================================================
