-------------------------- MODULE CloneRefsProofs --------------------------
(***************************************************************************)
(* What CloneRefs promises, for any requests, branches and remotes.        *)
(*                                                                         *)
(* The argument: a temporary ref is in the clone only from the update-ref  *)
(* that makes it to the one that deletes it, and on the remote only from   *)
(* its push to the push that deletes it, unless the check has failed in    *)
(* between; and a URL that has got past the first push has accepted one.   *)
(***************************************************************************)
EXTENDS CloneRefs, TLAPS

\* Where the temporary refs of a check that has not failed may be.
LocalTempRefs == \A c \in Connect :
  TempRef(c) \in refs => phase[c] = "failed" \/ (job = c /\ stage \in {"pushing", "forgetting"})

RemoteTempRefs == \A c \in Connect, u \in Url :
  c \in remoteTemps[u] =>
    phase[c] = "failed" \/ (job = c /\ u = url[c] /\ stage \in {"forgetting", "retracting"})

\* The first push has been accepted.
PushedFirst == stage \in {"forgetting", "retracting", "writing"} => url[job] \in accepted

\* The tracking refs hold what was fetched or pushed, and are never deleted.
TrackingRefsHold ==
  /\ TrackingRefs(lastFetched) \subseteq refs
  /\ \A b \in Branch : TrackingRefs({b}) \subseteq refs => b \in everSeen

CheckInv == LocalTempRefs /\ RemoteTempRefs

OriginInv == PushedFirst /\ OriginHasAcceptedAPush

----------------------------------------------------------------------------
(***************************************************************************)
(* Types                                                                   *)
(***************************************************************************)
LEMMA RefsHaveTheirType ==
  ASSUME NEW B \in SUBSET Branch
  PROVE  /\ TrackingRefs(B) \subseteq Ref
         /\ PendingRefs(B) \subseteq Ref
         /\ Tags(B) \subseteq Ref
BY DEF TrackingRefs, PendingRefs, Tags, Ref

LEMMA TempRefsHaveTheirType ==
  ASSUME NEW c \in Connect
  PROVE  TempRef(c) \in Ref
BY DEF Ref

LEMMA TypeOKHolds == Init => TypeOK
BY FirstIsAUrl, RequestsAreDistinct
   DEF Init, TypeOK, Access, Stage, Request, Ref

\* The steps of the server and of the remotes.
LEMMA TypeOKSteps ==
  TypeOK /\ [Next]_vars => TypeOK'
<1> SUFFICES ASSUME TypeOK, [Next]_vars
             PROVE  TypeOK'
  OBVIOUS
<1> USE RequestsAreDistinct DEF TypeOK, server, worker, clone, remotes, seen
<1>1. ASSUME NEW q \in Request, Receive(q)
      PROVE  TypeOK'
  BY <1>1 DEF Receive
<1>2. ASSUME NEW b \in Branch, CommitTo(b)
      PROVE  TypeOK'
  BY <1>2, RefsHaveTheirType DEF CommitTo
<1>3. ASSUME NEW b \in Branch, PushCommit(b)
      PROVE  TypeOK'
  BY <1>3, RefsHaveTheirType DEF PushCommit
<1>4. ASSUME NEW q \in Request, TakeJob(q)
      PROVE  TypeOK'
  BY <1>4 DEF TakeJob, Stage, Request
<1>5. CASE LsRemote
  BY <1>5 DEF LsRemote, Continue, Stage, Request
<1>6. CASE MakeTempRef
  <2>1. job \in Connect
    BY <1>6 DEF MakeTempRef, Continue, Request
  <2> QED
    BY <1>6, <2>1, TempRefsHaveTheirType DEF MakeTempRef, Continue, Stage, Request
<1>7. CASE PushTempRef
  <2>1. job \in Connect /\ url[job] \in Url
    BY <1>7 DEF PushTempRef, Request
  <2>2. remoteTemps' \in [Url -> SUBSET Connect] /\ accepted' \subseteq Url
    BY <1>7, <2>1 DEF PushTempRef
  <2>3. CASE Continue("pushing", "forgetting")
    BY <1>7, <2>2, <2>3 DEF PushTempRef, Continue, Stage, Request
  <2>4. CASE Finish("failed")
    BY <1>7, <2>2, <2>4 DEF PushTempRef, Finish, Stage, Request
  <2> QED
    BY <1>7, <2>3, <2>4 DEF PushTempRef
<1>8. CASE DeleteTempRef
  BY <1>8 DEF DeleteTempRef, Continue, Stage, Request
<1>9. CASE DeleteRemoteTempRef
  <2>1. job \in Connect /\ url[job] \in Url
    BY <1>9 DEF DeleteRemoteTempRef, Request
  <2>2. remoteTemps' \in [Url -> SUBSET Connect]
    BY <1>9, <2>1 DEF DeleteRemoteTempRef
  <2>3. CASE Continue("retracting", "writing")
    BY <1>9, <2>2, <2>3 DEF DeleteRemoteTempRef, Continue, Stage, Request
  <2>4. CASE Finish("failed")
    BY <1>9, <2>2, <2>4 DEF DeleteRemoteTempRef, Finish, Stage, Request
  <2> QED
    BY <1>9, <2>3, <2>4 DEF DeleteRemoteTempRef
<1>10. CASE SetOrigin
  BY <1>10 DEF SetOrigin, Finish, Stage, Request
<1>11. CASE FetchOrigin
  <2>1. heads[origin] \in SUBSET Branch
    OBVIOUS
  <2>2. PICK T \in SUBSET tagged[origin] :
          refs' = refs \cup TrackingRefs(heads[origin]) \cup Tags(T)
    BY <1>11 DEF FetchOrigin, StoreFetched
  <2>3. refs' \subseteq Ref
    BY <2>1, <2>2, RefsHaveTheirType
  <2> QED
    BY <1>11, <2>1, <2>3 DEF FetchOrigin, StoreFetched, Finish, Stage, Request
<1>12. CASE FetchSomeOfOrigin
  <2>1. PICK B \in SUBSET heads[origin] : StoreFetched(B)
    BY <1>12 DEF FetchSomeOfOrigin
  <2>2. B \in SUBSET Branch
    OBVIOUS
  <2>3. PICK T \in SUBSET tagged[origin] :
          refs' = refs \cup TrackingRefs(B) \cup Tags(T)
    BY <2>1 DEF StoreFetched
  <2>4. refs' \subseteq Ref
    BY <2>2, <2>3, RefsHaveTheirType
  <2> QED
    BY <1>12, <2>1, <2>2, <2>4 DEF FetchSomeOfOrigin, StoreFetched, Finish, Stage, Request
<1>13. CASE JobFails
  BY <1>13 DEF JobFails, Finish, Stage, Request
<1>14. ASSUME NEW u \in Url, NEW a \in Access, ChangeAccess(u, a)
       PROVE  TypeOK'
  BY <1>14 DEF ChangeAccess
<1>15. ASSUME NEW u \in Url, NEW b \in Branch, ChangeBranch(u, b)
       PROVE  TypeOK'
  BY <1>15 DEF ChangeBranch
<1>16. CASE UNCHANGED vars
  BY <1>16 DEF vars
<1> QED
  BY <1>1, <1>2, <1>3, <1>4, <1>5, <1>6, <1>7, <1>8, <1>9, <1>10, <1>11, <1>12,
     <1>13, <1>14, <1>15, <1>16 DEF Next, WorkerSteps

\* In every state, the worker's stage fits its job, whose request waits for it; the
\* refs are those the code writes.
THEOREM RefsAreTyped == Spec => []TypeOK
BY TypeOKHolds, TypeOKSteps, PTL DEF Spec

----------------------------------------------------------------------------
(***************************************************************************)
(* The permission check                                                    *)
(***************************************************************************)
LEMMA TempRefsAreApart ==
  ASSUME NEW c \in Connect, NEW B
  PROVE  TempRef(c) \notin TrackingRefs(B) \cup PendingRefs(B) \cup Tags(B)
BY DEF TempRef, TrackingRefs, PendingRefs, Tags

\* A step that starts or ends no check, and moves no temporary ref.
LEMMA CheckInvKept ==
  ASSUME CheckInv, UNCHANGED <<url, remoteTemps, job, stage>>,
         \A c \in Connect : TempRef(c) \in refs' => TempRef(c) \in refs,
         \A c \in Connect : phase[c] = "failed" => phase'[c] = "failed"
  PROVE  CheckInv'
BY DEF CheckInv, LocalTempRefs, RemoteTempRefs, TempRef

\* A job that ends with a failure excuses the refs that it leaves.
LEMMA CheckInvFailed ==
  ASSUME TypeOK, CheckInv, Finish("failed"),
         \A c \in Connect : TempRef(c) \in refs' => TempRef(c) \in refs,
         \A c \in Connect, u \in Url : c \in remoteTemps'[u] => c \in remoteTemps[u] \/ c = job
  PROVE  CheckInv'
BY DEF CheckInv, LocalTempRefs, RemoteTempRefs, TempRef, Finish, TypeOK, Request

LEMMA CheckInvSteps ==
  TypeOK /\ CheckInv /\ [Next]_vars => CheckInv'
<1> SUFFICES ASSUME TypeOK, CheckInv, [Next]_vars
             PROVE  CheckInv'
  OBVIOUS
<1> USE DEF server, worker, clone, remotes, seen
<1>1. ASSUME NEW q \in Request, Receive(q)
      PROVE  CheckInv'
  BY <1>1, CheckInvKept DEF Receive, TypeOK
<1>2. ASSUME NEW b \in Branch, CommitTo(b)
      PROVE  CheckInv'
  BY <1>2, CheckInvKept, TempRefsAreApart DEF CommitTo
<1>3. ASSUME NEW b \in Branch, PushCommit(b)
      PROVE  CheckInv'
  BY <1>3, CheckInvKept, TempRefsAreApart DEF PushCommit
<1>4. ASSUME NEW q \in Request, TakeJob(q)
      PROVE  CheckInv'
  BY <1>4, RequestsAreDistinct
     DEF TakeJob, CheckInv, LocalTempRefs, RemoteTempRefs, TempRef, TypeOK
<1>5. CASE LsRemote
  BY <1>5 DEF LsRemote, Continue, CheckInv, LocalTempRefs, RemoteTempRefs, TempRef
<1>6. CASE MakeTempRef
  BY <1>6 DEF MakeTempRef, Continue, CheckInv, LocalTempRefs, RemoteTempRefs, TempRef
<1>7. CASE PushTempRef
  <2>1. CASE Continue("pushing", "forgetting")
    BY <1>7, <2>1
       DEF PushTempRef, Continue, CheckInv, LocalTempRefs, RemoteTempRefs, TempRef, TypeOK
  <2>2. CASE Finish("failed")
    BY <1>7, <2>2, CheckInvFailed DEF PushTempRef, TypeOK
  <2> QED
    BY <1>7, <2>1, <2>2 DEF PushTempRef
<1>8. CASE DeleteTempRef
  BY <1>8 DEF DeleteTempRef, Continue, CheckInv, LocalTempRefs, RemoteTempRefs, TempRef
<1>9. CASE DeleteRemoteTempRef
  <2>1. CASE Continue("retracting", "writing")
    BY <1>9, <2>1
       DEF DeleteRemoteTempRef, Continue, CheckInv, LocalTempRefs, RemoteTempRefs, TempRef, TypeOK
  <2>2. CASE Finish("failed")
    BY <1>9, <2>2, CheckInvFailed DEF DeleteRemoteTempRef, TypeOK
  <2> QED
    BY <1>9, <2>1, <2>2 DEF DeleteRemoteTempRef
<1>10. CASE SetOrigin
  BY <1>10 DEF SetOrigin, Finish, CheckInv, LocalTempRefs, RemoteTempRefs, TempRef, TypeOK
<1>11. CASE FetchOrigin
  <2>1. job \in Fetch /\ stage = "fetching"
    BY <1>11 DEF FetchOrigin, StoreFetched, TypeOK
  <2>2. \A c \in Connect : TempRef(c) \in refs' => TempRef(c) \in refs
    BY <1>11, TempRefsAreApart DEF FetchOrigin, StoreFetched
  <2> QED
    BY <1>11, <2>1, <2>2, RequestsAreDistinct
       DEF FetchOrigin, StoreFetched, Finish, CheckInv, LocalTempRefs, RemoteTempRefs, TempRef, TypeOK
<1>12. CASE FetchSomeOfOrigin
  <2>1. \A c \in Connect : TempRef(c) \in refs' => TempRef(c) \in refs
    BY <1>12, TempRefsAreApart DEF FetchSomeOfOrigin, StoreFetched
  <2> QED
    BY <1>12, <2>1, CheckInvFailed DEF FetchSomeOfOrigin, StoreFetched
<1>13. CASE JobFails
  BY <1>13, CheckInvFailed DEF JobFails
<1>14. ASSUME NEW u \in Url, NEW a \in Access, ChangeAccess(u, a)
       PROVE  CheckInv'
  BY <1>14, CheckInvKept DEF ChangeAccess
<1>15. ASSUME NEW u \in Url, NEW b \in Branch, ChangeBranch(u, b)
       PROVE  CheckInv'
  BY <1>15, CheckInvKept DEF ChangeBranch
<1>16. CASE UNCHANGED vars
  BY <1>16, CheckInvKept DEF vars
<1> QED
  BY <1>1, <1>2, <1>3, <1>4, <1>5, <1>6, <1>7, <1>8, <1>9, <1>10, <1>11, <1>12,
     <1>13, <1>14, <1>15, <1>16 DEF Next, WorkerSteps

\* Whatever happens between the processes of a permission check, only one that fails
\* leaves a temporary ref, in the clone or on the remote.
THEOREM OnlyFailuresLeaveRefs == Spec => []OnlyFailedChecksLeaveRefs
<1>1. Init => CheckInv
  BY DEF Init, CheckInv, LocalTempRefs, RemoteTempRefs
<1>2. CheckInv => OnlyFailedChecksLeaveRefs
  BY DEF CheckInv, LocalTempRefs, RemoteTempRefs, OnlyFailedChecksLeaveRefs
<1> QED
  BY <1>1, <1>2, CheckInvSteps, RefsAreTyped, PTL DEF Spec

----------------------------------------------------------------------------
(***************************************************************************)
(* The origin                                                              *)
(***************************************************************************)
LEMMA OriginInvSteps ==
  TypeOK /\ OriginInv /\ [Next]_vars => OriginInv'
<1> SUFFICES ASSUME TypeOK, OriginInv, [Next]_vars
             PROVE  OriginInv'
  OBVIOUS
<1> USE DEF OriginInv, PushedFirst, OriginHasAcceptedAPush, server, worker, clone, remotes, seen
<1>1. ASSUME NEW q \in Request, Receive(q)
      PROVE  OriginInv'
  BY <1>1 DEF Receive
<1>2. ASSUME NEW b \in Branch, CommitTo(b) \/ PushCommit(b)
      PROVE  OriginInv'
  BY <1>2 DEF CommitTo, PushCommit
<1>3. ASSUME NEW q \in Request, TakeJob(q)
      PROVE  OriginInv'
  BY <1>3 DEF TakeJob
<1>4. CASE LsRemote \/ MakeTempRef \/ DeleteTempRef
  BY <1>4 DEF LsRemote, MakeTempRef, DeleteTempRef, Continue
<1>5. CASE PushTempRef
  BY <1>5 DEF PushTempRef, Continue, Finish
<1>6. CASE DeleteRemoteTempRef
  BY <1>6 DEF DeleteRemoteTempRef, Continue, Finish
<1>7. CASE SetOrigin
  BY <1>7 DEF SetOrigin, Finish
<1>8. CASE FetchOrigin \/ FetchSomeOfOrigin \/ JobFails
  BY <1>8 DEF FetchOrigin, FetchSomeOfOrigin, JobFails, StoreFetched, Finish
<1>9. ASSUME NEW u \in Url, NEW a \in Access, ChangeAccess(u, a)
      PROVE  OriginInv'
  BY <1>9 DEF ChangeAccess
<1>10. ASSUME NEW u \in Url, NEW b \in Branch, ChangeBranch(u, b)
       PROVE  OriginInv'
  BY <1>10 DEF ChangeBranch
<1>11. CASE UNCHANGED vars
  BY <1>11 DEF vars
<1> QED
  BY <1>1, <1>2, <1>3, <1>4, <1>5, <1>6, <1>7, <1>8, <1>9, <1>10, <1>11
     DEF Next, WorkerSteps

\* Whoever changes access rights meanwhile, the origin is a URL that has accepted a push.
THEOREM OriginsHaveAccepted == Spec => []OriginHasAcceptedAPush
<1>1. Init => OriginInv
  BY DEF Init, OriginInv, PushedFirst, OriginHasAcceptedAPush
<1>2. OriginInv => OriginHasAcceptedAPush
  BY DEF OriginInv
<1> QED
  BY <1>1, <1>2, OriginInvSteps, RefsAreTyped, PTL DEF Spec

----------------------------------------------------------------------------
(***************************************************************************)
(* The info of the repo                                                    *)
(***************************************************************************)

\* A ref that tracks a branch is no other kind of ref.
LEMMA TrackingRefsAreApart ==
  ASSUME NEW b \in Branch, NEW B, NEW r \in TrackingRefs({b})
  PROVE  /\ r \notin PendingRefs(B) \cup Tags(B)
         /\ \A c \in Connect : r # TempRef(c)
         /\ r \in TrackingRefs(B) => b \in B
BY DEF TempRef, TrackingRefs, PendingRefs, Tags

\* The tracking ref of a branch, and it alone, is in its TrackingRefs.
LEMMA TrackingRefForm ==
  ASSUME NEW B
  PROVE  /\ \A b \in B : [space |-> "remotes/origin", name |-> b] \in TrackingRefs(B)
         /\ \A r \in TrackingRefs(B) :
              r.name \in B /\ r = [space |-> "remotes/origin", name |-> r.name]
BY DEF TrackingRefs

\* A fetch stores tracking refs and tags, and remembers the branches.
LEMMA TrackingRefsFetched ==
  ASSUME TypeOK, TrackingRefsHold, NEW B \in SUBSET Branch, StoreFetched(B),
         lastFetched' \in {lastFetched, B}
  PROVE  TrackingRefsHold'
<1>1. PICK T \in SUBSET tagged[origin] : refs' = refs \cup TrackingRefs(B) \cup Tags(T)
  BY DEF StoreFetched
<1>2. TrackingRefs(lastFetched') \subseteq refs'
  BY <1>1 DEF TrackingRefsHold
<1>3. ASSUME NEW b \in Branch, TrackingRefs({b}) \subseteq refs'
      PROVE  b \in everSeen'
  <2>1. CASE TrackingRefs({b}) \subseteq refs
    BY <2>1 DEF TrackingRefsHold, StoreFetched
  <2>2. CASE ~(TrackingRefs({b}) \subseteq refs)
    <3>1. PICK r \in TrackingRefs({b}) : r \notin refs
      BY <2>2
    <3>2. r \in TrackingRefs(B)
      BY <1>1, <1>3, <3>1, TrackingRefsAreApart
    <3> QED
      BY <3>1, <3>2, TrackingRefsAreApart DEF StoreFetched
  <2> QED
    BY <2>1, <2>2
<1> QED
  BY <1>2, <1>3 DEF TrackingRefsHold, TrackingRefs

\* A step that deletes no ref, stores no tracking ref, and remembers no other branches.
LEMMA TrackingRefsKept ==
  ASSUME TrackingRefsHold, UNCHANGED seen,
         \A b \in Branch : \A r \in TrackingRefs({b}) : r \in refs' <=> r \in refs,
         lastFetched \subseteq Branch
  PROVE  TrackingRefsHold'
<1>1. \A r \in TrackingRefs(lastFetched) : \E b \in Branch : r \in TrackingRefs({b})
  BY DEF TrackingRefs
<1> QED
  BY <1>1 DEF TrackingRefsHold, seen

\* The push of a commit stores the ref of its branch, or nothing.
LEMMA TrackingRefsPushed ==
  ASSUME TypeOK, TrackingRefsHold, NEW b \in Branch, PushCommit(b)
  PROVE  TrackingRefsHold'
<1>1. CASE UNCHANGED <<refs, seen>>
  BY <1>1, TrackingRefsKept DEF seen, TypeOK
<1>2. CASE ~ UNCHANGED <<refs, seen>>
  <2>1. /\ refs' = refs \cup TrackingRefs({b})
        /\ lastFetched' = lastFetched \cup {b}
        /\ everSeen' = everSeen \cup {b}
    BY <1>2 DEF PushCommit
  <2>2. TrackingRefs(lastFetched') \subseteq refs'
    BY <2>1 DEF TrackingRefsHold, TrackingRefs
  <2>3. ASSUME NEW d \in Branch, TrackingRefs({d}) \subseteq refs'
        PROVE  d \in everSeen'
    BY <2>1, <2>3 DEF TrackingRefsHold, TrackingRefs
  <2> QED
    BY <2>2, <2>3 DEF TrackingRefsHold, TrackingRefs
<1> QED
  BY <1>1, <1>2

LEMMA TrackingRefsSteps ==
  TypeOK /\ TrackingRefsHold /\ [Next]_vars => TrackingRefsHold'
<1> SUFFICES ASSUME TypeOK, TrackingRefsHold, [Next]_vars
             PROVE  TrackingRefsHold'
  OBVIOUS
<1> USE DEF server, worker, clone, remotes
<1>0. lastFetched \subseteq Branch
  BY DEF TypeOK
<1>1. ASSUME NEW q \in Request, Receive(q) \/ TakeJob(q)
      PROVE  TrackingRefsHold'
  BY <1>0, <1>1, TrackingRefsKept DEF Receive, TakeJob
<1>2. ASSUME NEW b \in Branch, CommitTo(b)
      PROVE  TrackingRefsHold'
  BY <1>0, <1>2, TrackingRefsKept, TrackingRefsAreApart DEF CommitTo
<1>3. ASSUME NEW b \in Branch, PushCommit(b)
      PROVE  TrackingRefsHold'
  BY <1>3, TrackingRefsPushed
<1>4. CASE LsRemote
  BY <1>0, <1>4, TrackingRefsKept DEF LsRemote
<1>5. CASE MakeTempRef \/ DeleteTempRef
  <2>1. job \in Connect
    BY <1>5 DEF MakeTempRef, DeleteTempRef, Continue, TypeOK, Request
  <2> QED
    BY <1>0, <1>5, <2>1, TrackingRefsKept, TrackingRefsAreApart DEF MakeTempRef, DeleteTempRef
<1>6. CASE PushTempRef \/ DeleteRemoteTempRef
  BY <1>0, <1>6, TrackingRefsKept DEF PushTempRef, DeleteRemoteTempRef
<1>7. CASE SetOrigin \/ JobFails
  BY <1>0, <1>7, TrackingRefsKept DEF SetOrigin, JobFails
<1>8. CASE FetchOrigin
  <2>1. heads[origin] \in SUBSET Branch
    BY DEF TypeOK
  <2> QED
    BY <1>8, <2>1, TrackingRefsFetched DEF FetchOrigin
<1>9. CASE FetchSomeOfOrigin
  <2>1. PICK B \in SUBSET heads[origin] : StoreFetched(B)
    BY <1>9 DEF FetchSomeOfOrigin
  <2>2. B \in SUBSET Branch /\ lastFetched' = lastFetched
    BY <1>9 DEF TypeOK, FetchSomeOfOrigin
  <2> QED
    BY <2>1, <2>2, TrackingRefsFetched
<1>10. ASSUME NEW u \in Url, NEW a \in Access, ChangeAccess(u, a)
       PROVE  TrackingRefsHold'
  BY <1>0, <1>10, TrackingRefsKept DEF ChangeAccess
<1>11. ASSUME NEW u \in Url, NEW b \in Branch, ChangeBranch(u, b)
       PROVE  TrackingRefsHold'
  BY <1>0, <1>11, TrackingRefsKept DEF ChangeBranch
<1>12. CASE UNCHANGED vars
  BY <1>0, <1>12, TrackingRefsKept DEF vars
<1> QED
  BY <1>1, <1>2, <1>3, <1>4, <1>5, <1>6, <1>7, <1>8, <1>9, <1>10, <1>11, <1>12
     DEF Next, WorkerSteps

\* As far as a repo's info can be read, it lists what was fetched last, and nothing that
\* no remote of the repo has had.
THEOREM InfoIsWhatWasFetched == Spec => []InfoIsOfFetchedBranches
<1>1. Init => TrackingRefsHold
  <2>1. \A r : r \notin TrackingRefs({})
    BY TrackingRefForm
  <2>2. \A b \in Branch : [space |-> "remotes/origin", name |-> b] \in TrackingRefs({b})
    BY TrackingRefForm
  <2> QED
    BY <2>1, <2>2 DEF Init, TrackingRefsHold
<1>2. TypeOK /\ TrackingRefsHold => InfoIsOfFetchedBranches
  <2> SUFFICES ASSUME TypeOK, TrackingRefsHold
               PROVE  /\ lastFetched \subseteq InfoBranches
                      /\ InfoBranches \subseteq everSeen
    BY DEF InfoIsOfFetchedBranches
  <2>1. ASSUME NEW b \in lastFetched
        PROVE  b \in InfoBranches
    <3> DEFINE r == [space |-> "remotes/origin", name |-> b]
    <3>1. r \in TrackingRefs(lastFetched)
      BY TrackingRefForm
    <3>2. r \in refs /\ IsRemote(r)
      BY <3>1 DEF TrackingRefsHold, IsRemote
    <3> QED
      BY <3>2 DEF InfoBranches
  <2>2. ASSUME NEW r \in refs, IsRemote(r)
        PROVE  r.name \in everSeen
    <3>1. r \in TrackingRefs(Branch)
      BY <2>2 DEF TypeOK, Ref, IsRemote, TrackingRefs, PendingRefs, Tags, TempRef
    <3>2. r.name \in Branch /\ \A x \in TrackingRefs({r.name}) : x = r
      <4>1. r.name \in Branch /\ r = [space |-> "remotes/origin", name |-> r.name]
        BY <3>1, TrackingRefForm
      <4>2. \A x \in TrackingRefs({r.name}) :
              x.name \in {r.name} /\ x = [space |-> "remotes/origin", name |-> x.name]
        BY TrackingRefForm
      <4> QED
        BY <4>1, <4>2
    <3> QED
      BY <3>2 DEF TrackingRefsHold
  <2> QED
    BY <2>1, <2>2 DEF InfoBranches
<1> QED
  BY <1>1, <1>2, TrackingRefsSteps, RefsAreTyped, PTL DEF Spec
=============================================================================
