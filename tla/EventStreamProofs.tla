------------------------- MODULE EventStreamProofs -------------------------
(***************************************************************************)
(* What EventStream promises, for any repos, streams, events and outages.  *)
(***************************************************************************)
EXTENDS EventStream, TLAPS

----------------------------------------------------------------------------
(***************************************************************************)
(* Types                                                                   *)
(***************************************************************************)
LEMMA Requests ==
  /\ \A q \in Listening : /\ q.shows \in Repo \cup {AnyRepo}
                          /\ q.until \in Await
                          /\ q.of \in Repo \cup {AnyRepo}
  /\ Nothing.of = AnyRepo
BY DEF Listening, Nothing

LEMMA AppendedIsASequence ==
  ASSUME NEW S, NEW q \in Seq(S), NEW x \in S
  PROVE  Append(q, x) \in Seq(S)
OBVIOUS

LEMMA AppendingAnEvent ==
  ASSUME emitted \in Seq(Event), NEW e \in Event, emitted' = Append(emitted, e)
  PROVE  /\ emitted' \in Seq(Event)
         /\ Len(emitted') = Len(emitted) + 1
         /\ Len(emitted) \in Nat
         /\ \A i \in 1..Len(emitted) : emitted'[i] = emitted[i]
         /\ emitted'[Len(emitted) + 1] = e
OBVIOUS

\* Whatever is said of the numbers of events stays true when there are more.
LEMMA MoreEvents ==
  ASSUME TypeOK, NEW e \in Event, emitted' = Append(emitted, e),
         fetches' \in [Repo -> Nat],
         UNCHANGED <<redis, links, streams>>
  PROVE  TypeOK'
<1> USE DEF TypeOK, redis, links, streams
<1>1. /\ emitted' \in Seq(Event) /\ Len(emitted') = Len(emitted) + 1
      /\ Len(emitted) \in Nat
  BY AppendingAnEvent
<1>2. 1..Len(emitted) \subseteq 1..Len(emitted')
  BY <1>1
<1>3. Seq(1..Len(emitted)) \subseteq Seq(1..Len(emitted'))
  BY <1>2
<1>4. arriving' \in Seq(1..Len(emitted'))
  BY <1>3
<1>5. received' \in [Stream -> Seq(1..Len(emitted'))]
  BY <1>3
<1>6. next' \in 1..Len(emitted') + 1 /\ since' \in [Stream -> 0..Len(emitted')]
  BY <1>1
<1> QED
  BY <1>1, <1>4, <1>5, <1>6

LEMMA TypesOfSources ==
  ASSUME TypeOK, NEW r \in Repo,
         Connect(r) \/ Reconnect(r) \/ StartFetch(r) \/ EndFetch(r)
  PROVE  TypeOK'
<1>1. ASSUME NEW name \in EventName, Emit(name, r), fetches' \in [Repo -> Nat]
      PROVE  TypeOK'
  <2>1. [name |-> name, repo |-> r] \in Event
    BY DEF Event
  <2> QED
    BY <1>1, <2>1, MoreEvents DEF Emit
<1>2. fetches \in [Repo -> Nat]
  BY DEF TypeOK
<1>3. CASE Connect(r)
  BY <1>1, <1>2, <1>3 DEF Connect, EventName
<1>4. CASE Reconnect(r)
  BY <1>1, <1>2, <1>4 DEF Reconnect, EventName
<1>5. CASE StartFetch(r)
  BY <1>2, <1>5 DEF StartFetch, TypeOK, redis, links, streams
<1>6. CASE EndFetch(r)
  BY <1>1, <1>2, <1>6 DEF EndFetch, EventName
<1> QED
  BY <1>3, <1>4, <1>5, <1>6

LEMMA TypesOfLinks ==
  ASSUME TypeOK, Publish \/ BreakPub \/ BreakSub \/ Restore \/ GiveUp
  PROVE  TypeOK'
<1> USE Bounds DEF TypeOK, Disturb, source, redis, links, streams
<1>1. CASE Publish
  <2>1. next \in 1..Len(emitted)
    BY <1>1 DEF Publish
  <2>2. Append(arriving, next) \in Seq(1..Len(emitted))
    BY <2>1, AppendedIsASequence
  <2>3. arriving' \in Seq(1..Len(emitted))
    BY <1>1, <2>2 DEF Publish
  <2>4. next' \in 1..Len(emitted) + 1
    BY <1>1, <2>1 DEF Publish
  <2> QED
    BY <1>1, <2>3, <2>4 DEF Publish
<1>2. CASE BreakPub
  BY <1>2 DEF BreakPub
<1>3. CASE BreakSub
  BY <1>3 DEF BreakSub
<1>4. CASE Restore
  BY <1>4 DEF Restore
<1>5. CASE GiveUp
  BY <1>5 DEF GiveUp
<1> QED
  BY <1>1, <1>2, <1>3, <1>4, <1>5

LEMMA TypesOfStreams ==
  ASSUME TypeOK, NEW s \in Stream,
         Close(s) \/ End(s) \/ \E request \in Listening : Open(s, request)
  PROVE  TypeOK'
<1> USE DEF TypeOK, Status, source, redis, links
<1>1. CASE Close(s)
  BY <1>1 DEF Close
<1>2. CASE \E request \in Listening : Open(s, request)
  BY <1>2 DEF Open
<1>3. CASE End(s)
  BY <1>3 DEF End
<1> QED
  BY <1>1, <1>2, <1>3

LEMMA TypesOfDeliver ==
  ASSUME TypeOK, Deliver
  PROVE  TypeOK'
<1> USE DEF TypeOK, source, links
<1>1. Head(arriving) \in 1..Len(emitted) /\ Tail(arriving) \in Seq(1..Len(emitted))
  <2>1. arriving \in Seq(1..Len(emitted)) /\ arriving # <<>>
    BY DEF Deliver
  <2> HIDE DEF TypeOK, source, links
  <2> QED
    BY <2>1
<1>2. \A s \in Stream : Append(received[s], Head(arriving)) \in Seq(1..Len(emitted))
  BY <1>1
<1>3. received' \in [Stream -> Seq(1..Len(emitted))]
  BY <1>2 DEF Deliver
<1>4. status' \in [Stream -> Status]
  BY DEF Deliver, Status
<1> QED
  BY <1>1, <1>3, <1>4 DEF Deliver

\* Every state is of its type: what is on its way, and what a stream has got, are
\* events that were emitted.
THEOREM TypeCorrect == Spec => []TypeOK
<1>1. Init => TypeOK
  BY Bounds DEF Init, TypeOK, Status, Nothing
<1>2. TypeOK /\ [Next]_vars => TypeOK'
  <2> SUFFICES ASSUME TypeOK, [Next]_vars PROVE TypeOK'
    OBVIOUS
  <2>1. CASE Next
    BY <2>1, TypesOfSources, TypesOfLinks, TypesOfStreams, TypesOfDeliver DEF Next
  <2>2. CASE UNCHANGED vars
    BY <2>2 DEF TypeOK, vars, source, redis, links, streams
  <2> QED
    BY <2>1, <2>2
<1> QED
  BY <1>1, <1>2, PTL DEF Spec

----------------------------------------------------------------------------
(***************************************************************************)
(* What goes on beside a stream                                            *)
(***************************************************************************)

\* Events are only added to those emitted.
Grows ==
  /\ Len(emitted) <= Len(emitted')
  /\ \A i \in 1..Len(emitted) : emitted'[i] = emitted[i]

LEMMA EmittedGrows ==
  ASSUME TypeOK, [Next]_vars
  PROVE  Grows
<1>1. CASE UNCHANGED emitted
  BY <1>1 DEF Grows, TypeOK
<1>2. ASSUME NEW name, NEW r \in Repo, name \in EventName, Emit(name, r) PROVE Grows
  <2>1. [name |-> name, repo |-> r] \in Event
    BY <1>2 DEF Event
  <2> QED
    BY <1>2, <2>1, AppendingAnEvent DEF Emit, Grows, TypeOK
<1>3. UNCHANGED emitted \/ \E name \in EventName, r \in Repo : Emit(name, r)
  BY DEF Next, vars, source, Connect, Reconnect, StartFetch, EndFetch, Publish, BreakPub,
         BreakSub, Restore, GiveUp, Open, Close, End, Deliver, EventName
<1> QED
  BY <1>1, <1>2, <1>3

Opens == \E s \in Stream, request \in Listening : Open(s, request)
Closes == \E s \in Stream : Close(s)
Endings == \E s \in Stream : End(s)

\* What a stream is, and has got, changes in four ways.
LEMMA StreamsChange ==
  ASSUME [Next]_vars
  PROVE  \/ Opens \/ Closes \/ Endings \/ Deliver
         \/ UNCHANGED <<status, asks, received, since>>
BY DEF Next, vars, source, redis, links, streams, Opens, Closes, Endings, Connect, Reconnect,
       StartFetch, EndFetch, Emit, Publish, BreakPub, BreakSub, Restore, GiveUp

----------------------------------------------------------------------------
(***************************************************************************)
(* The end of a stream                                                     *)
(***************************************************************************)
ClosedStreamsAreEmpty == \A s \in Stream : status[s] = "closed" => received[s] = <<>>

EndedWell(s) ==
  \A i \in DOMAIN received[s] :
    LET e == emitted[received[s][i]]
        Last == i = Len(received[s])
    IN  /\ Awaited(s, e) => Last /\ status[s] # "open"
        /\ status[s] \in {"ending", "ended"} /\ Last => Awaited(s, e)

LEMMA EndedWellIsEnough ==
  /\ EndedByTheAwaited <=> \A s \in Stream : EndedWell(s)
  /\ EndedByTheAwaited' <=> \A s \in Stream : EndedWell(s)'
BY DEF EndedByTheAwaited, EndedWell

LEMMA EndsMeansAwaited ==
  ASSUME NEW s, NEW e
  PROVE  Shows(s, e) /\ Ends(s, e) <=> Awaited(s, e)
BY DEF Shows, Ends, Awaited

LEMMA EndingsUndisturbed ==
  ASSUME TypeOK, EndedByTheAwaited, Grows, UNCHANGED <<status, asks, received>>
  PROVE  EndedByTheAwaited'
<1>1. ASSUME NEW s \in Stream, NEW i \in DOMAIN received[s]
      PROVE  emitted'[received[s][i]] = emitted[received[s][i]]
  <2>1. received[s] \in Seq(1..Len(emitted))
    BY DEF TypeOK
  <2>2. received[s][i] \in 1..Len(emitted)
    BY <2>1
  <2> QED
    BY <2>2 DEF Grows
<1> QED
  BY <1>1 DEF EndedByTheAwaited, Awaited

LEMMA EndingsOfDeliver ==
  ASSUME TypeOK, EndedByTheAwaited, Deliver
  PROVE  EndedByTheAwaited'
<1> SUFFICES ASSUME NEW s \in Stream, NEW i \in DOMAIN received'[s]
             PROVE  LET e == emitted[received'[s][i]]
                        Last == i = Len(received'[s])
                    IN  /\ Awaited(s, e) => Last /\ status'[s] # "open"
                        /\ status'[s] \in {"ending", "ended"} /\ Last => Awaited(s, e)
  <2>1. UNCHANGED <<emitted, asks>>
    BY DEF Deliver, source
  <2> QED
    BY <2>1, EndedWellIsEnough DEF EndedWell, Awaited
<1> DEFINE h == Head(arriving)
<1>1. h \in 1..Len(emitted) /\ received[s] \in Seq(1..Len(emitted))
      /\ status[s] \in Status
  <2>1. arriving \in Seq(1..Len(emitted)) /\ arriving # <<>>
    BY DEF TypeOK, Deliver
  <2>2. h \in 1..Len(emitted)
    BY <2>1
  <2> QED
    BY <2>2 DEF TypeOK
<1>2. CASE status[s] = "open" /\ Shows(s, emitted[h])
  <2>1. /\ received'[s] = Append(received[s], h)
        /\ status'[s] = IF Ends(s, emitted[h]) THEN "ending" ELSE "open"
    BY <1>2 DEF Deliver, TypeOK
  <2>2. \A k \in DOMAIN received[s] : ~Awaited(s, emitted[received[s][k]])
    BY <1>2 DEF EndedByTheAwaited
  <2>3. Ends(s, emitted[h]) <=> Awaited(s, emitted[h])
    BY <1>2, EndsMeansAwaited
  <2>4. /\ Len(received'[s]) = Len(received[s]) + 1
        /\ i \in 1..Len(received[s]) + 1
        /\ i # Len(received[s]) + 1 => i \in DOMAIN received[s] /\ received'[s][i] = received[s][i]
        /\ i = Len(received[s]) + 1 => received'[s][i] = h
    BY <1>1, <2>1
  <2> HIDE DEF h
  <2> QED
    BY <2>1, <2>2, <2>3, <2>4
<1>3. CASE ~(status[s] = "open" /\ Shows(s, emitted[h]))
  <2>1. received'[s] = received[s] /\ status'[s] \in {status[s], "broken"}
    BY <1>3 DEF Deliver, TypeOK
  <2>2. status'[s] = "open" => status[s] = "open"
    BY <2>1
  <2> HIDE DEF h
  <2> QED
    BY <2>1, <2>2 DEF EndedByTheAwaited
<1> QED
  BY <1>2, <1>3

\* Opening and closing leave a stream empty, and the others alone.
LEMMA OneStreamEmptied ==
  ASSUME TypeOK, ClosedStreamsAreEmpty, Opens \/ Closes
  PROVE  \E s \in Stream :
           /\ received'[s] = <<>> /\ UNCHANGED emitted
           /\ \A t \in Stream \ {s} : UNCHANGED <<status[t], asks[t], received[t]>>
<1>1. CASE Opens
  <2>1. PICK s \in Stream, request \in Listening : Open(s, request)
    BY <1>1 DEF Opens
  <2> QED
    BY <2>1 DEF Open, ClosedStreamsAreEmpty, TypeOK, source
<1>2. CASE Closes
  <2>1. PICK s \in Stream : Close(s)
    BY <1>2 DEF Closes
  <2> QED
    BY <2>1 DEF Close, TypeOK, source
<1> QED
  BY <1>1, <1>2

LEMMA EndingsOfStreams ==
  ASSUME TypeOK, EndedByTheAwaited, ClosedStreamsAreEmpty, Opens \/ Closes
  PROVE  EndedByTheAwaited'
<1>1. PICK s \in Stream :
        /\ received'[s] = <<>> /\ UNCHANGED emitted
        /\ \A t \in Stream \ {s} : UNCHANGED <<status[t], asks[t], received[t]>>
  BY OneStreamEmptied
<1>2. ASSUME NEW t \in Stream PROVE EndedWell(t)'
  <2>1. CASE t = s
    BY <1>1, <2>1 DEF EndedWell
  <2>2. CASE t # s
    <3>1. EndedWell(t)
      BY EndedWellIsEnough
    <3>2. UNCHANGED <<emitted, status[t], asks[t], received[t]>>
      BY <1>1, <2>2
    <3> QED
      BY <3>1, <3>2 DEF EndedWell, Awaited
  <2> QED
    BY <2>1, <2>2
<1> QED
  BY <1>2, EndedWellIsEnough

LEMMA EndingsOfEnd ==
  ASSUME TypeOK, EndedByTheAwaited, NEW s \in Stream, End(s)
  PROVE  EndedByTheAwaited'
<1>1. /\ UNCHANGED <<emitted, asks, received>> /\ status[s] = "ending"
      /\ status' = [status EXCEPT ![s] = "ended"]
  BY DEF End, source
<1>2. ASSUME NEW t \in Stream PROVE EndedWell(t)'
  <2>1. EndedWell(t)
    BY EndedWellIsEnough
  <2>2. /\ status'[t] = "open" <=> status[t] = "open"
        /\ status'[t] \in {"ending", "ended"} => status[t] \in {"ending", "ended"}
    BY <1>1 DEF TypeOK
  <2> QED
    BY <1>1, <2>1, <2>2 DEF EndedWell, Awaited
<1> QED
  BY <1>2, EndedWellIsEnough

LEMMA ClosedStreamsStayEmpty == Spec => []ClosedStreamsAreEmpty
<1>1. Init => ClosedStreamsAreEmpty
  BY DEF Init, ClosedStreamsAreEmpty
<1>2. TypeOK /\ ClosedStreamsAreEmpty /\ [Next]_vars => ClosedStreamsAreEmpty'
  <2> SUFFICES ASSUME TypeOK, ClosedStreamsAreEmpty, [Next]_vars
               PROVE  ClosedStreamsAreEmpty'
    OBVIOUS
  <2>1. CASE Opens \/ Closes
    <3>1. PICK s \in Stream :
            /\ received'[s] = <<>> /\ UNCHANGED emitted
            /\ \A t \in Stream \ {s} : UNCHANGED <<status[t], asks[t], received[t]>>
      BY <2>1, OneStreamEmptied
    <3> QED
      BY <3>1 DEF ClosedStreamsAreEmpty
  <2>2. CASE Deliver
    BY <2>2 DEF TypeOK, ClosedStreamsAreEmpty, Deliver
  <2>3. CASE UNCHANGED <<status, asks, received>>
    BY <2>3 DEF ClosedStreamsAreEmpty
  <2>4. CASE Endings
    BY <2>4 DEF Endings, End, TypeOK, ClosedStreamsAreEmpty
  <2> QED
    BY <2>1, <2>2, <2>3, <2>4, StreamsChange
<1> QED
  BY <1>1, <1>2, TypeCorrect, PTL DEF Spec

\* A stream ends with the first event that it waits for, whatever connections break, and
\* whatever is sent twice or lost.
THEOREM StreamsEndWithTheAwaited == Spec => []EndedByTheAwaited
<1>1. Init => EndedByTheAwaited
  BY DEF Init, EndedByTheAwaited
<1>2. TypeOK /\ ClosedStreamsAreEmpty /\ EndedByTheAwaited /\ [Next]_vars
        => EndedByTheAwaited'
  <2> SUFFICES ASSUME TypeOK, ClosedStreamsAreEmpty, EndedByTheAwaited, [Next]_vars
               PROVE  EndedByTheAwaited'
    OBVIOUS
  <2>1. CASE Opens \/ Closes
    BY <2>1, EndingsOfStreams
  <2>2. CASE Deliver
    BY <2>2, EndingsOfDeliver
  <2>3. CASE UNCHANGED <<status, asks, received>>
    BY <2>3, EmittedGrows, EndingsUndisturbed
  <2>4. CASE Endings
    BY <2>4, EndingsOfEnd DEF Endings
  <2> QED
    BY <2>1, <2>2, <2>3, <2>4, StreamsChange
<1> QED
  BY <1>1, <1>2, TypeCorrect, ClosedStreamsStayEmpty, PTL DEF Spec

----------------------------------------------------------------------------
(***************************************************************************)
(* The flow of events to a stream while the connections hold               *)
(***************************************************************************)
Holds(s) == status[s] = "open" /\ undisturbed[s]

\* What is new to the stream arrives once, and in order.
InOrder(s) ==
  /\ \A j \in DOMAIN arriving : arriving[j] > since[s] => arriving[j] < next
  /\ \A j, k \in DOMAIN arriving :
       j < k /\ arriving[j] > since[s] => arriving[j] < arriving[k]

\* It has got new events once, in order, and none that is on its way.
GotInOrder(s) ==
  /\ \A k \in News(s) :
       /\ received[s][k] < next
       /\ asks[s].shows \in {AnyRepo, emitted[received[s][k]].repo}
       /\ \A j \in DOMAIN arriving : received[s][k] < arriving[j]
  /\ \A j, k \in News(s) : j < k => received[s][j] < received[s][k]

\* What has been published is on its way, or here, if the stream shows it.
NothingLost(s) == \A i \in (since[s] + 1)..(next - 1) :
  asks[s].shows \in {AnyRepo, emitted[i].repo} =>
    \/ \E j \in DOMAIN arriving : arriving[j] = i
    \/ \E k \in DOMAIN received[s] : received[s][k] = i

Flows(s) ==
  /\ undisturbed[s] => pub = "up" /\ sub = "up"
  /\ Holds(s) => InOrder(s) /\ GotInOrder(s) /\ NothingLost(s)

Flow == \A s \in Stream : Flows(s)

LEMMA TypesOfStream ==
  ASSUME TypeOK, NEW s \in Stream
  PROVE  /\ received[s] \in Seq(1..Len(emitted))
         /\ arriving \in Seq(1..Len(emitted))
         /\ since[s] \in 0..Len(emitted)
         /\ next \in 1..Len(emitted) + 1
         /\ status[s] \in Status
         /\ Len(emitted) \in Nat
         /\ \A k \in DOMAIN received[s] : received[s][k] \in 1..Len(emitted)
<1>1. received[s] \in Seq(1..Len(emitted))
  BY DEF TypeOK
<1>2. \A k \in DOMAIN received[s] : received[s][k] \in 1..Len(emitted)
  BY <1>1
<1> QED
  BY <1>1, <1>2 DEF TypeOK

\* What flows in this way misses nothing.
LEMMA FlowIsComplete ==
  ASSUME TypeOK, Flow
  PROVE  OpenStreamsMissNothing
<1> SUFFICES ASSUME NEW s \in Stream, Holds(s)
             PROVE  /\ {received[s][k] : k \in News(s)} = Due(s)
                    /\ \A j, k \in News(s) : j < k => received[s][j] < received[s][k]
  BY DEF OpenStreamsMissNothing, Holds
<1>1. InOrder(s) /\ GotInOrder(s) /\ NothingLost(s)
  BY DEF Flow, Flows
<1> USE TypesOfStream DEF News
<1>2. ASSUME NEW k \in News(s) PROVE received[s][k] \in Due(s)
  <2>1. received[s][k] \in (since[s] + 1)..Len(emitted)
    OBVIOUS
  <2>2. received[s][k] \notin UnderWay
    BY <1>1, <2>1 DEF GotInOrder, UnderWay, Range
  <2> QED
    BY <1>1, <2>1, <2>2 DEF GotInOrder, Due
<1>3. ASSUME NEW i \in Due(s) PROVE \E k \in News(s) : received[s][k] = i
  <2>1. /\ i \in (since[s] + 1)..Len(emitted) /\ i \notin UnderWay
        /\ asks[s].shows \in {AnyRepo, emitted[i].repo}
    BY DEF Due
  <2>2. i \in (since[s] + 1)..(next - 1) /\ ~\E j \in DOMAIN arriving : arriving[j] = i
    BY <2>1 DEF UnderWay, Range
  <2>3. PICK k \in DOMAIN received[s] : received[s][k] = i
    BY <1>1, <2>1, <2>2 DEF NothingLost
  <2> QED
    BY <2>1, <2>3
<1> QED
  BY <1>1, <1>2, <1>3 DEF GotInOrder

LEMMA FlowOfSources ==
  ASSUME TypeOK, Flow, Grows, UNCHANGED <<redis, links, streams>>
  PROVE  Flow'
<1> SUFFICES ASSUME NEW s \in Stream, Flows(s) PROVE Flows(s)'
  BY DEF Flow
<1>1. \A k \in DOMAIN received[s] : emitted'[received[s][k]] = emitted[received[s][k]]
  BY TypesOfStream DEF Grows
<1>2. \A i \in (since[s] + 1)..(next - 1) : emitted'[i] = emitted[i]
  BY TypesOfStream DEF Grows
<1>3. /\ News(s)' = News(s) /\ InOrder(s)' = InOrder(s) /\ Holds(s)' = Holds(s)
      /\ UNCHANGED <<next, arriving, pub, sub, asks, received, since, undisturbed>>
  BY DEF redis, links, streams, News, InOrder, Holds
<1>4. GotInOrder(s) => GotInOrder(s)'
  BY <1>1, <1>3 DEF GotInOrder, News
<1>5. NothingLost(s) => NothingLost(s)'
  BY <1>2, <1>3 DEF NothingLost
<1> QED
  BY <1>3, <1>4, <1>5 DEF Flows

LEMMA FlowOfPublish ==
  ASSUME TypeOK, Flow, Publish
  PROVE  Flow'
<1> SUFFICES ASSUME NEW s \in Stream, Flows(s) PROVE Flows(s)'
  BY DEF Flow
<1>1. UNCHANGED <<emitted, pub, sub, status, asks, received, since, undisturbed>>
  BY DEF Publish, source, links, streams
<1>2. News(s)' = News(s) /\ Holds(s)' = Holds(s)
  BY <1>1 DEF News, Holds
<1> SUFFICES ASSUME Holds(s)
             PROVE  InOrder(s)' /\ GotInOrder(s)' /\ NothingLost(s)'
  BY <1>1, <1>2 DEF Flows
<1>3. /\ next' = next + 1 /\ next \in Nat /\ arriving' = Append(arriving, next)
      /\ InOrder(s) /\ GotInOrder(s) /\ NothingLost(s)
  BY TypesOfStream DEF Publish, Flows, Holds
<1>4. /\ DOMAIN arriving' = 1..Len(arriving) + 1 /\ DOMAIN arriving = 1..Len(arriving)
      /\ \A j \in DOMAIN arriving : arriving'[j] = arriving[j] /\ arriving[j] \in Nat
      /\ arriving'[Len(arriving) + 1] = next
      /\ Len(arriving) \in Nat /\ since[s] \in Nat
      /\ \A k \in DOMAIN received[s] : received[s][k] \in Nat
  <2>1. \A k \in DOMAIN received[s] : received[s][k] \in Nat
    BY TypesOfStream
  <2>2. arriving \in Seq(1..Len(emitted)) /\ since[s] \in Nat
    BY TypesOfStream
  <2>3. /\ DOMAIN arriving' = 1..Len(arriving) + 1 /\ DOMAIN arriving = 1..Len(arriving)
        /\ \A j \in DOMAIN arriving : arriving'[j] = arriving[j] /\ arriving[j] \in Nat
        /\ arriving'[Len(arriving) + 1] = next
        /\ Len(arriving) \in Nat
    BY <1>3, <2>2
  <2> QED
    BY <2>1, <2>2, <2>3
<1>5. InOrder(s)'
  BY <1>1, <1>3, <1>4 DEF InOrder
<1>6. GotInOrder(s)'
  BY <1>1, <1>2, <1>3, <1>4 DEF GotInOrder, News
<1>7. NothingLost(s)'
  <2> SUFFICES ASSUME NEW i \in (since[s] + 1)..next,
                      asks[s].shows \in {AnyRepo, emitted[i].repo}
               PROVE  \/ \E j \in DOMAIN arriving' : arriving'[j] = i
                      \/ \E k \in DOMAIN received[s] : received[s][k] = i
    BY <1>1, <1>3 DEF NothingLost
  <2>1. CASE i = next
    <3>1. Len(arriving) + 1 \in DOMAIN arriving'
      BY <1>4
    <3> QED
      BY <1>4, <2>1, <3>1
  <2>2. CASE i # next
    <3>1. i \in (since[s] + 1)..(next - 1)
      BY <1>3, <1>4, <2>2
    <3>2. \/ \E j \in DOMAIN arriving : arriving[j] = i
          \/ \E k \in DOMAIN received[s] : received[s][k] = i
      BY <1>3, <3>1 DEF NothingLost
    <3>3. DOMAIN arriving \subseteq DOMAIN arriving'
      BY <1>4
    <3> QED
      BY <1>4, <3>2, <3>3
  <2> QED
    BY <2>1, <2>2
<1> QED
  BY <1>5, <1>6, <1>7

\* Nothing is promised to a stream that was open when a connection broke.
LEMMA FlowOfLinks ==
  ASSUME Flow, BreakPub \/ BreakSub \/ Restore \/ GiveUp
  PROVE  Flow'
<1> SUFFICES ASSUME NEW s \in Stream, Flows(s) PROVE Flows(s)'
  BY DEF Flow
<1>1. CASE BreakPub \/ BreakSub
  BY <1>1 DEF BreakPub, BreakSub, Disturb, Flows, Holds
<1>2. CASE Restore \/ GiveUp
  <2>1. ~undisturbed[s] /\ UNCHANGED undisturbed
    BY <1>2 DEF Restore, GiveUp, Flows, streams
  <2> QED
    BY <2>1 DEF Flows, Holds
<1> QED
  BY <1>1, <1>2

\* A stream starts without events, and everything emitted before is old to it.
LEMMA FlowOfStreams ==
  ASSUME TypeOK, ClosedStreamsAreEmpty, Flow, Opens \/ Closes
  PROVE  Flow'
<1>1. ASSUME NEW s \in Stream, NEW t \in Stream \ {s}, Flows(t),
             UNCHANGED <<emitted, next, arriving, pub, sub, status[t], asks[t],
                         received[t], since[t], undisturbed[t]>>
      PROVE  Flows(t)'
  BY <1>1 DEF Flows, Holds, InOrder, GotInOrder, NothingLost, News
<1>2. CASE Opens
  <2>1. PICK s \in Stream, request \in Listening : Open(s, request)
    BY <1>2 DEF Opens
  <2>2. UNCHANGED <<emitted, next, arriving, pub, sub>>
    BY <2>1 DEF Open, source, redis, links
  <2>3. ASSUME NEW t \in Stream \ {s} PROVE Flows(t)'
    <3>1. UNCHANGED <<status[t], asks[t], received[t], since[t], undisturbed[t]>>
      BY <2>1 DEF Open, TypeOK
    <3> QED
      BY <1>1, <2>2, <3>1 DEF Flow
  <2>4. Flows(s)'
    <3>1. /\ received'[s] = <<>> /\ since'[s] = Len(emitted)
          /\ undisturbed'[s] = (pub = "up" /\ sub = "up")
      BY <2>1 DEF Open, TypeOK, ClosedStreamsAreEmpty
    <3>2. \A j \in DOMAIN arriving : arriving[j] \in 1..Len(emitted)
      BY TypesOfStream
    <3>3. InOrder(s)'
      BY <2>2, <3>1, <3>2, TypesOfStream DEF InOrder
    <3>4. GotInOrder(s)'
      BY <3>1 DEF GotInOrder, News
    <3>5. NothingLost(s)'
      BY <2>2, <3>1, TypesOfStream DEF NothingLost
    <3> QED
      BY <2>2, <3>1, <3>3, <3>4, <3>5 DEF Flows
  <2> QED
    BY <2>3, <2>4 DEF Flow
<1>3. CASE Closes
  <2>1. PICK s \in Stream : Close(s)
    BY <1>3 DEF Closes
  <2>2. UNCHANGED <<emitted, next, arriving, pub, sub>>
    BY <2>1 DEF Close, source, redis, links
  <2>3. ASSUME NEW t \in Stream \ {s} PROVE Flows(t)'
    <3>1. UNCHANGED <<status[t], asks[t], received[t], since[t], undisturbed[t]>>
      BY <2>1 DEF Close, TypeOK
    <3> QED
      BY <1>1, <2>2, <3>1 DEF Flow
  <2>4. Flows(s)'
    BY <2>1 DEF Close, TypeOK, Flows, Holds
  <2> QED
    BY <2>3, <2>4 DEF Flow
<1> QED
  BY <1>2, <1>3

LEMMA FlowOfEnd ==
  ASSUME TypeOK, Flow, NEW s \in Stream, End(s)
  PROVE  Flow'
<1> SUFFICES ASSUME NEW t \in Stream, Flows(t) PROVE Flows(t)'
  BY DEF Flow
<1>1. /\ UNCHANGED <<emitted, next, arriving, pub, sub, asks, received, since, undisturbed>>
      /\ status'[t] = "open" => status[t] = "open"
  BY DEF End, TypeOK, source, redis, links
<1> QED
  BY <1>1 DEF Flows, Holds, InOrder, GotInOrder, NothingLost, News

LEMMA FlowOfDeliver ==
  ASSUME TypeOK, Flow, Deliver
  PROVE  Flow'
<1> SUFFICES ASSUME NEW s \in Stream, Flows(s) PROVE Flows(s)'
  BY DEF Flow
<1>1. UNCHANGED <<emitted, next, pub, sub, asks, since, undisturbed>>
  BY DEF Deliver, source, links
<1>2. status'[s] = "open" => status[s] = "open"
  BY TypesOfStream DEF Deliver, TypeOK
<1> SUFFICES ASSUME Holds(s)
             PROVE  InOrder(s)' /\ GotInOrder(s)' /\ NothingLost(s)'
  BY <1>1, <1>2 DEF Flows, Holds
<1>3. InOrder(s) /\ GotInOrder(s) /\ NothingLost(s)
  BY DEF Flows
<1> DEFINE h == Head(arriving)
<1>4. /\ arriving \in Seq(1..Len(emitted)) /\ arriving # <<>> /\ arriving' = Tail(arriving)
      /\ since[s] \in Nat /\ next \in Nat
      /\ \A k \in DOMAIN received[s] : received[s][k] \in Nat
  BY TypesOfStream DEF Deliver
<1>5. /\ DOMAIN arriving' = 1..Len(arriving) - 1 /\ DOMAIN arriving = 1..Len(arriving)
      /\ \A j \in DOMAIN arriving' : arriving'[j] = arriving[j + 1]
      /\ \A j \in DOMAIN arriving : arriving[j] \in Nat
      /\ h = arriving[1] /\ 1 \in DOMAIN arriving /\ Len(arriving) \in Nat
  BY <1>4
<1> HIDE DEF h
<1>6. \A j \in DOMAIN arriving' : j + 1 \in DOMAIN arriving /\ 1 < j + 1 /\ j \in Nat
  BY <1>5
<1>7. InOrder(s)'
  <2>1. \A j \in DOMAIN arriving' : arriving'[j] > since[s] => arriving'[j] < next
    BY <1>3, <1>5, <1>6 DEF InOrder
  <2>2. ASSUME NEW j \in DOMAIN arriving', NEW k \in DOMAIN arriving',
               j < k, arriving'[j] > since[s]
        PROVE  arriving'[j] < arriving'[k]
    <3>1. j + 1 < k + 1 /\ arriving[j + 1] > since[s]
      BY <1>5, <1>6, <2>2
    <3>2. arriving[j + 1] < arriving[k + 1]
      BY <1>3, <1>6, <3>1 DEF InOrder
    <3> QED
      BY <1>5, <3>2
  <2> QED
    BY <1>1, <2>1, <2>2 DEF InOrder
<1>8. CASE asks[s].shows \in {AnyRepo, emitted[h].repo}
  <2>1. received'[s] = Append(received[s], h)
    BY <1>8 DEF Deliver, TypeOK, Shows, Holds, h
  <2>2. /\ DOMAIN received'[s] = 1..Len(received[s]) + 1
        /\ DOMAIN received[s] = 1..Len(received[s]) /\ Len(received[s]) \in Nat
        /\ \A k \in DOMAIN received[s] : received'[s][k] = received[s][k]
        /\ received'[s][Len(received[s]) + 1] = h
    <3>1. received[s] \in Seq(1..Len(emitted))
      BY TypesOfStream
    <3> QED
      BY <2>1, <3>1
  <2>3. \A j \in DOMAIN arriving' : h > since[s] => h < arriving'[j]
    <3> SUFFICES ASSUME NEW j \in DOMAIN arriving', h > since[s]
                 PROVE  h < arriving'[j]
      OBVIOUS
    <3>1. arriving[1] < arriving[j + 1]
      BY <1>3, <1>5, <1>6 DEF InOrder
    <3> QED
      BY <1>5, <3>1
  <2>4. h > since[s] => h < next
    BY <1>3, <1>5 DEF InOrder
  <2>5. \A k \in News(s) : received[s][k] < h
    BY <1>3, <1>5 DEF GotInOrder
  <2>6. \A k \in News(s)' :
          \/ k \in News(s) /\ received'[s][k] = received[s][k]
          \/ k = Len(received[s]) + 1 /\ received'[s][k] = h /\ h > since[s]
    BY <1>1, <2>2 DEF News
  <2>7. \A k \in News(s) : k < Len(received[s]) + 1
    BY <2>2 DEF News
  <2>8. \A k \in News(s), j \in DOMAIN arriving' : received[s][k] < arriving'[j]
    BY <1>3, <1>5 DEF GotInOrder
  <2>9. GotInOrder(s)'
    <3>1. ASSUME NEW k \in News(s)'
          PROVE  /\ received'[s][k] < next
                 /\ asks[s].shows \in {AnyRepo, emitted[received'[s][k]].repo}
                 /\ \A j \in DOMAIN arriving' : received'[s][k] < arriving'[j]
      <4>1. CASE k \in News(s) /\ received'[s][k] = received[s][k]
        BY <1>3, <2>8, <4>1 DEF GotInOrder
      <4>2. CASE k = Len(received[s]) + 1 /\ received'[s][k] = h /\ h > since[s]
        BY <1>8, <2>3, <2>4, <4>2
      <4> QED
        BY <2>6, <4>1, <4>2
    <3>2. ASSUME NEW j \in News(s)', NEW k \in News(s)', j < k
          PROVE  received'[s][j] < received'[s][k]
      <4>1. k <= Len(received[s]) + 1 /\ j \in Nat /\ k \in Nat
        BY <2>2 DEF News
      <4>2. j \in News(s) /\ received'[s][j] = received[s][j]
        BY <2>2, <2>6, <3>2, <4>1
      <4>3. CASE k \in News(s) /\ received'[s][k] = received[s][k]
        BY <1>3, <3>2, <4>2, <4>3 DEF GotInOrder
      <4>4. CASE received'[s][k] = h
        BY <2>5, <4>2, <4>4
      <4> QED
        BY <2>6, <4>3, <4>4
    <3> QED
      BY <1>1, <3>1, <3>2 DEF GotInOrder
  <2>10. NothingLost(s)'
    <3> SUFFICES ASSUME NEW i \in (since[s] + 1)..(next - 1),
                        asks[s].shows \in {AnyRepo, emitted[i].repo}
                 PROVE  \/ \E j \in DOMAIN arriving' : arriving'[j] = i
                        \/ \E k \in DOMAIN received'[s] : received'[s][k] = i
      BY <1>1 DEF NothingLost
    <3>1. CASE \E k \in DOMAIN received[s] : received[s][k] = i
      BY <2>2, <3>1
    <3>2. CASE i = h
      <4>1. Len(received[s]) + 1 \in DOMAIN received'[s]
        BY <2>2
      <4> QED
        BY <2>2, <3>2, <4>1
    <3>3. CASE i # h /\ \E j \in DOMAIN arriving : arriving[j] = i
      <4>1. PICK j \in DOMAIN arriving : arriving[j] = i
        BY <3>3
      <4>2. j - 1 \in DOMAIN arriving' /\ (j - 1) + 1 = j
        BY <1>5, <3>3, <4>1
      <4> QED
        BY <1>5, <4>1, <4>2
    <3> QED
      BY <1>3, <3>1, <3>2, <3>3 DEF NothingLost
  <2> QED
    BY <1>7, <2>9, <2>10
<1>9. CASE asks[s].shows \notin {AnyRepo, emitted[h].repo}
  <2>1. received'[s] = received[s]
    BY <1>9 DEF Deliver, TypeOK, Shows, h
  <2>2. News(s)' = News(s)
    BY <1>1, <2>1 DEF News
  <2>3. GotInOrder(s)'
    BY <1>1, <1>3, <1>5, <2>1, <2>2 DEF GotInOrder
  <2>4. NothingLost(s)'
    <3> SUFFICES ASSUME NEW i \in (since[s] + 1)..(next - 1),
                        asks[s].shows \in {AnyRepo, emitted[i].repo}
                 PROVE  \/ \E j \in DOMAIN arriving' : arriving'[j] = i
                        \/ \E k \in DOMAIN received[s] : received[s][k] = i
      BY <1>1, <2>1 DEF NothingLost
    <3>1. i # h
      BY <1>9
    <3>2. CASE \E j \in DOMAIN arriving : arriving[j] = i
      <4>1. PICK j \in DOMAIN arriving : arriving[j] = i
        BY <3>2
      <4>2. j - 1 \in DOMAIN arriving' /\ (j - 1) + 1 = j
        BY <1>5, <3>1, <4>1
      <4> QED
        BY <1>5, <4>1, <4>2
    <3> QED
      BY <1>3, <3>2 DEF NothingLost
  <2> QED
    BY <1>7, <2>3, <2>4
<1> QED
  BY <1>8, <1>9

\* While the connections hold, an open stream has got every event that it shows, once
\* and in order, but for those still on their way.
THEOREM OpenStreamsGetEverything == Spec => []OpenStreamsMissNothing
<1>1. Init => Flow
  BY DEF Init, Flow, Flows, Holds
<1>2. TypeOK /\ ClosedStreamsAreEmpty /\ Flow /\ [Next]_vars => Flow'
  <2> SUFFICES ASSUME TypeOK, ClosedStreamsAreEmpty, Flow, [Next]_vars PROVE Flow'
    OBVIOUS
  <2>1. CASE Opens \/ Closes
    BY <2>1, FlowOfStreams
  <2>2. CASE Deliver
    BY <2>2, FlowOfDeliver
  <2>3. CASE Publish
    BY <2>3, FlowOfPublish
  <2>4. CASE BreakPub \/ BreakSub \/ Restore \/ GiveUp
    BY <2>4, FlowOfLinks
  <2>5. CASE UNCHANGED <<redis, links, streams>>
    BY <2>5, EmittedGrows, FlowOfSources
  <2>6. CASE Endings
    BY <2>6, FlowOfEnd DEF Endings
  <2> QED
    BY <2>1, <2>2, <2>3, <2>4, <2>5, <2>6
    DEF Next, vars, Opens, Closes, Endings, Connect, Reconnect, StartFetch, EndFetch, Emit
<1>3. TypeOK /\ Flow => OpenStreamsMissNothing
  BY FlowIsComplete
<1> QED
  BY <1>1, <1>2, <1>3, TypeCorrect, ClosedStreamsStayEmpty, PTL DEF Spec

----------------------------------------------------------------------------
(***************************************************************************)
(* What an open stream waits for                                           *)
(***************************************************************************)

\* While the connections hold, a stream that is still open has not had the event that it
\* waits for: any that was emitted since it was opened is on its way to it.
AwaitedAreUnderWay == \A s \in Stream :
  status[s] = "open" /\ undisturbed[s] =>
    \A i \in (since[s] + 1)..Len(emitted) : Awaited(s, emitted[i]) => i \in UnderWay

\* GET /events?until and GET /repos/:repoId/events?until keep a consumer waiting only for
\* what is yet to be emitted, or on its way: what is left of AwaitedEventsEndStreams is
\* that Redis and the listeners go on.
THEOREM AwaitedEventsComeInTime == Spec => []AwaitedAreUnderWay
<1>1. TypeOK /\ OpenStreamsMissNothing /\ EndedByTheAwaited => AwaitedAreUnderWay
  <2> SUFFICES ASSUME TypeOK, OpenStreamsMissNothing, EndedByTheAwaited,
                      NEW s \in Stream, status[s] = "open", undisturbed[s],
                      NEW i \in (since[s] + 1)..Len(emitted), Awaited(s, emitted[i]),
                      i \notin UnderWay
               PROVE  FALSE
    BY DEF AwaitedAreUnderWay
  <2>1. asks[s].shows \in {AnyRepo, emitted[i].repo}
    BY DEF Awaited
  <2>2. i \in Due(s)
    BY <2>1 DEF Due
  <2>3. {received[s][k] : k \in News(s)} = Due(s)
    BY DEF OpenStreamsMissNothing
  <2>4. PICK k \in News(s) : received[s][k] = i
    BY <2>2, <2>3
  <2>5. k \in DOMAIN received[s] /\ Awaited(s, emitted[received[s][k]])
    BY <2>4 DEF News
  <2> QED
    BY <2>5 DEF EndedByTheAwaited
<1> QED
  BY <1>1, TypeCorrect, OpenStreamsGetEverything, StreamsEndWithTheAwaited, PTL
=============================================================================
