---------------------------- MODULE EventStream ----------------------------
(***************************************************************************)
(* How domain events reach the consumers that listen to them.              *)
(*                                                                         *)
(* Repos emit their events on the local bus of the server.  The global bus *)
(* publishes each to Redis over one connection and hears it back over      *)
(* another; every event heard goes to the listeners of GET /events and of  *)
(* GET /repos/:repoId/events, which write it to the response of their      *)
(* consumer and end the response with the event that it waits for.         *)
(*                                                                         *)
(* Connections says which events a request emits; here, a repo may be      *)
(* connected, reconnected and fetched at any time, and every fetch ends    *)
(* with an event.                                                          *)
(***************************************************************************)
EXTENDS Naturals, Sequences, Functions

CONSTANTS
  Repo,
  Stream,     \* the requests that listen at once, at most
  Await,      \* what they may wait for: names of events, or Never
  AnyRepo,    \* "of whatever repo"
  Never,      \* "until the consumer goes away"
  MaxEvents,  \* how many events are emitted at most
  MaxOutages  \* how often the connections to Redis break at most

EventName == {"repo.fetched", "repo.fetch-failed", "repo.connected", "repo.reconnected"}

ASSUME NoValues == AnyRepo \notin Repo /\ Never \notin EventName \cup Repo \cup {AnyRepo}

ASSUME AwaitsEvents == Await \subseteq EventName \cup {Never}

ASSUME Bounds == MaxEvents \in Nat /\ MaxOutages \in Nat

Event == [name : EventName, repo : Repo]

Status == {"closed", "open", "ending", "ended", "broken"}

\* GET /events and GET /repos/:repoId/events, with their query: which repo's events
\* are shown, which one ends the response, and of which repo it has to be.
Listening ==
  [shows : Repo \cup {AnyRepo}, until : Await, of : {AnyRepo}]
  \cup [shows : {AnyRepo}, until : Await \ {Never}, of : Repo]

\* What is asked for by no stream.
Nothing == [shows |-> Never, until |-> Never, of |-> AnyRepo]

VARIABLES
  \* Of the server.
  emitted,    \* the events, in the order in which they are emitted
  fetches,    \* how many fetches of each repo are under way
  \* Of the connections to Redis.
  next,       \* the number of the event that Redis takes next
  arriving,   \* the numbers of the events on their way back
  pub, sub,   \* are the two connections up, broken, or given up
  outages,
  \* Of the streams.
  status,     \* of each: closed, open, ending, ended, or broken
  asks,       \* what it asks for
  received,   \* the events written to it
  since,      \* how many events had been emitted when it was opened
  undisturbed \* have the connections been up ever since

source == <<emitted, fetches>>
redis == <<next, arriving>>
links == <<pub, sub, outages>>
streams == <<status, asks, received, since, undisturbed>>
vars == <<source, redis, links, streams>>

Init ==
  /\ emitted = <<>>
  /\ fetches = [r \in Repo |-> 0]
  /\ next = 1 /\ arriving = <<>>
  /\ pub = "up" /\ sub = "up" /\ outages = 0
  /\ status = [s \in Stream |-> "closed"]
  /\ asks = [s \in Stream |-> Nothing]
  /\ received = [s \in Stream |-> <<>>]
  /\ since = [s \in Stream |-> 0]
  /\ undisturbed = [s \in Stream |-> FALSE]

----------------------------------------------------------------------------
(***************************************************************************)
(* The repos                                                               *)
(***************************************************************************)

\* The local bus calls the listener of the global one, which publishes.
Emit(name, r) ==
  /\ emitted' = Append(emitted, [name |-> name, repo |-> r])
  /\ UNCHANGED <<redis, links, streams>>

\* There is room for n events besides those of the fetches under way.
Room(n) == Len(emitted) + FoldFunction(+, 0, fetches) + n <= MaxEvents

\* A connected repo is fetched at once.
Connect(r) ==
  /\ Room(2)
  /\ Emit("repo.connected", r)
  /\ fetches' = [fetches EXCEPT ![r] = @ + 1]

Reconnect(r) == Room(1) /\ Emit("repo.reconnected", r) /\ UNCHANGED fetches

\* A consumer fetches a repo, or commits to it.
StartFetch(r) ==
  /\ Room(1)
  /\ fetches' = [fetches EXCEPT ![r] = @ + 1]
  /\ UNCHANGED <<emitted, redis, links, streams>>

\* Mutant of EndFetch: emits the end of a fetch that nobody started.
EndAnyFetch(r) ==
  /\ Room(1)
  /\ fetches' = [fetches EXCEPT ![r] = @ - 1]
  /\ Emit("repo.fetched", r) \/ Emit("repo.fetch-failed", r)

EndFetch(r) ==
  /\ fetches[r] > 0
  /\ fetches' = [fetches EXCEPT ![r] = @ - 1]
  /\ Emit("repo.fetched", r) \/ Emit("repo.fetch-failed", r)

----------------------------------------------------------------------------
(***************************************************************************)
(* The connections to Redis                                                *)
(***************************************************************************)

\* Redis takes the next event, and passes it on if the subscription is up.
Publish ==
  /\ pub = "up"
  /\ next <= Len(emitted)
  /\ next' = next + 1
  /\ arriving' = IF sub = "up" THEN Append(arriving, next) ELSE arriving
  /\ UNCHANGED <<source, links, streams>>

Disturb == undisturbed' = [s \in Stream |-> FALSE]

\* The publishing connection breaks.  Once it is up again, whatever has no answer yet
\* is sent again, and may get to the listeners twice.
BreakPub ==
  /\ outages < MaxOutages
  /\ pub = "up"
  /\ pub' = "broken"
  /\ next' \in 1..next
  /\ outages' = outages + 1
  /\ Disturb
  /\ UNCHANGED <<source, arriving, sub, status, asks, received, since>>

\* The subscribed connection breaks.  What is published meanwhile is lost.
BreakSub ==
  /\ outages < MaxOutages
  /\ sub = "up"
  /\ sub' = "broken"
  /\ arriving' = <<>>
  /\ outages' = outages + 1
  /\ Disturb
  /\ UNCHANGED <<source, next, pub, status, asks, received, since>>

Restore ==
  /\ \/ pub = "broken" /\ pub' = "up" /\ UNCHANGED sub
     \/ sub = "broken" /\ sub' = "up" /\ UNCHANGED pub
  /\ UNCHANGED <<source, redis, outages, streams>>

\* Redis refuses to be connected to: connectToRedis still listens for errors, and
\* disconnects for good.  What is emitted from then on is never published, or heard.
GiveUp ==
  /\ \/ pub = "broken" /\ pub' = "ended" /\ UNCHANGED sub
     \/ sub = "broken" /\ sub' = "ended" /\ UNCHANGED pub
  /\ UNCHANGED <<source, redis, outages, streams>>

----------------------------------------------------------------------------
(***************************************************************************)
(* The streams                                                             *)
(***************************************************************************)
Open(s, request) ==
  /\ status[s] = "closed"
  /\ status' = [status EXCEPT ![s] = "open"]
  /\ asks' = [asks EXCEPT ![s] = request]
  /\ since' = [since EXCEPT ![s] = Len(emitted)]
  /\ undisturbed' = [undisturbed EXCEPT ![s] = pub = "up" /\ sub = "up"]
  /\ UNCHANGED <<source, redis, links, received>>

\* Mutant of Shows: only the awaited events are listened to.
ShowsTheAwaited(s, e) ==
  /\ asks[s].shows \in {AnyRepo, e.repo}
  /\ asks[s].until \in {Never, e.name}

Shows(s, e) == asks[s].shows \in {AnyRepo, e.repo}

\* Mutants of Ends: entityId is ignored; a request without entityId is not.
EndsForAnyRepo(s, e) == Shows(s, e) /\ e.name = asks[s].until

EndsForThatRepo(s, e) ==
  /\ Shows(s, e)
  /\ e.name = asks[s].until
  /\ asks[s].shows = AnyRepo => asks[s].of = e.repo

Ends(s, e) ==
  /\ Shows(s, e)
  /\ e.name = asks[s].until
  /\ asks[s].of \in {AnyRepo, e.repo}

\* The listeners of every stream get the event in one go, and call end() after the one
\* that is awaited.  They stay until their request closes: what they write to a
\* PassThrough that has not passed everything on by then is a write after end, which
\* destroys it, and it never tells the response to end.
Deliver ==
  /\ arriving # <<>>
  /\ arriving' = Tail(arriving)
  /\ LET i == Head(arriving)
         Gets(s) == status[s] = "open" /\ Shows(s, emitted[i])
         After(s) ==
           CASE Gets(s) /\ Ends(s, emitted[i]) -> "ending"
             [] status[s] = "ending" /\ Shows(s, emitted[i]) -> "broken"
             [] OTHER -> status[s]
     IN /\ received' = [s \in Stream |->
                          IF Gets(s) THEN Append(received[s], i) ELSE received[s]]
        /\ status' = [s \in Stream |-> After(s)]
  /\ UNCHANGED <<source, next, links, asks, since, undisturbed>>

\* All that was written has been passed on, and the response ends.  What is written to it
\* from now on is dropped.
End(s) ==
  /\ status[s] = "ending"
  /\ status' = [status EXCEPT ![s] = "ended"]
  /\ UNCHANGED <<source, redis, links, asks, received, since, undisturbed>>

\* The consumer goes away, or the server does: the listeners of the request are removed.
Close(s) ==
  /\ status[s] # "closed"
  /\ status' = [status EXCEPT ![s] = "closed"]
  /\ asks' = [asks EXCEPT ![s] = Nothing]
  /\ received' = [received EXCEPT ![s] = <<>>]
  /\ since' = [since EXCEPT ![s] = 0]
  /\ undisturbed' = [undisturbed EXCEPT ![s] = FALSE]
  /\ UNCHANGED <<source, redis, links>>

Next ==
  \/ \E r \in Repo : Connect(r) \/ Reconnect(r) \/ StartFetch(r) \/ EndFetch(r)
  \/ Publish \/ BreakPub \/ BreakSub \/ Restore \/ GiveUp
  \/ \E s \in Stream :
       Close(s) \/ End(s) \/ \E request \in Listening : Open(s, request)
  \/ Deliver

Spec == Init /\ [][Next]_vars

\* Fetches end, as ConnectedThenFetched of Connections has it, and so do the exchanges
\* with Redis while the connections are up; consumers read what they are sent.
FairSpec ==
  /\ Spec
  /\ \A r \in Repo : WF_vars(EndFetch(r))
  /\ WF_vars(Publish) /\ WF_vars(Deliver)
  /\ \A s \in Stream : WF_vars(End(s))

----------------------------------------------------------------------------
(***************************************************************************)
(* Properties                                                              *)
(***************************************************************************)
TypeOK ==
  /\ emitted \in Seq(Event)
  /\ fetches \in [Repo -> Nat]
  /\ next \in 1..Len(emitted) + 1
  /\ arriving \in Seq(1..Len(emitted))
  /\ {pub, sub} \subseteq {"up", "broken", "ended"}
  /\ outages \in 0..MaxOutages
  /\ status \in [Stream -> Status]
  /\ asks \in [Stream -> Listening \cup {Nothing}]
  /\ received \in [Stream -> Seq(1..Len(emitted))]
  /\ since \in [Stream -> 0..Len(emitted)]
  /\ undisturbed \in [Stream -> BOOLEAN]

\* The events on their way to the listeners.
UnderWay == Range(arriving) \cup next..Len(emitted)

\* What a stream has got that was emitted since it was opened.
News(s) == {k \in DOMAIN received[s] : received[s][k] > since[s]}

\* What it should have got by now.
Due(s) == {i \in (since[s] + 1)..Len(emitted) :
  i \notin UnderWay /\ asks[s].shows \in {AnyRepo, emitted[i].repo}}

\* While the connections hold, a stream that is open has got every event of its repo,
\* or of all repos, that was emitted since it was opened and is not on its way:
\* each once, in the order in which they were emitted.
OpenStreamsMissNothing == \A s \in Stream :
  status[s] = "open" /\ undisturbed[s] =>
    /\ {received[s][k] : k \in News(s)} = Due(s)
    /\ \A j, k \in News(s) : j < k => received[s][j] < received[s][k]

\* The event that a stream waits for is the last it gets, the first of its kind, and of
\* the repo that it names: whatever connections break, none ends early nor late.
Awaited(s, e) ==
  /\ e.name = asks[s].until
  /\ \A r \in {asks[s].of, asks[s].shows} : r \in {AnyRepo, e.repo}

EndedByTheAwaited == \A s \in Stream :
  LET Last(i) == i = Len(received[s])
  IN \A i \in DOMAIN received[s] :
       /\ Awaited(s, emitted[received[s][i]]) => Last(i) /\ status[s] # "open"
       /\ status[s] \in {"ending", "ended"} /\ Last(i) => Awaited(s, emitted[received[s][i]])

\* A stream does not wait for ever for an event that is emitted while it is open, unless
\* a connection to Redis breaks: its response ends, or another event has come right
\* behind and broken it.
AwaitedEventsEndStreams == \A s \in Stream :
  (/\ status[s] = "open" /\ undisturbed[s]
   /\ \E i \in (since[s] + 1)..Len(emitted) : Awaited(s, emitted[i]))
    ~> (status[s] \notin {"open", "ending"} \/ ~undisturbed[s])

----------------------------------------------------------------------------
\* packages/smoke-tests/index.ts: 'Waits for repo to be fetched'.  The consumer has
\* connected the repo, asks for its events until repo.fetched, and it is fetched.
WaitsForRepoToBeFetched == \A s \in Stream, r \in Repo :
  (/\ status[s] = "open" /\ asks[s].shows = r /\ asks[s].until = "repo.fetched"
   /\ \E i \in DOMAIN emitted : emitted[i] = [name |-> "repo.fetched", repo |-> r])
    ~> status[s] # "open"
=============================================================================
