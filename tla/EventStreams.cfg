\* A consumer that waits for repo.fetched, or for nothing, one request after the other,
\* on either route; events of two repos; both connections may break.
SPECIFICATION FairSpec
CONSTANTS
  Repo = {r1, r2}
  Stream = {s1}
  Await = {"repo.fetched", Never}
  AnyRepo = AnyRepo
  Never = Never
  MaxEvents = 2
  MaxOutages = 2
INVARIANTS
  TypeOK
  OpenStreamsMissNothing
  EndedByTheAwaited
PROPERTIES
  AwaitedEventsEndStreams
