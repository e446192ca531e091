\* Two connects and a fetch of one repo, on an event loop and a worker that go on,
\* while the server dies once, at any moment.
SPECIFICATION FairSpec
CONSTANTS
  Repo = {r1}
  Url = {"a"}
  Beginning <- MCBeginning
  Connect = {c1, c2}
  Fetch = {f1}
  Worker = {w1}
  MaxDeaths = 1
  NoClone = NoClone
  NoUrl = NoUrl
  NoJob = NoJob
INVARIANTS
  OneJobPerWaiter
  WaitersHaveJobs
  FetchFollowsConnection
  UnusableClonesAreLeftovers
  ReconnectedMeansFetchStarted
PROPERTIES
  ConnectingKeepsItsPromise
  EveryRequestSettles
  ConnectedThenFetched
