\* Three consumers connect one repo at once, and two workers share the queue, as
\* before ADR 16: one worker is a case of it, the other being idle.
SPECIFICATION Spec
CONSTANTS
  Repo = {r1}
  Url = {"a", "a=b"}
  Beginning <- MCBeginning
  Connect = {c1, c2, c3}
  Fetch = {}
  Worker = {w1, w2}
  MaxDeaths = 0
  NoClone = NoClone
  NoUrl = NoUrl
  NoJob = NoJob
SYMMETRY ConnectSymmetry
INVARIANTS
  TypeOK
  CreatorOwnsClone
  FailedCreationCleansUp
  LostOnlyToFailedCreation
  OneJobPerWaiter
  ReconnectedMeansFetchStarted
PROPERTIES
  OnlyItsCreatorRemoves
  ConnectingKeepsItsPromise
