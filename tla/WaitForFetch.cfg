\* packages/smoke-tests/index.ts, with connections that never break.
SPECIFICATION FairSpec
CONSTANTS
  Repo = {r1}
  Stream = {s1}
  Await = {"repo.fetched"}
  AnyRepo = AnyRepo
  Never = Never
  MaxEvents = 2
  MaxOutages = 0
PROPERTIES
  WaitsForRepoToBeFetched
