\* doc/features/repo_info.feature, "Failed to connect".
SPECIFICATION Spec
CONSTANTS
  Repo = {r1}
  Url = {"a"}
  Beginning <- MCBeginning
  Connect = {c1}
  Fetch = {}
  Worker = {w1}
  MaxDeaths = 0
  NoClone = NoClone
  NoUrl = NoUrl
  NoJob = NoJob
INVARIANTS
  FailedConnectLeavesNoRepo
