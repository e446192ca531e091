\* doc/features/repo_info.feature: "Once you've connected a repo, you can see
\* information about it."
SPECIFICATION Spec
CONSTANTS
  Repo = {r1}
  Url = {"a", "b"}
  Beginning <- MCBeginning
  Connect = {c1, c2}
  Fetch = {}
  Worker = {w1}
  MaxDeaths = 0
  NoClone = NoClone
  NoUrl = NoUrl
  NoJob = NoJob
INVARIANTS
  ConnectedRepoCanBeSeen
