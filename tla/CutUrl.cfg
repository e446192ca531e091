\* doc/features/connect.feature, "Change remote URL for an existing repo": from a URL with
\* a "=" to what comes before it.
SPECIFICATION Spec
CONSTANTS
  Repo = {r1}
  Url = {"a", "a=b"}
  Beginning <- MCBeginning
  Connect = {c1, c2}
  Fetch = {}
  Worker = {w1}
  MaxDeaths = 0
  NoClone = NoClone
  NoUrl = NoUrl
  NoJob = NoJob
INVARIANTS
  ReconnectedIsToTheSameUrl
