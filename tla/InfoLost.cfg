\* A URL that may be read but not written, or a tag: a check or a fetch of one repo.
SPECIFICATION Spec
CONSTANTS
  Connect = {c1}
  Fetch = {f1}
  Branch = {b1}
  Url = {"a", "b"}
  Beginning <- MCBeginning
  First = "a"
  NoUrl = NoUrl
  NoJob = NoJob
INVARIANTS
  InfoCanBeSeen
