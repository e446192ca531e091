\* Two connects and a fetch of a repo, two remotes, of which the second reads as the first.
SPECIFICATION Spec
CONSTANTS
  Connect = {c1, c2}
  Fetch = {f1}
  Branch = {b1}
  Url = {"a", "a=b"}
  Beginning <- MCBeginning
  First = "a"
  NoUrl = NoUrl
  NoJob = NoJob
SYMMETRY RefsSymmetry
INVARIANTS
  TypeOK
  OnlyFailedChecksLeaveRefs
  OriginHasAcceptedAPush
  
