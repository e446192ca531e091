\* A single commit is enough.
SPECIFICATION Spec
CONSTANTS
  Request = {q1}
  Outside = {}
  Connect = {}
  Branch = {b1}
  Url = {u1}
  Worker = {w1}
  NoCommit = NoCommit
  NoUrl = NoUrl
  NoJob = NoJob
INVARIANTS
  IndexIsCleanedUp
