\* Two consumers commit to a branch of a repo that a third connects elsewhere,
\* one worker, and somebody else who pushes and deletes.
SPECIFICATION FairSpec
CONSTANTS
  Request = {q1, q2}
  Outside = {o1}
  Connect = {c1}
  Branch = {b1}
  Url = {u1, u2}
  Worker = {w1}
  NoCommit = NoCommit
  NoUrl = NoUrl
  NoJob = NoJob
INVARIANTS
  TypeOK
  CommitsHoldTheirHistory
  CommittedMeansPushed
  WaitersHaveJobs
PROPERTIES
  BranchesOnlyGrow
  CommittingKeepsItsPromise
  EveryCommitSettles
