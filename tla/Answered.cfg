\* Two requests, one worker process that dies and is started again, a server that is
\* started twice.
SPECIFICATION FairSpec
CONSTANTS
  DenialWords = {denial}
  LockWords = {lock}
  PathWords = {path}
  Request = {q1, q2}
  Worker = {w1}
  MaxStarts = 2
  NoJob = NoJob
INVARIANTS
  TypeOK
  OneJobAtATime
  WaitersHaveJobs
  ServesOnlyBesideAWorker
  AnswersTellWhatHappened
PROPERTIES
  AnsweredUnlessSomethingDied
