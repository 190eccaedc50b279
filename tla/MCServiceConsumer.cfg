SPECIFICATION FairSpec
CONSTANTS
  Messages = {m1, m2}
  Jobs <- MCJobs
  Switches = {0, 1}
  NoKey = NoKey
  MaxTasks = 2
  IntSize = 3
INVARIANTS
  TypeOK
  FinishedIsServed
  AttemptsExact
  RetryWaits
PROPERTIES
  NoRepeat
  JobsEnd
