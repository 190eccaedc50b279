SPECIFICATION FairSpec
CONSTANTS
  Messages = {m1}
  Jobs <- OneJob
  Switches = {}
  NoKey = NoKey
  MaxTasks = 2
  IntSize = 3
CHECK_DEADLOCK FALSE
PROPERTY
  SequentialMode
