SPECIFICATION DialFairSpec
CONSTANTS
  d1 = d1
  u1 = u1
  Threads = {d1, u1}
  NoThread = NoThread
  Dialing = d1
  Ops <- OpsDial
  Calls = 2
  Chunks = 1
  MaxEmptyRecords = 1
  BufLens = {1}
  RecordKinds = {"app"}
  MaxBytes = 2
  MaxInbox = 1
INVARIANTS ReturnedClean FailedClosed
PROPERTIES PoisonFails CtxBoundsDial
CHECK_DEADLOCK FALSE
