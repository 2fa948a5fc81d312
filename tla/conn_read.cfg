SPECIFICATION Spec
CONSTANTS
  t1 = t1
  t2 = t2
  t3 = t3
  Threads = {t1, t2}
  NoThread = NoThread
  Ops <- OpsRead
  Calls = 2
  Chunks = 1
  MaxEmptyRecords = 1
  BufLens = {0, 1}
  RecordKinds = {"app", "empty", "close_notify"}
  MaxBytes = 4
  MaxInbox = 2
INVARIANTS ReadStream 
PROPERTY ReadErrSticky
CHECK_DEADLOCK FALSE
