SPECIFICATION FairSpec
CONSTANTS
  t1 = t1
  t2 = t2
  t3 = t3
  Threads = {t1, t2, t3}
  NoThread = NoThread
  Ops <- OpsDeadline
  Calls = 1
  Chunks = 1
  MaxEmptyRecords = 1
  BufLens = {1}
  RecordKinds = {}
  MaxBytes = 0
  MaxInbox = 0
PROPERTY CloseTerminates
CHECK_DEADLOCK FALSE
