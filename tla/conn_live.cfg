SPECIFICATION FairSpec
CONSTANTS
  t1 = t1
  t2 = t2
  t3 = t3
  Threads = {t1, t2, t3}
  NoThread = NoThread
  Ops <- OpsLive
  Calls = 1
  Chunks = 2
  MaxEmptyRecords = 1
  BufLens = {1}
  RecordKinds = {"app", "empty"}
  MaxBytes = 2
  MaxInbox = 1
PROPERTIES CloseTerminates CloseUnblocks FloodedReadReturns
CHECK_DEADLOCK FALSE
