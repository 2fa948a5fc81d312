SPECIFICATION Spec
CONSTANTS
  t1 = t1
  t2 = t2
  t3 = t3
  Threads = {t1, t2, t3}
  NoThread = NoThread
  Ops <- OpsWrite
  Calls = 2
  Chunks = 2
  MaxEmptyRecords = 1
  BufLens = {1}
  RecordKinds = {}
  MaxBytes = 0
  MaxInbox = 0
INVARIANTS LayerContract CloseNotifyLast AppOnlyAfterHandshake NoIOAfterClose IInv
CHECK_DEADLOCK FALSE
