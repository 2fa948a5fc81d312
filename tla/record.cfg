SPECIFICATION Spec
CONSTANTS
  Data <- MCData
  MaxSeq = 3
  MaxErrors = 1
  MaxFaults = 1
  MaxWire = 4
INVARIANTS  NoSpuriousFailure
PROPERTY ImplementsChannel
CHECK_DEADLOCK FALSE
