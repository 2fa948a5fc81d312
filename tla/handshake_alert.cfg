SPECIFICATION Spec
CONSTANTS
  ServerMsgs <- MCServerMsgs
  Offered = {"ECDHE_ECDSA", "RSA", "GOST", "unregistered"}
  MaxPerRecord = 1
  MaxBuffered = 1
  FitTranscript = 7
  MaxTranscript = 10
INVARIANT AlertOnFailure
CHECK_DEADLOCK FALSE
