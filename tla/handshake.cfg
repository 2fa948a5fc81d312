SPECIFICATION FairSpec
CONSTANTS
  ServerMsgs <- MCServerMsgs
  Offered = {"ECDHE_ECDSA", "RSA", "GOST", "unregistered"}
  MaxPerRecord = 2
  MaxBuffered = 2
  FitTranscript = 7
  MaxTranscript = 10
INVARIANTS DigestsCover LegalWhenDone  AlertAfterHello
PROPERTIES NoStraddle Terminates
CHECK_DEADLOCK FALSE
