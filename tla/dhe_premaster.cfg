SPECIFICATION Spec
CONSTANTS
  PlainLens = {0, 1, 10, 11, 12, 13, 14, 15, 16, 17, 16383, 16384}
  Bytes = {0, 1, 2, 40, 255}
  TailLen = 3
  CBCLens = {64, 272}
  FixedIVs <- MCFixedIVs
  Seqs <- MCSeqs
  dheMinPLen = 2
  Certs <- MCCerts
  SystemRoots <- MCSystemRoots
  Cases <- DHECases
  CertLists <- MCCertLists
  Leaves = {1, 2, 8, 11, 12, 13}
  Inter <- MCInter
  Secrets = {2, 3, 233}
  Groups <- MCGroups
  SigAlgLists <- MCSigAlgLists
  Samples <- MCSamples
INVARIANT PreMasterPerRFC
CHECK_DEADLOCK FALSE
