SPECIFICATION Spec
CONSTANTS
  a28 = a28
  a30 = a30
  s30 = s30
  KMIN = 28
  KMAX = 31
  AP <- MCAP
  KOf <- MCKOf
  Long <- MCLong
  Mass <- MCMass
  MAXINTV = 5
  Word = 16
  StartTime = 2
  CKPT_GAP = 1
  TRICKLE_GAP = 1
  TimeWord = 64
  GPU = FALSE
  STANDALONE = FALSE
  MaxTime = 5
  FaultKinds = {"begin", "search", "open", "write", "close", "cksum", "clock"}
  MaxFaults = 2
  MaxLaunches = 3
INVARIANTS
  TypeOK
  StateFilesExact
  AckedSurvives
  NoSolutionLost
  CopiesBounded
  ChecksumRight
  OneChecksumLine
PROPERTIES
  TrickleSpacing
  ImplementsDurableSearch
