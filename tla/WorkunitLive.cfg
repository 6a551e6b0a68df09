SPECIFICATION FairSpec
CONSTANTS
  a28 = a28
  a30 = a30
  s30 = s30
  KMIN = 28
  KMAX = 31
  AP <- MCAP
  KOf <- MCKOf
  Long <- MCLong
  Mass <- MCMass
  MAXINTV = 5
  Word = 16
  StartTime = 2
  CKPT_GAP = 1
  TRICKLE_GAP = 1
  TimeWord = 64
  GPU = TRUE
  STANDALONE = TRUE
  MaxTime = 4
  FaultKinds = {"begin", "search", "results", "open", "write", "close", "cksum", "clock"}
  MaxFaults = 2
  MaxLaunches = 3
PROPERTIES
  Finishes
