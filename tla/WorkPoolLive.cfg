SPECIFICATION FairSpec
CONSTANTS
  a = a
  b = b
  c = c
  d = d
  AP <- MCAP
  Long <- MCLong
  Where <- MCWhere
  Mass <- MCMass
  MAXINTV = 5
  Word = 16
  Before = 9
  NThreads = 2
  numn43s = 3
  thread_range = 2
  NIterations = 2
  MayFail = TRUE
PROPERTIES
  ProgressMonotone
  Ends
