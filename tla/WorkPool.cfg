SPECIFICATION Spec
CONSTANTS
  a = a
  b = b
  c = c
  d = d
  AP <- MCAP
  Long <- MCLong
  Where <- MCWhere
  Mass <- MCMass
  MAXINTV = 5
  Word = 16
  Before = 9
  NThreads = 3
  numn43s = 5
  thread_range = 2
  NIterations = 2
  MayFail = FALSE
INVARIANTS
  TypeOK
  EachIndexOnce
  TablesStable
  TotalsExact
  LinesExact
PROPERTIES
  ImplementsRangeSearch
