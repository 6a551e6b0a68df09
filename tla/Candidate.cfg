\* A 16-bit word, and progressions from length 3 instead of 10.
CONSTANTS
  Masked = TRUE
  PRIM = 30
  Longest = 20
  MAXINTV = 1100
  Word32 = 2300
  Skip = 2
  Full = 3
  MINIMUM_AP_LENGTH_TO_REPORT = 4
  base <- MCbase
  Few = 3
  Limit = 32749
  Inputs <- MCInputs
SPECIFICATION Spec
INVARIANTS
  TypeOK
  TestsExact
  WalkExact
  LinesExact
  ChecksumExact
  NeverInvalid
  SoftwareLimit
PROPERTIES
  Descends
