\* SameSolutions: a line of every build holds the first term itself.
CONSTANTS
  Masked = TRUE
  PRIM = 30
  Longest = 20
  MAXINTV = 1100
  Word32 = 2300
  Skip = 2
  Full = 3
  MINIMUM_AP_LENGTH_TO_REPORT = 4
  base <- MCbase
  Few = 3
  Limit = 32749
  Inputs <- MCInputs
SPECIFICATION Spec
INVARIANTS
  SameSolutions
