SPECIFICATION FairSpec
CONSTANTS
  c1 = c1
  c2 = c2
  c3 = c3
  c4 = c4
  c5 = c5
  c6 = c6
  c7 = c7
  c8 = c8
  c9 = c9
  c10 = c10
  c11 = c11
  NK = 6
  NShifts = 2
  halfn59s = 6
  sieve_wpt = 2
  local_size = 2
  sol = 2
  Cands <- MCCands
  Where <- MCWhere
  AP <- MCAP
  TooLarge <- MCTooLarge
  MayFail = TRUE
INVARIANTS
  TypeOK
  Complete
  StopsExactly
  EventsSound
  QueueBounded
PROPERTIES
  ImplementsRangeSearch
  Ends
