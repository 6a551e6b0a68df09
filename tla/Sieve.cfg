\* The sieve's arithmetic on the real constants.
CONSTANT Samples <- MCSamples
SPECIFICATION Spec
INVARIANTS
  TypeOK
  TableExact
  ClassExact
  RowsExact
  SitoExact
  RunExact
