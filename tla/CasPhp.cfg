SPECIFICATION FairSpec
CONSTANTS
  Procs = {p1, p2, p3}
  Retries = 5
  MaxFlush = 1
  MayFail = TRUE
INVARIANTS
  TypeOK
  NeverGivesUp
  CasIdentifiesValue
PROPERTIES
  ImplementsAtomicList
  Terminates
