SPECIFICATION Spec
CONSTANTS
  Threads = {t1, t2}
  MaxFaults = 3
INVARIANTS
  ListStaysWellFormed
  SafeThreadsLoseNothing
  SafeThreadsStoreOnce
  SafePhaseCountsAll
PROPERTY
  EndsIfDocumentExists
