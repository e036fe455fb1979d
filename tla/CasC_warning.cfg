SPECIFICATION Spec
CONSTANTS
  Threads = {t1, t2}
  MaxFaults = 0
INVARIANT
  WarnsOnlyIfCut
