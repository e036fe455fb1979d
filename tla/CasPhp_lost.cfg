SPECIFICATION Spec
CONSTANTS
  Procs = {p1, p2}
  Retries = 10
  MaxFlush = 0
  MayFail = FALSE
INVARIANT
  MutationsRemain
