SPECIFICATION Spec
CONSTANTS
  opsGroup = 3
  totalDocs = 4
  MaxFaults = 3
INVARIANTS EachAskedOnce ArrayComplete CrashOnlyAfterFault AtMostWindowMissing
PROPERTY EndsOrStarves
