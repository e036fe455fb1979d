SPECIFICATION Spec
CONSTANTS
  Lengths <- SomeLengths
INVARIANTS
  LeavesOnlyKeysAndDigests
  PaddedTextFits
  ReadsBehindItsWriter
CHECK_DEADLOCK FALSE
