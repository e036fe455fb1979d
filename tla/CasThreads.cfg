SPECIFICATION Spec
CONSTANTS
  Workers = {w1, w2, w3}
INVARIANTS
  SizeTellsLoss
  AssertFailsOnlyAfterDeath
PROPERTIES
  SafePhaseImplementsAtomicList
  EndsOrWaitsForTheDead
