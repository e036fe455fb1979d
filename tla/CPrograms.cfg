SPECIFICATION Spec
CONSTANTS
  Scenarios <- Together
  MaxFaults = 2
  MaxWaits = 1
INVARIANTS
  AsPromised
  BatchAllOrNothing
  AssertsSurviveNeighbours
  DurableUntilOverwritten
