SPECIFICATION Spec
CONSTANTS
  Tasks = {t1, t2}
  Count = 2
  Budgets = {1, 2}
  MaxFaults = 2
INVARIANTS
  NumberCountsWins
  EnoughRetriesDropNothing
  ShortfallIsAccountedFor
  UnsafeNumberInRange
