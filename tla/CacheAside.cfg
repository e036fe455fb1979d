SPECIFICATION Spec
CONSTANTS
  Pages = {p1, p2, p3}
  TTL = 2
  MaxDelay = 1
  MaxVersion = 2
INVARIANTS TypeOK AgeBounded
PROPERTIES LoadReduced EventuallyFresh
