SPECIFICATION Spec
CONSTANTS
  Addrs = {a1, a2, a3, a4}
  Pools = {p1}
  Names = {"n"}
  BlockSize = 2
  Shapes <- SomeShapes
SYMMETRY Symmetry
INVARIANTS
  ListsWellLinked
  PoolsCountTheirItems
PROPERTIES
  ImplementsItemTrees
CHECK_DEADLOCK FALSE
