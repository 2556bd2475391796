CONSTANTS
  Slab = {"A", "B", "C"}
  ThreadOf <- TwoThreads
  Transport = {x, y}
  ForeignRoot = {F, G}
  Nothing = Nothing
SYMMETRY Alike
SPECIFICATION Spec
INVARIANT EveryoneIsWired
INVARIANT OwnSeedHolderIsUp
INVARIANT SystemHasSeed
INVARIANT CertainRootsStay
CHECK_DEADLOCK FALSE
