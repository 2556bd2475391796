CONSTANTS
  Slab = {"A", "B", "C"}
  Origin = "A"
  Remotizer = {"A", "B", "C"}
  Task = {}
  SlabOf <- AllOnA
  MaxRemotize = 1
  MaxTries = 1
SPECIFICATION Spec
INVARIANT MeshIsComplete
 
CHECK_DEADLOCK FALSE
