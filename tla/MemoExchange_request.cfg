CONSTANTS
  Slab = {"A", "B"}
  Origin = "A"
  Remotizer = {"A"}
  Task = {"r1", "r2"}
  SlabOf <- AllOnA
  MaxRemotize = 2
  MaxTries = 2
SPECIFICATION FairSpec
 
PROPERTY RequestBringsMemo
CHECK_DEADLOCK FALSE
