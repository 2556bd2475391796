CONSTANTS
  Net = {"A", "B", "C"}
  Creator = "A"
  Slab = {"a","b","c","c2"}
  NetOf <- NetOfSlab
  IdOf <- IdOfSlab
  Hello <- Chain
  Reader = {"c2"}
  MaxTries = 2
  MaxFaults = 1
  Local = Local
  None = None
SPECIFICATION FairSpec
INVARIANT RoutesLead
INVARIANT SeedCanBeFetched
INVARIANT DeadlineMeansLoss
PROPERTY JoinCompletes
PROPERTY RequestBringsRoot
PROPERTY PresenceSettles
CHECK_DEADLOCK FALSE
