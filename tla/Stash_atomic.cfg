CONSTANTS
  Memos <- Pair
  MaxSlots = 1
  EntityId <- EntityIdValue
  HeadSet <- HeadSetValue
  Null <- NullValue
  None = None
  EntityOf <- EntityOfValue
  ApplyHead <- ApplyHeadValue
  Covers <- CoversValue
  Links <- LinksValue
  Input <- InputValue
  Task = {t1, t2}
  MaxApply = 2
  MayFail = TRUE
SPECIFICATION FairSpec
PROPERTY AppliesAtomically
PROPERTY CallsReturn
