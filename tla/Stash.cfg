CONSTANTS
  Memos <- Branch
  MaxSlots = 2
  EntityId <- EntityIdValue
  HeadSet <- HeadSetValue
  Null <- NullValue
  None = None
  EntityOf <- EntityOfValue
  ApplyHead <- ApplyHeadValue
  Covers <- CoversValue
  Links <- LinksValue
  Input <- InputValue
  Task = {t1, t2}
  MaxApply = 2
  MayFail = TRUE
SPECIFICATION Spec
INVARIANT TypeOK
INVARIANT IndexExact
INVARIANT RefCountExact
INVARIANT GuardPinsItem
INVARIANT RelationsMatchHead
PROPERTY NothingForgotten
