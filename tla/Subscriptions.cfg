CONSTANTS
  Context = {"c1"}
  Observer = {"o1", "o2"}
  ContextOf <- ContextOfObserver
  Thread = {"t1", "t2"}
  Buffer = 1
  MaxEdits = 2
  Routes = 1
SPECIFICATION FairSpec
INVARIANT EveryoneIsToldOnce
PROPERTY OnlyTheSlowStopIt
PROPERTY EveryoneLearns
CHECK_DEADLOCK FALSE
