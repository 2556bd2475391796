CONSTANTS
  Context = {"A", "B"}
  Client = {"a", "b"}
  Writer = {"a"}
  Compactor = {"b"}
  Applier = {"applier b"}
  ContextOf <- WriterAndObserver
  Slot <- SlotValue
  Depth = 2
  Key <- OneKey
  MaxWrites = 2
  MaxCompact = 1
SPECIFICATION Spec
INVARIANT AssuredIsFound
INVARIANT DeliveredIsFound
CHECK_DEADLOCK FALSE
