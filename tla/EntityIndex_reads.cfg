CONSTANTS
  Context = {"A", "B"}
  Client = {"a", "b"}
  Writer = {"a"}
  Compactor = {}
  Applier = {"applier b"}
  ContextOf <- WriterAndObserver
  Slot <- SlotValue
  Depth = 2
  Key <- TwoKeys
  MaxWrites = 2
  MaxCompact = 0
SPECIFICATION Spec
INVARIANT ReadsAreCurrent
CHECK_DEADLOCK FALSE
