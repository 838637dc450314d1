SPECIFICATION Spec
CONSTANTS
  Kinds = {"set", "multiset", "vector", "list"}
  Vals = {0, 1, 2}
  MaxSize = 3
  MaxNodes = 4
INVARIANTS FaultsNoticed NoFalseAlarm CallsAreLegal
PROPERTIES Drains CopyNoticed
CHECK_DEADLOCK FALSE
