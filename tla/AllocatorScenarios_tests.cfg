SPECIFICATION Spec
CONSTANTS
  b1 = b1
  b2 = b2
  b3 = b3
  b4 = b4
  None = None
  Blocks <- MCBlocks
  Kinds = {"vector", "list", "set"}
  Faults = {"none", "leaks", "loses", "reallocates", "stateless", "copies_allocator", "default_allocator", "never_propagates", "always_propagates", "frees_late", "steals", "moves_each", "resets_moved_from"}
SYMMETRY Addresses
INVARIANTS MapIsHeap NoFalseAlarm FaultsNoticed
CHECK_DEADLOCK FALSE
