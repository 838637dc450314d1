SPECIFICATION Spec
CONSTANTS
  Nodes = {p1, p2}
  Sizes = {1, 2}
  Labels = {1}
  Never = 9
  MaxCount = 2
  MaxScopes = 2
SYMMETRY Symmetry
INVARIANTS RestoredOutside HeapAnnotated
