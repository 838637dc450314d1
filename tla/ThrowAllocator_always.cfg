SPECIFICATION Spec
CONSTANTS
  Nodes = {p1}
  Sizes = {1}
  Labels = {1}
  Never = 9
  MaxCount = 2
  MaxScopes = 2
PROPERTIES AlwaysForces
