SPECIFICATION TrackedSpec
CONSTANTS
  Objects = {o1, o2, o3, o4}
  Texts = {x, y}
  Empty = Empty
  NoObject = NoObject
INVARIANT CountsExact
