SPECIFICATION Spec
CONSTANTS
  Zero = 0
  Byte = {0, 1, 2}
  ReadSizes = {0, 1, 3}
  Chunks <- Strings
  Escapes <- Escape
  Offsets <- Moves
  word_size = 2
  min_words = 2
  MaxBytes = 5
INVARIANT TypeOK
INVARIANT DeviceInBounds
INVARIANT TailIsZero
PROPERTY ImplementsByteFile
