SPECIFICATION Spec
CONSTANTS
  Byte = {0, 1}
  MinLength = 0
  MaxLength = 2
  Chunk = 2
  StreamLength = {1, 2, 3, 4, 5}
  Watermark = {0, 1}
INVARIANT
  StoredComesBack
CHECK_DEADLOCK FALSE
