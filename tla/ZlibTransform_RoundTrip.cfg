SPECIFICATION FairSpec
CONSTANTS
  Byte = {0, 1}
  MinLength = 1
  MaxLength = 2
  Chunk = 2
  StreamLength = {1, 2, 3, 4, 5}
  Watermark = {0, 1}
INVARIANTS
  TypeOK
  FrameIsFilled
  StoredComesBack
PROPERTIES
  StepsRunOut
  WriteEnds
CHECK_DEADLOCK FALSE
