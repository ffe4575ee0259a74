SPECIFICATION Spec
CONSTANTS
  FrameLen = 80
  DataLenFloat = 8
  DataLenInt = 4
  MaxLen = 60
  MaxArrays = 2
INVARIANTS FramesInv Complete
CHECK_DEADLOCK FALSE
