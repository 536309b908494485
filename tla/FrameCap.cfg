SPECIFICATION Spec
CONSTANTS
  Chunks <- MCText
  Notice <- MCNotice
  MaxWritten = 5
  MaxOutputBytes = 6
  MaxStreamFrameBytes = 3
CHECK_DEADLOCK FALSE
INVARIANT FrameCap
