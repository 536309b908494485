SPECIFICATION Spec
CONSTANTS
  Chunks <- MCChunks
  Notice <- MCNotice
  MaxWritten = 6
  MaxOutputBytes = 4
  MaxStreamFrameBytes = 2
CHECK_DEADLOCK FALSE
INVARIANTS CaptureExact ProtocolOrder TextExact
