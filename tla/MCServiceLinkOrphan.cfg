CONSTANTS
  frame = frame
  Frames <- MCFrames
  MaxConn = 2
  MaxCrashes = 1
  WireCap = 1
SPECIFICATION LinkSpec
INVARIANT NoOrphan
