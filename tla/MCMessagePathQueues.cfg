CONSTANTS
  Messages = {m1, m2}
  Sockets = {h1}
  NoMsg = NoMsg
  NoSocket = NoSocket
  NumQueues = 2
  Frames <- MCFrames
  MaxConn = 1
  MaxCrashes = 0
  WireCap = 2
SYMMETRY Symmetry
SPECIFICATION Spec
INVARIANTS RightDestination NoLossUntilRestart
