CONSTANTS
  h1 = h1
  h2 = h2
  Sockets = {h1, h2}
  NoSocket = NoSocket
  NoFrame = NoFrame
  NumQueues = 1
  Frames <- MCFrames
  MaxConn = 2
  MaxCrashes = 2
  WireCap = 1
SPECIFICATION MCSpec
INVARIANTS TypeOK FlagsAgree
PROPERTIES HostLearns HostForgets
