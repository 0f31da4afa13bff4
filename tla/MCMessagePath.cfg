CONSTANTS
  Messages = {m1, m2}
  Sockets = {h1}
  NoMsg = NoMsg
  NoSocket = NoSocket
  NumQueues = 1
  Frames <- MCFrames
  MaxConn = 2
  MaxCrashes = 2
  WireCap = 1
SYMMETRY Symmetry
SPECIFICATION Spec
INVARIANTS TypeOK OnePlace NothingVanishes
PROPERTIES DeliverySpec
