CONSTANTS
  Messages = {m1, m2, m3}
  ToHost = {m1, m2}
  ToPeer = {m3}
  Sockets = {h1}
  NoMsg = NoMsg
  NoSocket = NoSocket
  NumQueues = 1
  Frames <- MCFrames
  MaxConn = 2
  MaxCrashes = 1
  WireCap = 1
SPECIFICATION LiveSpec
PROPERTIES MessagesSettle ClientsNotBlocked
CHECK_DEADLOCK FALSE
