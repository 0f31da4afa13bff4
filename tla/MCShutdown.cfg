CONSTANTS
  w1 = w1
  w2 = w2
  Workers = {w1, w2}
  MaxClients = 3
  MaxQueued = 1
SPECIFICATION FairSpec
INVARIANTS TypeOK NoLostWakeup AllJoined CleanEnd
PROPERTIES Terminates
CHECK_DEADLOCK FALSE
