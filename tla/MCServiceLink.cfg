CONSTANTS
  frame = frame
  Frames <- MCFrames
  MaxConn = 3
  MaxCrashes = 3
  WireCap = 2
SPECIFICATION LinkFairSpec
INVARIANTS LinkTypeOK SoundUntilRestart NeverSelectsClosed
PROPERTIES DeadConnectionDropped
