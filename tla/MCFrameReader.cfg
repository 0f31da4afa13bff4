CONSTANTS
  BUFFER = 20
  WORD = 65536
  HALF = 32
  TextSizes <- MCTextSizes
  MaxFrames = 3
SPECIFICATION FairSpec
INVARIANTS TypeOK InStep AstrayOnlyIf
PROPERTIES AllProcessed
CHECK_DEADLOCK FALSE
