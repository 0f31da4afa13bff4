CONSTANTS
  Nodes = {n1, n2, n3, n4}
  Nil = Nil
  Values = {v1, v2}
  NoValue = NoValue
SPECIFICATION FairSpec
INVARIANTS TypeOK Linked HeapExact
PROPERTIES ListSpec Unlocked
CHECK_DEADLOCK FALSE
