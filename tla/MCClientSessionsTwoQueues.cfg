CONSTANTS
  c1 = c1
  c2 = c2
  h1 = h1
  h2 = h2
  w1 = w1
  w2 = w2
  Clients = {c1, c2}
  NoClient = NoClient
  Handles = {h1, h2}
  NoHandle = NoHandle
  Workers = {w1, w2}
  NumQueues = 2
  MaxRequests = 2
  PromptStart = TRUE
SPECIFICATION Spec
INVARIANT QueuesFreed
CHECK_DEADLOCK FALSE
