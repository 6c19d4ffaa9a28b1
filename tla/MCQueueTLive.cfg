CONSTANTS
  Producers = {p1, p2}
  Consumers = {c1, c2}
  Size = 4
  MaxLen = 3
  Lens = {1, 2}
  Caps = {1}
  MaxCalls = 2
SPECIFICATION FairSpec
PROPERTIES
  EnqueueReturns
  DequeueReturns
  ImplementsFairChannel
