CONSTANTS
  Producers = {p1, p2}
  Consumers = {c1, c2}
  Size = 4
  MaxLen = 3
  Lens = {0, 1, 2, 4}
  Caps = {1}
  MaxCalls = 3
SPECIFICATION Spec
SYMMETRY Symmetry
INVARIANTS
  TypeOK
  WindowOrder
  NoOverlap
  HeaderFresh
  IntactDelivery
  NoOrphan
PROPERTIES
  FullIsReal
  EmptyIsReal
  ImplementsChannel
