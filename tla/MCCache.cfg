CONSTANTS
  MaxBlocks = 4
  Top = 2
  BlockSize <- MCBlockSize
  Small = 1
  SmallCount = 4
  Medium = 2
  MaxPool = 7
  Word = 14
  Addrs = {p1, p2, p3, p4}
  Lens <- MCLens
  Caches = {c1, c2}
  Pieces = {1, 3, 13}
  Tags = 2
SPECIFICATION Spec
VIEW Live
SYMMETRY Symmetry
INVARIANTS
  TypeOK
  BlocksApart
  NothingLost
PROPERTIES
  LimitCrossedByLargest
  ImplementsAllocator
  CacheIsByteSequence
CHECK_DEADLOCK FALSE
