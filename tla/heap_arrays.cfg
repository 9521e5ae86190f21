SPECIFICATION Spec
CONSTANTS
  Bases <- OneBase
  MINIMUM_HEAP_CAPACITY = 4
  MAX_EXTRA_ROOTS_NUMBER = 2
  NG = 1
  MaxOperands = 3
  MaxAlloc = 4
  MaxLen = 2
  Consts <- ZeroOnly
  Strings <- OneString
  Ops <- ArrayOps
INVARIANTS
  HeapParsable
  QueueInvariant
  MarkedAreReachable
  SlidesDown
  CollectionMakesRoom
  BitsClearOutsideCollection
