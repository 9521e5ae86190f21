SPECIFICATION FairSpec
CONSTANTS
  Bases <- OneBase
  MINIMUM_HEAP_CAPACITY = 4
  MAX_EXTRA_ROOTS_NUMBER = 2
  NG = 1
  MaxOperands = 3
  MaxAlloc = 3
  MaxLen = 1
  Consts <- ZeroOnly
  Strings <- OneString
  Ops <- GraphOps
PROPERTIES
  ImplementsObjectGraph
  AllocReturns
