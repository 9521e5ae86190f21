SPECIFICATION Spec
CONSTANTS
  Bases <- TwoBases
  MINIMUM_HEAP_CAPACITY = 4
  MAX_EXTRA_ROOTS_NUMBER = 2
  NG = 1
  MaxOperands = 2
  MaxAlloc = 4
  MaxLen = 1
  Consts <- ZeroOnly
  Strings <- OneString
  Ops <- BoxedOps
INVARIANTS
  NoDanglingPointers
  DumpsAgree
  GarbageReclaimedInOrder
  Structure
