SPECIFICATION Spec
CONSTANTS
  Bases <- OneBase
  MINIMUM_HEAP_CAPACITY = 16
  MAX_EXTRA_ROOTS_NUMBER = 2
  NG = 1
  MaxOperands = 2
  MaxAlloc = 2
  MaxLen = 1
  Consts <- ZeroOnly
  Strings <- OneString
  Ops <- EveryOp
INVARIANTS
  TypeOK
  CapturedAddressesInside
