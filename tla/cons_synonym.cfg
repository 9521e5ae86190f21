SPECIFICATION RuntimeSpec
CONSTANTS
  Bases <- TwoBases
  MINIMUM_HEAP_CAPACITY = 4
  MAX_EXTRA_ROOTS_NUMBER = 3
  FrameWords = 0
  Statics = 0
  MaxOperands = 2
  MaxAlloc = 4
  MaxLen = 0
  Consts <- ZeroOnly
  Strings <- OneString
  Argc <- NoArgs
  Calls <- ConsCalls
INVARIANTS
  ConsTakesOperands
