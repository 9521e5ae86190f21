SPECIFICATION MCSpec
CONSTANTS
  Bases <- TwoBases
  MINIMUM_HEAP_CAPACITY = 6
  MAX_EXTRA_ROOTS_NUMBER = 3
  FrameWords = 0
  Statics = 1
  MaxOperands = 3
  MaxAlloc = 3
  MaxLen = 2
  Consts <- OneOnly
  Strings <- TwoStrings
  Argc <- ZeroOrTwo
  Calls <- SoundCalls
INVARIANTS
  NoDanglingPointers
  DumpsAgree
PROPERTIES
  ImplementsRuntimeGraph
