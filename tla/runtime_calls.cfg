SPECIFICATION FairRuntimeSpec
CONSTANTS
  Bases <- OneBase
  MINIMUM_HEAP_CAPACITY = 4
  MAX_EXTRA_ROOTS_NUMBER = 3
  FrameWords = 8
  Statics = 1
  MaxOperands = 3
  MaxAlloc = 3
  MaxLen = 2
  Consts <- ZeroOnly
  Strings <- OneString
  Argc <- ZeroOrTwo
  Calls <- AllCalls
INVARIANTS
  RuntimeTypeOK
  PoolBalanced
  OverflowOnlyByClosures
PROPERTIES
  ProgramStarts
