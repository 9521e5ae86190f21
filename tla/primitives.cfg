SPECIFICATION MCSpec
CONSTANTS
  WORD_SIZE = 6
  HASH_BITS = 4
  HASH_DEPTH = 2
  CHAR_BITS = 2
  TAG_CHARS = 2
  STRINGBUF_INIT = 2
  CONS <- MCCons
  Heap <- MCHeap
INVARIANTS
  ArithmeticIsModular
  CompareIsOrder
  EqualValuesHashEqual
  PatternsMatch
  BufferHoldsText
