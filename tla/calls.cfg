SPECIFICATION Spec
CONSTANTS
  NG = 1
  STACK_WORDS = 9
  CALL_WORDS = 16
  Functions <- MCFunctions
  Closures <- MCClosures
  Consts <- MCConsts
  Label <- MCLabels
  Verified = TRUE
INVARIANTS
  TypeOK
  CallStackBalanced
  FrameChain
  ClosureUnderArguments
PROPERTIES
  ImplementsActivations
