SPECIFICATION MCSpec
CONSTANTS
  Byte <- MCByte
  MaxCode = 6
  SIZEOF_INT = 1
  stringtab_size = 1
  MaxReturns = 2
INVARIANTS
  TypeOK
  CountsAreExact
  OrderIsStrictWeak
  ReportIsRight
  StopTerminatedIsCounted
  ReadersTypeOK
  SameInstructions
  StaysOnInstructions
  RunsWhatIsPrinted
