SPECIFICATION Spec
CONSTANTS
  Kinds <- AllKinds
  Indents = {0, 1}
  MaxTokens = 7
INVARIANTS TypeOK FramesAligned NoUnderflow WholeProgramReturned EveryTokenOnce OnlyLiteralsOvertake HeadsMatch OffSide
PROPERTIES ClosedListsFrozen Terminates
