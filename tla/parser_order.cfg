SPECIFICATION Spec
CONSTANTS
  Kinds <- MCLiterals
  Indents = {0}
  MaxTokens = 3
INVARIANTS SourceOrder
