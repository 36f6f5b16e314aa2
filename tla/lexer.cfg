SPECIFICATION Spec
CONSTANTS
  Texts <- MCTexts
  Signs = {TRUE, FALSE}
  LongBits = 8
INVARIANTS NeverPastEnd CodeInTokens LayoutFollowsLines IndentBeforeCode OutputsAreInputs DiagramAsWritten  QuotesClose Faithful
PROPERTY Terminates
