SPECIFICATION Spec
CONSTANTS
  Texts <- MCLists
  Names <- MCNames
  Kinds <- MCKinds
  Indents = {0}
  MaxTokens = 14
INVARIANTS LiteralContents
