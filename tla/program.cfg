SPECIFICATION Spec
CONSTANTS
  Texts <- MCTexts
  Names <- MCNames
  Kinds <- MCKinds
  Indents = {0, 1, 2}
  MaxTokens = 22
INVARIANTS LexicalScope NoRecursion MeansWhatItSays
PROPERTIES Terminates
