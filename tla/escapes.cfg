SPECIFICATION Spec
CONSTANTS
  Texts <- MCHexEscapes
  Signs = {TRUE, FALSE}
  LongBits = 8
INVARIANTS HexEscapes
