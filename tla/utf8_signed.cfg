SPECIFICATION Spec
CONSTANTS
  Texts <- MCChars
  Signs = {TRUE}
  LongBits = 8
INVARIANTS CharsInRange
