SPECIFICATION Spec
CONSTANTS
  Bytes <- MCBytes
  Sizes = {1, 3}
  Caps = {0, 1, 6}
  MaxChurn = 11
INVARIANTS TypeOK DropLeavesRoom AmortisedCost
PROPERTY ImplementsStack
CHECK_DEADLOCK FALSE
