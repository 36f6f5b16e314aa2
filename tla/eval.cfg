SPECIFICATION Spec
CONSTANTS
  MaxFns = 3
  MaxBody = 2
INVARIANTS NestBounded
PROPERTIES ImplementsReduce Returns
