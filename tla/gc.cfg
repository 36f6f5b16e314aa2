SPECIFICATION Spec
CONSTANTS
  Addrs = {1, 2, 3, 4}
INVARIANTS TypeOK Linked
PROPERTIES ImplementsCollector MarksLeft CollectReturns
