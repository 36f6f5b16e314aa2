SPECIFICATION Spec
CONSTANTS
  Names <- MCNames
  Signed = TRUE
  MaxKeys = 4
  MaxScopes = 3
INVARIANTS TypeOK FoundByName
PROPERTIES Persistent ImplementsScopes
CHECK_DEADLOCK FALSE
