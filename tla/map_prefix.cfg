SPECIFICATION Spec
CONSTANTS
  Names <- MCPrefixNames
  Signed = TRUE
  MaxKeys = 2
  MaxScopes = 2
INVARIANTS FoundByName
CHECK_DEADLOCK FALSE
