SPECIFICATION SpecH
CONSTANTS
  NScopes = 1
  RootCapacity = 1
  ScopeCapacity = 1
  MaxSeq = 2
  MaxGen = 2
PROPERTIES
  ClosingFrees
  AnsweredAfterDrop
CHECK_DEADLOCK FALSE
