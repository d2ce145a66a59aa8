\* Two scopes and the root, each with a credit; three batches and a Close per
\* scope fill the ring of commands to its last place.
SPECIFICATION Spec
CONSTANTS
  NScopes = 2
  RootCapacity = 1
  ScopeCapacity = 1
  MaxSeq = 3
  MaxGen = 1
INVARIANTS
  CreditsBalance
  NothingOverflows
  GenerationsAgree
  OwnHistory
CHECK_DEADLOCK FALSE
