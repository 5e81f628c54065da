SPECIFICATION Spec
CONSTANTS
  ArchOrder <- MCArchOrder
  NameOrder <- MCNameOrder
  Reference = "ED25519"
  MaxRuns = 3
  MaxFailures = 2
INVARIANTS
  TypeOK
  CostsAreTheLatest
  UninterruptedRunsAccumulate
PROPERTIES
  UnreadableFileIsKept
CHECK_DEADLOCK FALSE
