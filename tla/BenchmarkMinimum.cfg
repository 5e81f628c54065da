SPECIFICATION Spec
CONSTANTS
  Rows <- MCRows
  Reference = "ED25519"
  Iterations <- MCIterations
  Times <- MCTimes
INVARIANTS
  ReportedCostsAtLeastOne
