SPECIFICATION FairSpec
CONSTANTS
  Rows <- MCRows
  Reference = "ED25519"
  Iterations <- MCIterations
  Times <- MCTimes
INVARIANTS
  TypeOK
  MedianSplitsSamples
  ReferenceCostsOne
  FasterNeverCostsMore
PROPERTIES
  RunEnds
