SPECIFICATION FairSpec
CONSTANTS
  Goroutines = {g1, g2}
  NoOne = NoOne
  MaxDraws = 3
  MaxReads = 2
INVARIANTS
  TypeOK
  OutputsFresh
  NoSharedRandomness
  BuffersHeldExactlyDuringCalls
  VerifyNeverBlocks
PROPERTIES
  DRBGOnlyUnderLock
  CallsReturn
  ImplementsFreshCalls
