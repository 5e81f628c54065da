SPECIFICATION Spec
CONSTANTS
  Goroutines = {g1, g2}
  MaxSigners = 2
INVARIANTS
  TypeOK
  SignedWithOwnKey
  KeyPairsIntact
  BlobsRestorePairs
  HandlesReleased
PROPERTIES
  NoKeyLeftBehind
