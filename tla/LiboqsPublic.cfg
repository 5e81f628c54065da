SPECIFICATION Spec
CONSTANTS
  Goroutines = {g1}
  MaxSigners = 1
PROPERTY
  PublicReturnsACopy
