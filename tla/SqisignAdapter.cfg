SPECIFICATION Spec
CONSTANTS
  Goroutines = {g1, g2}
  Keys = {k1, k2}
  Messages <- MCMessages
  Blocks = {b1, b2, b3}
  None = None
SYMMETRY Symmetry
INVARIANTS
  TypeOK
  BlocksHeldByOneCall
PROPERTIES
  ImplementsDetachedSignatures
