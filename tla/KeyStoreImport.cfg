SPECIFICATION Spec
CONSTANTS
  Packages <- MCPackages
  Linkable <- MCLinkable
  Impl <- AlgorithmImpl
  Codec <- AlgorithmCodec
  Tables <- MCTables
  None = None
  MaxKeys = 2
INVARIANTS
  ImportRegisters
