SPECIFICATION FairSpec
CONSTANTS
  g1 = g1
  g2 = g2
  c1 = c1
  c2 = c2
  Goroutines <- MCGoroutines
  Codecs <- MCCodecs
  Inputs <- MCInputs
  Outcome <- MCOutcome
  NoOne = NoOne
  MaxCodecs = 3
INVARIANTS
  TypeOK
  KnownCodecsAreTried
  LookupsAgree
PROPERTIES
  CallsReturn
  ImplementsDirectory
