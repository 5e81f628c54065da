SPECIFICATION Spec
CONSTANTS
  Shells = {s1}
  Search <- MCSearch
  Before <- MCBefore
  Packages <- MCPackages
  Pkgconfig = "liboqs/pkgconfig"
  LinkFlags = FALSE
  None = None
  MaxSources = 2
  MaxChanges = 1
INVARIANTS
  SourcingMoreIsFine
