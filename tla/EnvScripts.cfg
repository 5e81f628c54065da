SPECIFICATION Spec
CONSTANTS
  Shells = {s1, s2}
  Search <- MCSearch
  Before <- MCBefore
  Packages <- MCPackages
  Pkgconfig = "liboqs/pkgconfig"
  LinkFlags = TRUE
  None = None
  MaxSources = 2
  MaxChanges = 2
SYMMETRY Symmetry
INVARIANTS
  TypeOK
  SourcedInstallIsUsed
  SourcedLibrariesStayFound
  FoundInstallsAreWhole
CHECK_DEADLOCK FALSE
