SPECIFICATION FairSpec
CONSTANTS
  Names = {"a", "b"}
  MaxPath = 2
  Targets <- SomeTargets
  Devices <- OneDevice
  SystemDirs <- OneDir
  PathBuf = 3
  RestBuf = 1
  MaxDepth = 8
  MaxEntries = 3
INVARIANTS
  TypeOK
  TakenStays
  LookupRight
PROPERTIES
  LookupDescends
  LookupEnds
