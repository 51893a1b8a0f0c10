SPECIFICATION Spec
CONSTANTS
  NTasks = 2
  NFds = 2
  Children0 <- SomeChildren
  Sizes <- SomeSizes
  Devices <- SomeDevices
  Args <- SomeArgs
  Mounts <- SomeMounts
  Offsets <- SomeOffsets
  Counts = {2}
  Rooms = {1, 2}
  ReadBuf = 2
  MaxDents = 2
  PathBuf = 1
  PosMod = 3
INVARIANTS
  TypeOK
  ReadInside
  ListingFaithful
