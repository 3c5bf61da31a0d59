SPECIFICATION MCSpec
CONSTANTS
  None = None
  NumFiles = 2
  Contents <- MCContents
  Modes <- AllModes
  Preload = 1
  MaxArchiveSize = 2
  DirectoryArchiveIndex = 2
  UintRange = 16
  UnpackOptions <- MCOptions
  MaxWrites = 1
  MaxPacks = 2
  MaxUnpacks = 1
INVARIANTS SuccessVerifies UntouchedRoundTrip NothingInvented
PROPERTIES DirectoryLast PackageIsStore
