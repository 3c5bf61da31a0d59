SPECIFICATION MCSpec
CONSTANTS
  None = None
  MaxFiles = 5
  MaxLength = 4
  Inputs <- MCInputs
  MaxArchiveSize = 3
  DirectoryArchiveIndex = 3
  UintRange = 9
  NumFiles = 2
  Contents <- MCContents
  Byte = {1, 2}
  MaxEdits = 1
  MaxPacks = 2
  MaxUnpacks = 2
  Volumes = {dir, v0, v1}
  Directory = dir
  MaxRuns = 2
INVARIANTS NoOverlap FitsArchive IndexUnambiguous Contiguous EveryFileWritten ToolMadeIsKept
PROPERTIES GmaRoundTrip GmaIsStore
