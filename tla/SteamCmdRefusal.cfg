SPECIFICATION MCFairSpec
CONSTANTS
  None = None
  Noisy = {}
  Splits = FALSE
  ChunkSize = 1
  PipeCapacity = 2
  MaxAsks = 1
  MaxTexts = 0
PROPERTIES RefusalEndsRun
