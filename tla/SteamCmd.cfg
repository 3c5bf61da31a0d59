SPECIFICATION MCFairSpec
CONSTANTS
  None = None
  Noisy = {"out", "err"}
  Splits = TRUE
  ChunkSize = 1
  PipeCapacity = 2
  MaxAsks = 4
  MaxTexts = 3
INVARIANTS OneDialog RightAnswer OutputComplete
PROPERTIES QuestionPrompted RunReturns
