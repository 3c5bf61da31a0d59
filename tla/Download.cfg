SPECIFICATION MCSpec
CONSTANTS
  None = None
  Downloads = {d1, d2}
  Requests <- GmodRequests
  CacheKinds <- SomeKind
  WebKinds <- SomeLink
  OldOutputs <- SomeOld
  Overlap = TRUE
  Posix = TRUE
PROPERTIES SuccessComplete OutputsKeptButGma SteamConverted
