SPECIFICATION MCSpec
CONSTANTS
  None = None
  Downloads = {d1}
  Requests <- KeepConvert
  CacheKinds <- LzmaOnly
  WebKinds <- NoLink
  OldOutputs <- AnyOld
  Overlap = FALSE
  Posix = FALSE
PROPERTIES OutputsKept
