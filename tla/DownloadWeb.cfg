SPECIFICATION MCSpec
CONSTANTS
  None = None
  Downloads = {d1}
  Requests <- KeepConvert
  CacheKinds <- NoLink
  WebKinds <- LzmaOnly
  OldOutputs <- NoneOld
  Overlap = FALSE
  Posix = FALSE
PROPERTIES WebConverted
