\* Five descriptors, a table size that fails, fits or overshoots, and every
\* OS failure sanitize_files handles; three preserve and two add arguments.
CONSTANTS
  MaxFd = 5
  DtableSizes <- MCDtableSizes
  OPEN_MAX = 5
  KeepArgs <- MCKeepArgs
  FstatMayFail = TRUE
  DevNullMayFail = TRUE
  Names <- MCNames
  NameLen <- MCNameLen
  ValueLens = {0, 1}
  STDPATH_LEN = 29
  PtrSize = 8
  PreserveArgs <- MCPreserveArgs
  AddArgs <- MCAddArgs
  AllocMayFail = TRUE
  NULL = NULL
SPECIFICATION Spec
INVARIANTS TypeOK SanitizedOnSuccess SanitizeFailsOnlyOnOSError EnvFits
