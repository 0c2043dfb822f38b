\* Callers may pass list_push the handle of a free slot (a handle kept after its item was popped).
CONSTANTS
  Data = {d1, d2}
  NULL = NULL
  MaxSize = 4
  InitCaps = {0, 1, 2}
  StaleHandles = TRUE
  UBReads = {FALSE}
  AllocMayFail = FALSE
  UintMod = 16
SPECIFICATION Spec
INVARIANT WellFormed
SYMMETRY DataSymmetry
