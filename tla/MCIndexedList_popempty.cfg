\* list_pop(list, END) on an empty list with storage reads items[-1].used: either value.
CONSTANTS
  Data = {d1, d2}
  NULL = NULL
  MaxSize = 4
  InitCaps = {0, 1, 2}
  StaleHandles = FALSE
  UBReads = {FALSE, TRUE}
  AllocMayFail = FALSE
  UintMod = 16
SPECIFICATION Spec
INVARIANT WellFormed
SYMMETRY DataSymmetry
