\* Well-behaved callers: handles of used items or END; CALLOC may fail;
\* the bytes before the array read as zero.
CONSTANTS
  Data = {d1, d2}
  NULL = NULL
  MaxSize = 4
  InitCaps = {0, 1, 2}
  StaleHandles = FALSE
  UBReads = {FALSE}
  AllocMayFail = TRUE
  UintMod = 16
SPECIFICATION Spec
INVARIANTS TypeOK WellFormed GrowCapacityLeast
PROPERTIES Refinement
SYMMETRY DataSymmetry
