\* What list_pop returns, checked against spec 4.1 and the comment in list_pop.
CONSTANTS
  Data = {d1, d2}
  NULL = NULL
  MaxSize = 4
  InitCaps = {0, 1, 2}
  StaleHandles = FALSE
  UBReads = {FALSE}
  AllocMayFail = FALSE
  UintMod = 16
SPECIFICATION Spec
PROPERTY PopReturnsSuccessor
SYMMETRY DataSymmetry
