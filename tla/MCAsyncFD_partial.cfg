\* The descriptor may accept part of what write/writev offers.
CONSTANTS
  MaxWrites = 2
  Lens = {1, 2}
  SizeMod = 4
  PartialWrites = TRUE
  FdMayFail = FALSE
  KeepChoices = {TRUE}
  OwnerToggles = FALSE
  CallbackDeletes = "none"
SPECIFICATION Spec
INVARIANT StreamIntact
