\* The owner's write_fn(NULL) may answer FALSE ("no more to write").
CONSTANTS
  MaxWrites = 2
  Lens = {1, 2}
  SizeMod = 4
  PartialWrites = FALSE
  FdMayFail = FALSE
  KeepChoices = {TRUE, FALSE}
  OwnerToggles = FALSE
  CallbackDeletes = "none"
SPECIFICATION Spec
PROPERTY NoStopWhileQueued
