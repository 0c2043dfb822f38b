\* The owner keeps the write watcher on and never disables or deletes from
\* outside a callback; its callbacks may delete the engine anywhere.
CONSTANTS
  MaxWrites = 3
  Lens = {1, 2}
  SizeMod = 4
  PartialWrites = FALSE
  FdMayFail = TRUE
  KeepChoices = {TRUE}
  OwnerToggles = FALSE
  CallbackDeletes = "any"
SPECIFICATION Spec
PROPERTIES EventuallyWritten
