\* The owner's write_fn(buffer), write_fn(NULL) or read_fn may delete the engine,
\* whatever it then returns.
CONSTANTS
  MaxWrites = 2
  Lens = {1}
  SizeMod = 4
  PartialWrites = FALSE
  FdMayFail = FALSE
  KeepChoices = {TRUE}
  OwnerToggles = FALSE
  CallbackDeletes = "any"
SPECIFICATION Spec
INVARIANT NoUseAfterFree
