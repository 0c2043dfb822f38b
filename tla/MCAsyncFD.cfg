\* Atomic writes, hard errors, every owner call, both answers to write_fn(NULL),
\* and deletion from callbacks where the handler returns without reading the engine.
CONSTANTS
  MaxWrites = 4
  Lens = {1, 2, 3}
  SizeMod = 4
  PartialWrites = FALSE
  FdMayFail = TRUE
  KeepChoices = {TRUE, FALSE}
  OwnerToggles = TRUE
  CallbackDeletes = "safe"
SPECIFICATION Spec
INVARIANTS TypeOK StreamIntact CompletionInOrder
