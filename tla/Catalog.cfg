SPECIFICATION Spec
CONSTANTS
  Workflow = {w1, w2}
  Run = {r1, r2, r3}
  Action = {a1}
  Slot = {i1, i2}
  Content = {c1, c2}
  MaxVersion = 3
  Limits = {1}
  MaxLimit = 1
  Scopes <- CatalogScopes
  NoDoc = NoDoc
  NoContent = NoContent
  NoWorkflow = NoWorkflow
  NoRun = NoRun
  NoAction = NoAction
INVARIANTS TypeOK   GateBound ActiveWasVetted AppliedWasStored
SYMMETRY Symmetry
CHECK_DEADLOCK FALSE
