SPECIFICATION Spec
CONSTANTS
  Step <- ReviewSteps
  Flow <- ReviewFlow
  StartAt = "review"
  Conf = {c1}
  Run = {r1}
  Task = {t1, t2}
  Grant = {g1, g2}
  Agent = {a1}
  Slot = {i1, i2}
  Sweeper = {}
  TaskTicks = 1
  ConfTicks = 1
  GrantSeconds = 1
  TicksPerSecond = 1
  MaxPasses = 2
  MaxReports = 2
  MaxTime = 0
  Ops = {"claim", "operator", "confirm", "approve"}
  Faults = {"crash"}
  NoStep = NoStep
  NoConf = NoConf
  NoRun = NoRun
  NoTask = NoTask
  NoGrant = NoGrant
  NoAgent = NoAgent
  NoSlot = NoSlot
SYMMETRY Symmetry
INVARIANTS GateHonoured ReviewedWork
CHECK_DEADLOCK FALSE
