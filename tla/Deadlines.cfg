SPECIFICATION Spec
CONSTANTS
  Step <- ActSteps
  Flow <- GatedFlow
  StartAt = "act"
  Conf = {c1}
  Run = {r1}
  Task = {t1}
  Grant = {}
  Agent = {}
  Slot = {i1, i2}
  Sweeper = {w1}
  TaskTicks = 1
  ConfTicks = 1
  GrantSeconds = 1
  TicksPerSecond = 1
  MaxPasses = 2
  MaxReports = 2
  MaxTime = 3
  Ops = {"operator", "confirm", "cancel", "sweep"}
  Faults = {"crash", "sweepcrash"}
  NoStep = NoStep
  NoConf = NoConf
  NoRun = NoRun
  NoTask = NoTask
  NoGrant = NoGrant
  NoAgent = NoAgent
  NoSlot = NoSlot
SYMMETRY Symmetry
INVARIANTS TimedOutAfterDeadline WaitingRunHasWork
CHECK_DEADLOCK FALSE
