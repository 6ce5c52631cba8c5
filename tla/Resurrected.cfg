SPECIFICATION Spec
CONSTANTS
  Step <- ActSteps
  Flow <- ActFlow
  StartAt = "act"
  Conf = {c1}
  Run = {r1}
  Task = {t1}
  Grant = {g1, g2}
  Agent = {a1}
  Slot = {i1, i2}
  Sweeper = {}
  TaskTicks = 3
  ConfTicks = 1
  GrantSeconds = 1
  TicksPerSecond = 1
  MaxPasses = 3
  MaxReports = 2
  MaxTime = 4
  Ops = {"claim", "cancel"}
  Faults = {}
  NoStep = NoStep
  NoConf = NoConf
  NoRun = NoRun
  NoTask = NoTask
  NoGrant = NoGrant
  NoAgent = NoAgent
  NoSlot = NoSlot
PROPERTIES TerminalStaysTerminal
CHECK_DEADLOCK FALSE
