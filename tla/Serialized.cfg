SPECIFICATION SerialSpec
CONSTANTS
  Step <- LongSteps
  Flow <- LongFlow
  StartAt = "branch"
  Conf = {c1}
  Run = {r1}
  Task = {t1, t2}
  Grant = {g1}
  Agent = {a1}
  Slot = {i1}
  Sweeper = {w1}
  TaskTicks = 1
  ConfTicks = 1
  GrantSeconds = 1
  TicksPerSecond = 1
  MaxPasses = 4
  MaxReports = 2
  MaxTime = 2
  Ops = {"claim", "operator", "confirm", "approve", "cancel", "sweep"}
  Faults = {"crash", "sweepcrash", "agent"}
  NoStep = NoStep
  NoConf = NoConf
  NoRun = NoRun
  NoTask = NoTask
  NoGrant = NoGrant
  NoAgent = NoAgent
  NoSlot = NoSlot
PROPERTIES LifecycleRefined
CHECK_DEADLOCK FALSE
