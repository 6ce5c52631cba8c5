SPECIFICATION PromptSpec
CONSTANTS
  Step <- ActSteps
  Flow <- ActFlow
  StartAt = "act"
  Conf = {c1}
  Run = {r1}
  Task = {t1}
  Grant = {g1, g2}
  Agent = {a1, a2}
  Slot = {i1, i2}
  Sweeper = {w1}
  TaskTicks = 5
  ConfTicks = 1
  GrantSeconds = 1
  TicksPerSecond = 2
  MaxPasses = 3
  MaxReports = 2
  MaxTime = 5
  Ops = {"claim", "record", "sweep"}
  Faults = {"crash", "lost"}
  NoStep = NoStep
  NoConf = NoConf
  NoRun = NoRun
  NoTask = NoTask
  NoGrant = NoGrant
  NoAgent = NoAgent
  NoSlot = NoSlot
SYMMETRY Symmetry
INVARIANTS GrantSpentOnce CompletedTaskAbsorbed
 
CHECK_DEADLOCK FALSE
