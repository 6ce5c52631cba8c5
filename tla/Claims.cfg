SPECIFICATION Spec
CONSTANTS
  Step <- ActSteps
  Flow <- ActFlow
  StartAt = "act"
  Conf = {c1}
  Run = {r1}
  Task = {t1}
  Grant = {g1, g2}
  Agent = {a1, a2}
  Slot = {i1, i2}
  Sweeper = {w1}
  TaskTicks = 3
  ConfTicks = 1
  GrantSeconds = 1
  TicksPerSecond = 1
  MaxPasses = 3
  MaxReports = 2
  MaxTime = 4
  Ops = {"claim", "sweep"}
  Faults = {"crash", "agent"}
  NoStep = NoStep
  NoConf = NoConf
  NoRun = NoRun
  NoTask = NoTask
  NoGrant = NoGrant
  NoAgent = NoAgent
  NoSlot = NoSlot
SYMMETRY Symmetry
INVARIANTS TypeOK LeaseWindowsDisjoint OneGrantPerWindow
CHECK_DEADLOCK FALSE
