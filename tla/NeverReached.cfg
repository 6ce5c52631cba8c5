SPECIFICATION Spec_V
CONSTANTS
  Browser = {b1}
  Agent = {g1, g2}
  Code = {k1, k2}
  Token = {t1, t2}
  Connection = {n1}
  Login = {l1, l2}
  Profile = {p1, p2}
  Secret = {s1}
  Value = {v1, v2}
  Worker = {w1, w2}
  Custodies <- NoCustodies
  NoBrowser = NoBrowser
  None = None
  MaxSlug = 3
  Creation = {o1, o2, o3}
  Clerk = {c1, c2, c3}
  Mandates <- NoMandates
  Nobody = Nobody
  MaxSteps = 4
  Kinds = {"action", "condition", "end"}
  Desks <- NewWorkflow
INVARIANT NothingToFix
CHECK_DEADLOCK FALSE
