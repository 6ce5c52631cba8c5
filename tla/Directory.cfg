SPECIFICATION Spec
CONSTANTS
  u1 = u1
  u2 = u2
  u3 = u3
  User = {u1, u2, u3}
  Invite = {n1, n2}
  Team = {t1}
  Slot = {i1, i2}
  Limit = 2
  Scopes <- DirectoryScopes
  NoUser = NoUser
  NoInvite = NoInvite
  NoTeam = NoTeam
  NoMember = NoMember
INVARIANTS DirectoryTypeOK AcceptedOnce OneLiveLink NeverLockedOut OwnersKept TeamsAgree  MatrixTellsDecision
SYMMETRY Symmetry
CHECK_DEADLOCK FALSE
