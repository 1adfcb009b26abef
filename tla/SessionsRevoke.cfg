\* Two logins, two refreshes, a reset and a deactivation of one user.
SPECIFICATION Spec
CONSTANTS
  l1 = l1
  l2 = l2
  r1 = r1
  r2 = r2
  o1 = o1
  f1 = f1
  p1 = p1
  a1 = a1
  Roles = {"staff", "teacher"}
  Role0 = "staff"
  Unset = Unset
  Password0 = Password0
  UserRow = UserRow
  NoOne = NoOne
  NoUser = NoUser
  KindOf <- MCKindOf
  Requests = {l1, l2, r1, r2, p1, a1}
  Tokens0 = {t1}
  Links0 = {k1}
  Limit = 1
  PatchOf <- Patches
INVARIANTS TypeOK OneTokenPerSession RevocationComplete 
PROPERTIES PasswordOnlyByReset
SYMMETRY Alike
CHECK_DEADLOCK FALSE
