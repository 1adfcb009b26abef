\* A refresh, a logout, a forgotten and a reset password wait for each other's rows.
SPECIFICATION FairSpec
CONSTANTS
  l1 = l1
  l2 = l2
  r1 = r1
  r2 = r2
  o1 = o1
  f1 = f1
  p1 = p1
  a1 = a1
  Roles = {"staff", "teacher"}
  Role0 = "staff"
  Unset = Unset
  Password0 = Password0
  UserRow = UserRow
  NoOne = NoOne
  NoUser = NoUser
  KindOf <- MCKindOf
  Requests = {r1, o1, f1, p1}
  Tokens0 = {t1}
  Links0 = {k1}
  Limit = 1
  PatchOf <- Patches
PROPERTIES Answered
CHECK_DEADLOCK FALSE
