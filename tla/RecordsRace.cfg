\* Any three requests of the catalogue race.
SPECIFICATION Spec
CONSTANTS
  r1 = r1
  r2 = r2
  r3 = r3
  u1 = u1
  s1 = s1
  c1 = c1
  b1 = b1
  k1 = k1
  k2 = k2
  n1 = n1
  n2 = n2
  Requests = {r1, r2, r3}
  Calls <- AllCalls
  Rows0 <- OneOfEach
  Home = c1
  Keys = {k1, k2}
  Notes = {n1, n2}
  Roles = {"teacher", "staff"}
  Null = Null
  Unset = Unset
  Nobody = Nobody
  NoRow = NoRow
  NoCall = NoCall
SYMMETRY Symmetry
INVARIANTS TypeOK KeyUnique InvitedWhenOk
PROPERTIES ArchivedStays BatchOnward PatchIsPartial
CHECK_DEADLOCK FALSE
