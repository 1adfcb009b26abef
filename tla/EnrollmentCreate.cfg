\* Three enrollments into two batches of one course and one lock key race for one or two
\* places, while places are freed, the capacity changes and batches are deleted.
SPECIFICATION Spec
CONSTANTS
  r1 = r1
  r2 = r2
  r3 = r3
  s1 = s1
  s2 = s2
  s3 = s3
  b1 = b1
  b2 = b2
  c1 = c1
  k1 = k1
  Requests = {r1, r2, r3}
  Updaters = {u1}
  Admins = {}
  Students = {s1, s2}
  Registered = {s1, s2}
  Batches = {b1, b2}
  Courses = {c1}
  CourseOf <- OneCourse
  Keys = {k1}
  KeyOf <- OneKey
  Scheduled = {b2}
  Caps = {1, 2}
  Limit = 2
  Bodies <- StatusBodies
  NoCap = NoCap
  NoOne = NoOne
  NoRow = NoRow
  NoMove = NoMove
  Idle = Idle
SYMMETRY CreateSymmetry
INVARIANTS TypeOK AnswerMatchesLedger DuplicateIsAnothers NoOrphan
PROPERTIES CapacityHonoured HolderStaysFresh ImplementsLedger
CHECK_DEADLOCK FALSE
