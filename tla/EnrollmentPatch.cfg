\* Two clerks patch the same enrollments with every body while two requests enroll and the
\* batch moves on or is deleted: rows only move forward, and every request is answered.
SPECIFICATION FairSpec
CONSTANTS
  r1 = r1
  r2 = r2
  r3 = r3
  s1 = s1
  s2 = s2
  s3 = s3
  b1 = b1
  b2 = b2
  c1 = c1
  k1 = k1
  Requests = {r1, r2}
  Updaters = {u1, u2}
  Admins = {a1}
  Students = {s1, s2, s3}
  Registered = {s1, s2}
  Batches = {b1}
  Courses = {c1}
  CourseOf <- OneCourse
  Keys = {k1}
  KeyOf <- OneKey
  Scheduled = {}
  Caps = {1, NoCap}
  Bodies <- AllBodies
  NoCap = NoCap
  NoOne = NoOne
  NoRow = NoRow
  NoMove = NoMove
  Idle = Idle
INVARIANTS GradeOnlyOnCompleted ContentionGetsAVerdict
PROPERTIES LedgerHistory Answered
CHECK_DEADLOCK FALSE
