\* Two refreshes of one token, the reset of that user's password and another
\* request share four connections while a worker takes two jobs and the process
\* is told to stop.
SPECIFICATION FairServerSpec
CONSTANTS
  u1 = u1
  t1 = t1
  NoOne = NoOne
  Refreshers = {r1, r2}
  Others = {p1, o1}
  Writers = {p1}
  Deleters = {p1}
  Conns = {c1, c2, c3, c4}
  Tokens = {t1}
  TokenOf <- TheToken
  Users = {u1}
  UserOf <- TheUser
  Workers = {w1}
  Jobs = {j1}
  BufferSize = 1
INVARIANTS ServerTypeOK NoHoldAndWait RedeemedOnce DrainComplete ExitClean
PROPERTIES AnsweredUnlessStopped Stops
CHECK_DEADLOCK FALSE
