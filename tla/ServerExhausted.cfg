\* Two refreshes of one token and a logout, as many as connections, and the
\* process is told to stop.
SPECIFICATION FairServerSpec
CONSTANTS
  u1 = u1
  t1 = t1
  NoOne = NoOne
  Refreshers = {r1, r2}
  Others = {l1}
  Writers = {}
  Deleters = {l1}
  Conns = {c1, c2, c3}
  Tokens = {t1}
  TokenOf <- TheToken
  Users = {u1}
  UserOf <- TheUser
  Workers = {w1}
  Jobs = {}
  BufferSize = 1
PROPERTIES Stops
CHECK_DEADLOCK FALSE
