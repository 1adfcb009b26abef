\* A client reads each list with each filter and page size, while rows come and go.
SPECIFICATION Spec
CONSTANTS
  x1 = x1
  x2 = x2
  x3 = x3
  Rows0 <- Three
  NewRows = {n1, n2}
  Kinds = {"user", "student", "course", "batch", "enrollment"}
  PerPageAsked = {0, 1, 5}
  DefaultPerPage = 2
  MaxPerPage = 3
  MaxWrites = 2
  NoRow = NoRow
INVARIANTS TypeOK WalkBounded TotalAgrees
CHECK_DEADLOCK FALSE
