------------------------------ MODULE Listing ------------------------------
(***************************************************************************)
(* The paginated lists of users, students, courses, batches and            *)
(* enrollments, and a client that reads one of them page by page until     *)
(* the page it was told is the last.                                       *)
(*                                                                         *)
(* The handlers answer a page from separate statements in READ COMMITTED:  *)
(* the rows with LIMIT and OFFSET, then their number, then, for students,  *)
(* the codes of their batches.  Rows come, change and go in between.  The  *)
(* newest row is first, by the time at which its transaction began, so a   *)
(* row may appear in the middle; times are taken to be distinct.  The      *)
(* values of the client's filters do not change, so of a row's fields only *)
(* those matter that match them.                                           *)
(***************************************************************************)
EXTENDS Integers, FiniteSets

CONSTANTS
  Rows0,       \* the rows there are at first
  NewRows,     \* rows that are inserted during the walk
  Kinds,       \* which lists are read
  PerPageAsked,\* per_page parameters; 0 is one that is missing or invalid
  DefaultPerPage, MaxPerPage,
  MaxWrites,   \* bound: PATCHes
  NoRow

\* The filters that a handler takes from the query, and those that the statement
\* for the rows and the statement for their number apply.
listUsersFilters       == {"role", "status"}
ListUsers              == {"role", "status"}
CountUsers             == {"role", "status"}
listStudentsFilters    == {"status", "search"}
ListStudents           == {"status", "search"}
\* Mutant: the number of students is taken without the search.
CountStudentsUnsearched == {"status"}
CountStudents          == {"status", "search"}
listCoursesFilters     == {"status", "level", "search"}
ListCourses            == {"status", "level", "search"}
CountCourses           == {"status", "level", "search"}
listBatchesFilters     == {"status", "course_id", "search"}
ListBatches            == {"status", "course_id", "search"}
CountBatches           == {"status", "course_id", "search"}
listEnrollmentsFilters == {"status", "payment_status", "batch_id", "student_id"}
ListEnrollments        == {"status", "payment_status", "batch_id", "student_id"}
CountEnrollments       == {"status", "payment_status", "batch_id", "student_id"}

AllKinds == {"user", "student", "course", "batch", "enrollment"}

Filters ==
  [user |-> listUsersFilters, student |-> listStudentsFilters, course |-> listCoursesFilters,
   batch |-> listBatchesFilters, enrollment |-> listEnrollmentsFilters]
Listed ==
  [user |-> ListUsers, student |-> ListStudents, course |-> ListCourses,
   batch |-> ListBatches, enrollment |-> ListEnrollments]
Counted ==
  [user |-> CountUsers, student |-> CountStudents, course |-> CountCourses,
   batch |-> CountBatches, enrollment |-> CountEnrollments]

\* The batch and the student of an enrollment and the course of a batch are
\* never written again.
Mutable(k) == Filters[k] \ {"course_id", "batch_id", "student_id"}

Fields == UNION {Filters[k] : k \in AllKinds}
Ids    == DOMAIN Rows0 \cup NewRows
Row    == [created : Int, fields : SUBSET Fields]

ASSUME ListingAssumption ==
  /\ Kinds \subseteq AllKinds
  /\ IsFiniteSet(Ids)
  /\ NewRows \cap DOMAIN Rows0 = {}
  /\ \A x \in DOMAIN Rows0 :
       /\ Rows0[x] \in Row /\ Rows0[x].created <= 0
       /\ \A y \in DOMAIN Rows0 \ {x} : Rows0[y].created # Rows0[x].created
  /\ PerPageAsked \subseteq Int
  /\ DefaultPerPage \in 1 .. MaxPerPage /\ MaxPerPage \in Nat /\ MaxWrites \in Nat
  /\ NoRow \notin Row

VARIABLES
  kind, asked, perPage,  \* the client's query
  row,         \* the table
  begun,       \* the times of inserting transactions, which is their order; 0 before
  stored,      \* the new rows whose transaction committed
  writes,      \* PATCHes so far
  page,        \* the page that the client asks for
  pc,          \* the statement that comes next
  rows, total, \* the page's rows and their number, as they were read
  seen,        \* how often the client was shown each row
  stayed,      \* history: rows that have matched since the walk began
  arrivals, departures  \* history: how often a row began or ceased to match

query   == <<kind, asked, perPage>>
table   == <<row, begun, stored, writes>>
answer  == <<page, pc, rows, total, seen>>
history == <<stayed, arrivals, departures>>
vars    == <<query, table, answer, history>>

\* The rows that satisfy the given conditions.
Matching(t, conditions) == {x \in Ids : t[x] # NoRow /\ asked \cap conditions \subseteq t[x].fields}
Matched(t) == Matching(t, Filters[kind])

\* Mutant: per_page is not clamped.
PerPageUnclamped(pp) == IF pp > 0 THEN pp ELSE DefaultPerPage

\* ParsePage, its second result.
PerPage(pp) == IF pp > MaxPerPage THEN MaxPerPage ELSE IF pp > 0 THEN pp ELSE DefaultPerPage

\* Mutant: a last page that is not full is not counted.
TotalPagesDown(n, size) == n \div size

TotalPages(n, size) == IF n = 0 THEN 0 ELSE (n + size - 1) \div size

\* "done": the client was shown the page that it was told is the last.
Steps == {"list", "count", "codes", "done"}

TypeOK ==
  /\ kind \in Kinds /\ asked \subseteq Filters[kind] /\ perPage \in 1 .. MaxPerPage
  /\ row \in [Ids -> Row \cup {NoRow}]
  /\ begun \in [NewRows -> Nat] /\ stored \subseteq NewRows
  /\ writes \in 0 .. MaxWrites
  /\ page \in Nat \ {0} /\ pc \in Steps
  /\ rows \subseteq Ids /\ total \in Nat
  /\ seen \in [Ids -> Nat]
  /\ stayed \subseteq Ids /\ arrivals \in Nat /\ departures \in Nat

Init ==
  /\ kind \in Kinds
  /\ asked \in SUBSET Filters[kind]
  /\ perPage \in {PerPage(pp) : pp \in PerPageAsked}
  /\ row = [x \in Ids |-> IF x \in NewRows THEN NoRow ELSE Rows0[x]]
  /\ begun = [x \in NewRows |-> 0] /\ stored = {}
  /\ writes = 0
  /\ page = 1 /\ pc = "list"
  /\ rows = {} /\ total = 0
  /\ seen = [x \in Ids |-> 0]
  /\ stayed = Matched(row)
  /\ arrivals = 0 /\ departures = 0

-----------------------------------------------------------------------------
(* Rows come, change and go while the client reads *)

\* Whoever writes moves the rows that follow what came or left.
Changed(t) ==
  LET gone == Matched(row) \ Matched(t)
      come == Matched(t) \ Matched(row)
  IN /\ pc # "done"
     /\ row' = t
     /\ stayed' = stayed \ gone
     /\ arrivals' = arrivals + Cardinality(come)
     /\ departures' = departures + Cardinality(gone)
     /\ UNCHANGED <<query, answer>>

\* The time of a row is that of its transaction and not of the commit.
BeginInsert(x) ==
  /\ pc # "done" /\ begun[x] = 0
  /\ begun' = [begun EXCEPT ![x] = 1 + Cardinality({y \in NewRows : begun[y] > 0})]
  /\ UNCHANGED <<query, row, stored, writes, answer, history>>

\* A row that does not match would show nothing.
Insert(x) ==
  /\ begun[x] > 0 /\ x \notin stored
  /\ stored' = stored \cup {x}
  /\ Changed([row EXCEPT ![x] = [created |-> begun[x], fields |-> Filters[kind]]])
  /\ UNCHANGED <<begun, writes>>

\* A PATCH, a transition or an archiving; of other fields it shows nothing.
Patch(x) ==
  /\ row[x] # NoRow /\ writes < MaxWrites
  /\ \E f \in Mutable(kind) \cap asked :
       Changed([row EXCEPT ![x].fields = IF f \in @ THEN @ \ {f} ELSE @ \cup {f}])
  /\ writes' = writes + 1
  /\ UNCHANGED <<begun, stored>>

\* Only batches are deleted.
DeleteBatch(x) ==
  /\ kind = "batch" /\ row[x] # NoRow
  /\ Changed([row EXCEPT ![x] = NoRow])
  /\ UNCHANGED <<begun, stored, writes>>

-----------------------------------------------------------------------------
(* One page *)

Offset == (page - 1) * perPage

\* ORDER BY created_at DESC LIMIT perPage OFFSET Offset.
PageRows ==
  LET listed  == Matching(row, Listed[kind])
      before(x) == {y \in listed : row[y].created > row[x].created}
  IN {x \in listed : Cardinality(before(x)) \in Offset .. Offset + perPage - 1}

ReadPage ==
  /\ pc = "list" /\ pc' = "count"
  /\ rows' = PageRows /\ total' = 0
  /\ UNCHANGED <<query, table, page, seen, history>>

\* The client is shown the page, and asks for the next unless it was the last.
Answer(n) ==
  /\ seen' = [x \in Ids |-> IF x \in rows THEN seen[x] + 1 ELSE seen[x]]
  /\ rows' = {}
  /\ IF page < TotalPages(n, perPage)
     THEN pc' = "list" /\ page' = page + 1
     ELSE pc' = "done" /\ UNCHANGED page

CountRows ==
  /\ pc = "count"
  /\ total' = Cardinality(Matching(row, Counted[kind]))
  /\ IF kind = "student" /\ rows # {}
     THEN pc' = "codes" /\ UNCHANGED <<page, rows, seen>>
     ELSE Answer(total')
  /\ UNCHANGED <<query, table, history>>

\* GetBatchCodes, for the students on the page.
ReadCodes ==
  /\ pc = "codes"
  /\ Answer(total)
  /\ UNCHANGED <<query, table, total, history>>

\* A statement fails; the client asks for the same page again.
Fail ==
  /\ pc \in {"count", "codes"}
  /\ pc' = "list" /\ rows' = {}
  /\ UNCHANGED <<query, table, page, total, seen, history>>

Next ==
  \/ ReadPage \/ CountRows \/ ReadCodes \/ Fail
  \/ \E x \in NewRows : BeginInsert(x) \/ Insert(x)
  \/ \E x \in Ids : Patch(x) \/ DeleteBatch(x)

Spec == Init /\ [][Next]_vars

-----------------------------------------------------------------------------
(* Properties *)

\* The second, third ... time that the client is shown a row.
Repeats == UNION {{x} \X (2 .. seen[x]) : x \in Ids}

\* A client that reads to the last page misses at most one of the rows that were
\* there all the while for each row that went, and is shown at most one row too
\* often for each that came: pages shift, and nothing else is lost or repeated.
WalkBounded ==
  pc = "done" =>
    /\ Cardinality({x \in stayed : seen[x] = 0}) <= departures
    /\ Cardinality(Repeats) <= arrivals

\* The number that every page states is that of the rows on all of them, when no
\* row came or went: both statements apply the filters that the client sent.
TotalAgrees ==
  pc = "done" /\ arrivals + departures = 0 => total = Cardinality({x \in Ids : seen[x] = 1})
=============================================================================
