--------------------------- MODULE ListingProofs ---------------------------
(***************************************************************************)
(* A client that reads a list page by page, for any rows, page sizes and   *)
(* number of writes: it misses at most as many rows as ceased to match,    *)
(* and is shown a row too often at most as many times as one began to.     *)
(*                                                                         *)
(* A row that comes or goes moves the rows after it by one place, hence at *)
(* most one over the edge between what the client has read and what it has *)
(* not.  So the rows on the wrong side of that edge, those not seen before *)
(* it and those seen after it, are as few as those that went and came; and *)
(* while the client has a page that it was not shown yet, the same holds   *)
(* of the edge behind that page.                                           *)
(***************************************************************************)
EXTENDS Listing, FiniteSetTheorems, TLAPS

\* How many of the rows L precede x.
Rank(L, t, x) == Cardinality({y \in L : t[y].created > t[x].created})

Below(L, t, U, n)  == {x \in U : x \in L /\ Rank(L, t, x) < n}
Beyond(L, t, U, n) == {x \in U : x \in L /\ Rank(L, t, x) >= n}

Unseen == {x \in stayed : seen[x] = 0}
Seen   == {x \in Ids : seen[x] >= 1}
Again  == {x \in rows : seen[x] >= 1}

\* Where the next page begins.
Edge == Offset + perPage

\* Rows have distinct times: what they had, or that of the transaction.
CreatedIn(t, times, there) ==
  /\ \A x \in Ids : t[x] # NoRow =>
       t[x].created = IF x \in NewRows THEN times[x] ELSE Rows0[x].created
  /\ \A x \in NewRows : t[x] # NoRow => x \in there
  /\ \A x \in there : times[x] > 0
  /\ \A x \in NewRows :
       /\ times[x] <= Cardinality({y \in NewRows : times[y] > 0})
       /\ \A y \in NewRows : times[x] > 0 /\ times[y] = times[x] => x = y

StayedMatch == stayed \subseteq Matched(row)

ListingInv == TypeOK /\ CreatedIn(row, begun, stored) /\ StayedMatch

\* The edge before the page: what was missed there, and what was shown and is
\* now behind it.
EdgeBefore ==
  pc # "done" =>
    /\ Cardinality(Below(Matched(row), row, Unseen, Offset)) <= departures
    /\ Cardinality(Repeats) + Cardinality(Beyond(Matched(row), row, Seen, Offset)) <= arrivals

\* The edge behind it, once the rows of the page were read.
EdgeBehind ==
  pc \in {"count", "codes"} =>
    /\ Cardinality(Below(Matched(row), row, Unseen \ rows, Edge)) <= departures
    /\ Cardinality(Repeats) + Cardinality(Again)
         + Cardinality(Beyond(Matched(row), row, Seen \cup rows, Edge)) <= arrivals

\* A page that is the last by the number read is the last of what was to be seen.
LastTold ==
  pc = "codes" /\ page >= TotalPages(total, perPage) => Cardinality(Unseen \ rows) <= departures

WalkInv == IsFiniteSet(Repeats) /\ EdgeBefore /\ EdgeBehind /\ LastTold /\ WalkBounded

\* While nothing came or went the client has seen exactly what precedes the page.
AsRead ==
  /\ pc # "done" =>
       \A x \in Ids : seen[x] = IF x \in Below(Matched(row), row, Ids, Offset) THEN 1 ELSE 0
  /\ pc \in {"count", "codes"} =>
       rows = Below(Matched(row), row, Ids, Edge) \cap Beyond(Matched(row), row, Ids, Offset)
  /\ pc = "codes" => total = Cardinality(Matched(row))
  /\ pc = "done" => total = Cardinality({x \in Ids : seen[x] = 1})

QuietInv == arrivals + departures = 0 => AsRead

-----------------------------------------------------------------------------
(* The statements of a list apply the same filters, and page sizes fit *)

LEMMA SameFilters ==
  \A k \in AllKinds :
    Listed[k] = Filters[k] /\ Counted[k] = Filters[k] /\ Filters[k] \subseteq Fields
<1>1. \A k \in AllKinds : Listed[k] = Filters[k] /\ Counted[k] = Filters[k]
  BY DEF AllKinds, Filters, Listed, Counted, listUsersFilters, ListUsers, CountUsers,
         listStudentsFilters, ListStudents, CountStudents, listCoursesFilters, ListCourses,
         CountCourses, listBatchesFilters, ListBatches, CountBatches,
         listEnrollmentsFilters, ListEnrollments, CountEnrollments
<1>. QED BY <1>1 DEF Fields

LEMMA PageSize ==
  ASSUME NEW pp \in PerPageAsked
  PROVE  PerPage(pp) \in 1 .. MaxPerPage
BY ListingAssumption DEF PerPage

\* The last page ends behind the last row.
LEMMA LastPage ==
  ASSUME NEW n \in Nat, NEW size \in Nat \ {0}, NEW p \in Nat \ {0}, p >= TotalPages(n, size)
  PROVE  n <= (p - 1) * size + size
<1>1. CASE n = 0
  BY <1>1
<1>2. CASE n # 0
  <2>. DEFINE q == (n + size - 1) \div size
  <2>1. q \in Int /\ n + size - 1 < q * size + size
    BY Z3
  <2>2. q <= p
    BY <1>2 DEF TotalPages
  <2>. HIDE DEF q
  <2>3. q * size <= p * size
    BY <2>1, <2>2
  <2>4. p * size = (p - 1) * size + size
    OBVIOUS
  <2>. QED BY <2>1, <2>3, <2>4
<1>. QED BY <1>1, <1>2

-----------------------------------------------------------------------------
(* Types *)

LEMMA RowsFinite ==
  \A S : S \subseteq Ids => IsFiniteSet(S) /\ Cardinality(S) \in Nat
BY ListingAssumption, FS_Subset, FS_CardinalityType

LEMMA NewIds == NewRows \subseteq Ids /\ IsFiniteSet(NewRows)
BY RowsFinite DEF Ids

\* What a writer of one row leaves behind.
LEMMA ChangedType ==
  ASSUME TypeOK, NEW t \in [Ids -> Row \cup {NoRow}], Changed(t)
  PROVE  /\ row' \in [Ids -> Row \cup {NoRow}]
         /\ stayed' \subseteq Ids /\ arrivals' \in Nat /\ departures' \in Nat
         /\ kind' \in Kinds /\ asked' \subseteq Filters[kind'] /\ perPage' \in 1 .. MaxPerPage
         /\ page' \in Nat \ {0} /\ pc' \in Steps
         /\ rows' \subseteq Ids /\ total' \in Nat /\ seen' \in [Ids -> Nat]
<1>1. Matched(t) \ Matched(row) \subseteq Ids /\ Matched(row) \ Matched(t) \subseteq Ids
  BY DEF Matched, Matching
<1>2. /\ Cardinality(Matched(t) \ Matched(row)) \in Nat
      /\ Cardinality(Matched(row) \ Matched(t)) \in Nat
  BY <1>1, RowsFinite
<1>. QED BY <1>2 DEF TypeOK, Changed, query, answer

LEMMA NewTable ==
  ASSUME TypeOK
  PROVE  /\ \A x \in NewRows :
              [row EXCEPT ![x] = [created |-> begun[x], fields |-> Filters[kind]]]
                \in [Ids -> Row \cup {NoRow}]
         /\ \A x \in Ids : row[x] # NoRow => \A f \in Mutable(kind) :
              [row EXCEPT ![x].fields = IF f \in @ THEN @ \ {f} ELSE @ \cup {f}]
                \in [Ids -> Row \cup {NoRow}]
         /\ \A x \in Ids : [row EXCEPT ![x] = NoRow] \in [Ids -> Row \cup {NoRow}]
<1>1. kind \in AllKinds /\ Filters[kind] \subseteq Fields
  BY ListingAssumption, SameFilters DEF TypeOK
<1>2. \A x \in NewRows : begun[x] \in Int
  BY DEF TypeOK
<1>3. \A x \in NewRows : [created |-> begun[x], fields |-> Filters[kind]] \in Row
  BY <1>1, <1>2 DEF Row
<1>4. \A f \in Mutable(kind) : f \in Fields
  BY <1>1 DEF Mutable
<1>5. ASSUME NEW x \in Ids, row[x] # NoRow, NEW f \in Mutable(kind)
      PROVE  [row EXCEPT ![x].fields = IF f \in @ THEN @ \ {f} ELSE @ \cup {f}]
               \in [Ids -> Row \cup {NoRow}]
  <2>1. row[x] \in Row /\ row \in [Ids -> Row \cup {NoRow}]
    BY <1>5 DEF TypeOK
  <2>2. [row[x] EXCEPT !.fields = IF f \in @ THEN @ \ {f} ELSE @ \cup {f}] \in Row
    BY <1>4, <2>1 DEF Row
  <2>. QED BY <2>1, <2>2
<1>. QED BY <1>3, <1>5, NewIds DEF TypeOK

\* Every page is shown with counts that are natural numbers.
LEMMA AnswerType ==
  ASSUME TypeOK, NEW n \in Nat, Answer(n)
  PROVE  seen' \in [Ids -> Nat] /\ rows' \subseteq Ids /\ pc' \in Steps /\ page' \in Nat \ {0}
BY DEF TypeOK, Answer, Steps

LEMMA TypeStep ==
  ASSUME TypeOK, [Next]_vars
  PROVE  TypeOK'
<1>0. /\ \A x \in Ids : (x \in NewRows => begun[x] \in Nat)
      /\ Cardinality({y \in NewRows : begun[y] > 0}) \in Nat
  <2>1. {y \in NewRows : begun[y] > 0} \subseteq Ids
    BY NewIds
  <2>. QED BY <2>1, RowsFinite DEF TypeOK
<1>1. CASE ReadPage
  <2>1. PageRows \subseteq Ids
    BY DEF PageRows, Matching
  <2>. QED BY <1>1, <2>1 DEF ReadPage, TypeOK, Steps, query, table, history
<1>2. CASE CountRows
  <2>1. total' \in Nat
    <3>1. Matching(row, Counted[kind]) \subseteq Ids
      BY DEF Matching
    <3>. QED BY <1>2, <3>1, RowsFinite DEF CountRows
  <2>2. seen' \in [Ids -> Nat] /\ rows' \subseteq Ids /\ pc' \in Steps /\ page' \in Nat \ {0}
    <3>1. CASE Answer(total')
      BY <2>1, <3>1, AnswerType
    <3>2. CASE pc' = "codes" /\ UNCHANGED <<page, rows, seen>>
      BY <3>2 DEF TypeOK, Steps
    <3>. QED BY <1>2, <3>1, <3>2 DEF CountRows
  <2>. QED BY <1>2, <2>1, <2>2 DEF CountRows, TypeOK, query, table, history
<1>3. CASE ReadCodes
  <2>1. seen' \in [Ids -> Nat] /\ rows' \subseteq Ids /\ pc' \in Steps /\ page' \in Nat \ {0}
    BY <1>3, AnswerType DEF ReadCodes, TypeOK
  <2>. QED BY <1>3, <2>1 DEF ReadCodes, TypeOK, query, table, history
<1>4. CASE Fail
  BY <1>4 DEF Fail, TypeOK, Steps, query, table, history
<1>5. ASSUME NEW x \in NewRows, BeginInsert(x) PROVE TypeOK'
  BY <1>0, <1>5 DEF BeginInsert, TypeOK, query, answer, history
<1>6. ASSUME NEW x \in NewRows, Insert(x) PROVE TypeOK'
  BY <1>6, NewTable, ChangedType DEF Insert, TypeOK
<1>7. ASSUME NEW x \in Ids, Patch(x) PROVE TypeOK'
  <2>1. PICK f \in Mutable(kind) \cap asked :
          Changed([row EXCEPT ![x].fields = IF f \in @ THEN @ \ {f} ELSE @ \cup {f}])
    BY <1>7 DEF Patch
  <2>2. writes' \in 0 .. MaxWrites
    BY <1>7, ListingAssumption DEF Patch, TypeOK
  <2>3. [row EXCEPT ![x].fields = IF f \in @ THEN @ \ {f} ELSE @ \cup {f}]
          \in [Ids -> Row \cup {NoRow}]
    BY <1>7, NewTable DEF Patch
  <2>. QED BY <1>7, <2>1, <2>2, <2>3, ChangedType DEF Patch, TypeOK
<1>8. ASSUME NEW x \in Ids, DeleteBatch(x) PROVE TypeOK'
  BY <1>8, NewTable, ChangedType DEF DeleteBatch, TypeOK
<1>9. CASE UNCHANGED vars
  BY <1>9 DEF vars, query, table, answer, history, TypeOK
<1>. QED BY <1>1, <1>2, <1>3, <1>4, <1>5, <1>6, <1>7, <1>8, <1>9 DEF Next

LEMMA TypeInit == Init => TypeOK
<1>. SUFFICES ASSUME Init PROVE TypeOK
  OBVIOUS
<1>1. row \in [Ids -> Row \cup {NoRow}]
  BY ListingAssumption DEF Init, Ids
<1>2. perPage \in 1 .. MaxPerPage
  BY PageSize DEF Init
<1>3. Matched(row) \subseteq Ids
  BY DEF Matched, Matching
<1>. QED BY <1>1, <1>2, <1>3, ListingAssumption DEF Init, TypeOK, Steps

\* For any rows, kinds of lists and page sizes: the variables stay in their sets.
THEOREM TypeCorrect == Spec => []TypeOK
BY TypeInit, TypeStep, PTL DEF Spec

-----------------------------------------------------------------------------
(* Places in a list *)

Ordered(L, t) ==
  \A x \in L : t[x].created \in Int /\ \A y \in L : t[x].created = t[y].created => x = y

LEMMA RankType ==
  ASSUME NEW L \in SUBSET Ids, NEW t, NEW x
  PROVE  Rank(L, t, x) \in Nat
<1>. DEFINE ahead == {y \in L : t[y].created > t[x].created}
<1>1. ahead \subseteq Ids
  OBVIOUS
<1>. HIDE DEF ahead
<1>2. Cardinality(ahead) \in Nat
  BY <1>1, RowsFinite
<1>. QED BY <1>2 DEF Rank, ahead

\* Every place is before the end, and a row is behind those that precede it.
LEMMA RankOrder ==
  ASSUME NEW L \in SUBSET Ids, NEW t, Ordered(L, t), NEW x \in L
  PROVE  /\ Rank(L, t, x) < Cardinality(L)
         /\ \A y \in L : t[y].created > t[x].created => Rank(L, t, y) < Rank(L, t, x)
<1>. DEFINE ahead(y) == {w \in L : t[w].created > t[y].created}
<1>1. ASSUME NEW S \in SUBSET L, NEW T \in SUBSET S, S # T PROVE Cardinality(T) < Cardinality(S)
  <2>1. S \subseteq Ids /\ T \subseteq Ids /\ IsFiniteSet(S)
    BY RowsFinite
  <2>2. Cardinality(T) <= Cardinality(S) /\ Cardinality(T) # Cardinality(S)
    BY <1>1, <2>1, FS_Subset
  <2>. QED BY <2>1, <2>2, RowsFinite
<1>2. ahead(x) \subseteq L /\ x \notin ahead(x)
  BY DEF Ordered
<1>3. Cardinality(ahead(x)) < Cardinality(L)
  <2>. HIDE DEF ahead
  <2>. QED BY <1>1, <1>2
<1>4. ASSUME NEW y \in L, t[y].created > t[x].created
      PROVE  Cardinality(ahead(y)) < Cardinality(ahead(x))
  <2>1. ahead(y) \subseteq ahead(x) /\ y \in ahead(x) /\ y \notin ahead(y)
    BY <1>4 DEF Ordered
  <2>. HIDE DEF ahead
  <2>. QED BY <1>1, <1>2, <2>1
<1>. QED BY <1>3, <1>4 DEF Rank

LEMMA RanksDiffer ==
  ASSUME NEW L \in SUBSET Ids, NEW t, Ordered(L, t), NEW x \in L, NEW y \in L,
         Rank(L, t, x) = Rank(L, t, y)
  PROVE  x = y
<1>1. ~ (t[x].created > t[y].created) /\ ~ (t[y].created > t[x].created)
  BY RankOrder, RankType
<1>. QED BY <1>1 DEF Ordered

\* A row z is a place of its own for those behind it.
LEMMA RankAdd ==
  ASSUME NEW L \in SUBSET Ids, NEW z \in Ids \ L, NEW t, Ordered(L \cup {z}, t), NEW x \in L
  PROVE  Rank(L \cup {z}, t, x) = Rank(L, t, x) + (IF t[z].created > t[x].created THEN 1 ELSE 0)
<1>. DEFINE ahead == {y \in L : t[y].created > t[x].created}
            now   == {y \in L \cup {z} : t[y].created > t[x].created}
<1>1. ahead \subseteq Ids /\ z \notin ahead
  OBVIOUS
<1>2. now = IF t[z].created > t[x].created THEN ahead \cup {z} ELSE ahead
  OBVIOUS
<1>. HIDE DEF ahead, now
<1>3. IsFiniteSet(ahead) /\ Cardinality(ahead) \in Nat
  BY <1>1, RowsFinite
<1>4. Cardinality(ahead \cup {z}) = Cardinality(ahead) + 1
  BY <1>1, <1>3, FS_AddElement
<1>5. Rank(L, t, x) = Cardinality(ahead) /\ Rank(L \cup {z}, t, x) = Cardinality(now)
  BY DEF Rank, ahead, now
<1>. QED BY <1>2, <1>3, <1>4, <1>5

LEMMA RankFrame ==
  ASSUME NEW L, NEW t, NEW u, \A y \in L : t[y].created = u[y].created, NEW x \in L
  PROVE  Rank(L, t, x) = Rank(L, u, x)
<1>1. {y \in L : t[y].created > t[x].created} = {y \in L : u[y].created > u[x].created}
  OBVIOUS
<1>. QED BY <1>1 DEF Rank

LEMMA BelowFrame ==
  ASSUME NEW L, NEW t, NEW u, \A y \in L : t[y].created = u[y].created, NEW U, NEW n
  PROVE  Below(L, t, U, n) = Below(L, u, U, n) /\ Beyond(L, t, U, n) = Beyond(L, u, U, n)
BY RankFrame DEF Below, Beyond

\* Sets that grow by at most one row.
LEMMA OneMore ==
  ASSUME NEW S \in SUBSET Ids, NEW T \in SUBSET Ids,
         \A x, y \in T \ S : x = y
  PROVE  Cardinality(T) <= Cardinality(S) + 1
<1>1. CASE T \subseteq S
  BY <1>1, RowsFinite, FS_Subset
<1>2. ASSUME NEW x \in T \ S PROVE Cardinality(T) <= Cardinality(S) + 1
  <2>1. T \subseteq S \cup {x}
    OBVIOUS
  <2>2. IsFiniteSet(S) /\ Cardinality(S) \in Nat
    BY RowsFinite
  <2>3. IsFiniteSet(S \cup {x}) /\ Cardinality(S \cup {x}) = Cardinality(S) + 1
    BY <1>2, <2>2, FS_AddElement
  <2>4. Cardinality(T) <= Cardinality(S \cup {x})
    BY <2>1, <2>3, FS_Subset
  <2>. QED BY <2>3, <2>4
<1>. QED BY <1>1, <1>2

LEMMA Fewer ==
  ASSUME NEW S \in SUBSET Ids, NEW T \in SUBSET S
  PROVE  Cardinality(T) <= Cardinality(S)
BY RowsFinite, FS_Subset

\* A row that comes moves at most one row over an edge, itself included.
LEMMA Come ==
  ASSUME NEW L \in SUBSET Ids, NEW z \in Ids \ L, NEW t, Ordered(L \cup {z}, t),
         NEW U \in SUBSET Ids, NEW n \in Int
  PROVE  /\ Below(L \cup {z}, t, U \ {z}, n) \subseteq Below(L, t, U, n)
         /\ Cardinality(Beyond(L \cup {z}, t, U, n)) <= Cardinality(Beyond(L, t, U, n)) + 1
<1>. DEFINE M == L \cup {z}
<1>0. M \in SUBSET Ids /\ Ordered(L, t) /\ Ordered(M, t) /\ M = L \cup {z}
  BY DEF Ordered
<1>1. \A x \in L : /\ Rank(L, t, x) \in Nat
                   /\ Rank(M, t, x) = Rank(L, t, x) + (IF t[z].created > t[x].created THEN 1 ELSE 0)
  BY RankAdd, RankType
<1>. HIDE DEF M
<1>2. Below(M, t, U \ {z}, n) \subseteq Below(L, t, U, n)
  <2>1. ASSUME NEW x \in Below(M, t, U \ {z}, n) PROVE x \in Below(L, t, U, n)
    <3>1. x \in U /\ x \in L /\ Rank(M, t, x) < n
      BY <1>0 DEF Below
    <3>2. Rank(L, t, x) < n
      BY <1>1, <3>1
    <3>. QED BY <3>1, <3>2 DEF Below
  <2>. QED BY <2>1
<1>3. \A x \in L : x \in Beyond(M, t, U, n) \ Beyond(L, t, U, n) =>
        Rank(M, t, x) = n /\ t[z].created > t[x].created
  BY <1>1 DEF Beyond
<1>4. ASSUME NEW x \in Beyond(M, t, U, n) \ Beyond(L, t, U, n),
             NEW y \in Beyond(M, t, U, n) \ Beyond(L, t, U, n)
      PROVE  x = y
  <2>1. x \in M /\ y \in M /\ (x \in L \/ x = z) /\ (y \in L \/ y = z)
    BY <1>0 DEF Beyond
  <2>2. CASE x \in L /\ y \in L
    <3>1. Rank(M, t, x) = n /\ Rank(M, t, y) = n
      BY <1>3, <2>2
    <3>. QED BY <1>0, <2>1, <3>1, RanksDiffer
  <2>3. \A w \in L : w \in Beyond(M, t, U, n) \ Beyond(L, t, U, n) => Rank(M, t, z) < n
    BY <1>0, <1>3, RankOrder
  <2>4. Rank(M, t, z) \in Nat /\ (z \in Beyond(M, t, U, n) => Rank(M, t, z) >= n)
    BY <1>0, RankType DEF Beyond
  <2>. QED BY <2>1, <2>2, <2>3, <2>4
<1>5. Beyond(M, t, U, n) \in SUBSET Ids /\ Beyond(L, t, U, n) \in SUBSET Ids
  BY DEF Beyond
<1>. QED BY <1>0, <1>2, <1>4, <1>5, OneMore

\* A row that goes moves at most one row over an edge.
LEMMA Gone ==
  ASSUME NEW L \in SUBSET Ids, NEW z \in Ids \ L, NEW t, Ordered(L \cup {z}, t),
         NEW U \in SUBSET Ids, NEW n \in Int
  PROVE  /\ Beyond(L, t, U, n) \subseteq Beyond(L \cup {z}, t, U, n)
         /\ Cardinality(Below(L, t, U, n)) <= Cardinality(Below(L \cup {z}, t, U, n)) + 1
<1>. DEFINE M == L \cup {z}
<1>0. M \in SUBSET Ids /\ Ordered(M, t) /\ M = L \cup {z}
  OBVIOUS
<1>1. \A x \in L : /\ Rank(L, t, x) \in Nat
                   /\ Rank(M, t, x) = Rank(L, t, x) + (IF t[z].created > t[x].created THEN 1 ELSE 0)
  BY RankAdd, RankType
<1>. HIDE DEF M
<1>2. Beyond(L, t, U, n) \subseteq Beyond(M, t, U, n)
  <2>1. ASSUME NEW x \in Beyond(L, t, U, n) PROVE x \in Beyond(M, t, U, n)
    <3>1. x \in U /\ x \in L /\ x \in M /\ Rank(L, t, x) >= n
      BY <1>0 DEF Beyond
    <3>2. Rank(M, t, x) >= n
      BY <1>1, <3>1
    <3>. QED BY <3>1, <3>2 DEF Beyond
  <2>. QED BY <2>1
<1>3. \A x \in Below(L, t, U, n) \ Below(M, t, U, n) : x \in M /\ Rank(M, t, x) = n
  <2>1. ASSUME NEW x \in Below(L, t, U, n) \ Below(M, t, U, n) PROVE x \in M /\ Rank(M, t, x) = n
    <3>1. x \in U /\ x \in L /\ x \in M /\ Rank(L, t, x) < n /\ ~ (Rank(M, t, x) < n)
      BY <1>0 DEF Below
    <3>. QED BY <1>1, <3>1
  <2>. QED BY <2>1
<1>4. \A x, y \in Below(L, t, U, n) \ Below(M, t, U, n) : x = y
  BY <1>0, <1>3, RanksDiffer
<1>5. Below(M, t, U, n) \in SUBSET Ids /\ Below(L, t, U, n) \in SUBSET Ids
  BY DEF Below
<1>. QED BY <1>0, <1>2, <1>4, <1>5, OneMore

\* What a change of one row z does to the two sides of an edge, for rows U that
\* are listed and for any rows V.
LEMMA Moved ==
  ASSUME NEW L \in SUBSET Ids, NEW M \in SUBSET Ids, NEW z \in Ids, L \ {z} = M \ {z},
         NEW t, NEW u, Ordered(L, t), Ordered(M, u),
         \A y \in L \cap M : u[y].created = t[y].created,
         NEW U \in SUBSET L, NEW V \in SUBSET Ids, NEW n \in Int
  PROVE  /\ Cardinality(Below(M, u, U \ (L \ M), n))
              <= Cardinality(Below(L, t, U, n)) + Cardinality(L \ M)
         /\ Cardinality(Beyond(M, u, V, n))
              <= Cardinality(Beyond(L, t, V, n)) + Cardinality(M \ L)
<1>. DEFINE low     == Below(L, t, U, n)
            lowNow  == Below(M, u, U \ (L \ M), n)
            high    == Beyond(L, t, V, n)
            highNow == Beyond(M, u, V, n)
            gone    == L \ M
            come    == M \ L
<1>. SUFFICES /\ Cardinality(lowNow) <= Cardinality(low) + Cardinality(gone)
              /\ Cardinality(highNow) <= Cardinality(high) + Cardinality(come)
  OBVIOUS
<1>0. low \in SUBSET Ids /\ high \in SUBSET Ids /\ lowNow \in SUBSET Ids /\ highNow \in SUBSET Ids
  BY DEF Below, Beyond
<1>00. /\ Cardinality(low) \in Nat /\ Cardinality(high) \in Nat
       /\ Cardinality(lowNow) \in Nat /\ Cardinality(highNow) \in Nat
  <2>. HIDE DEF low, high, lowNow, highNow
  <2>. QED BY <1>0, RowsFinite
<1>1. CASE L = M
  <2>1. gone = {} /\ come = {}
    BY <1>1
  <2>2. lowNow = low /\ highNow = high
    <3>1. Below(L, u, U, n) = low /\ Beyond(L, u, V, n) = high
      BY <1>1, BelowFrame
    <3>2. lowNow = Below(L, u, U, n)
      BY <1>1 DEF Below
    <3>. QED BY <1>1, <3>1, <3>2
  <2>. HIDE DEF low, high, lowNow, highNow, gone, come
  <2>. QED BY <1>00, <2>1, <2>2, FS_EmptySet
<1>2. CASE z \notin L /\ M = L \cup {z}
  <2>1. gone = {} /\ come = {z}
    BY <1>2
  <2>2. low = Below(L, u, U, n) /\ high = Beyond(L, u, V, n)
    BY <1>2, BelowFrame
  <2>3. /\ Below(M, u, U \ {z}, n) \subseteq Below(L, u, U, n)
        /\ Cardinality(highNow) <= Cardinality(Beyond(L, u, V, n)) + 1
    BY <1>2, Come
  <2>4. lowNow = Below(M, u, U \ {z}, n)
    BY <1>2 DEF Below
  <2>. HIDE DEF low, high, lowNow, highNow, gone, come
  <2>5. Cardinality(lowNow) <= Cardinality(low)
    BY <1>0, <2>2, <2>3, <2>4, Fewer
  <2>6. Cardinality(gone) = 0 /\ Cardinality(come) = 1
    BY <2>1, FS_EmptySet, FS_Singleton
  <2>. QED BY <1>00, <2>2, <2>3, <2>5, <2>6
<1>3. CASE z \notin M /\ L = M \cup {z}
  <2>1. gone = {z} /\ come = {}
    BY <1>3
  <2>2. Below(M, t, U, n) = Below(M, u, U, n) /\ Beyond(M, t, V, n) = highNow
    BY <1>3, BelowFrame
  <2>3. /\ Cardinality(Below(M, t, U, n)) <= Cardinality(low) + 1
        /\ Beyond(M, t, V, n) \subseteq high
    BY <1>3, Gone
  <2>4. lowNow = Below(M, u, U, n)
    BY <1>3 DEF Below
  <2>. HIDE DEF low, high, lowNow, highNow, gone, come
  <2>5. Cardinality(highNow) <= Cardinality(high)
    BY <1>0, <2>2, <2>3, Fewer
  <2>6. Cardinality(gone) = 1 /\ Cardinality(come) = 0
    BY <2>1, FS_EmptySet, FS_Singleton
  <2>. QED BY <1>00, <2>2, <2>3, <2>4, <2>5, <2>6
<1>4. L = M \/ (z \notin L /\ M = L \cup {z}) \/ (z \notin M /\ L = M \cup {z})
  OBVIOUS
<1>. QED BY <1>1, <1>2, <1>3, <1>4

-----------------------------------------------------------------------------
(* The table *)

LEMMA TimesDiffer ==
  ASSUME NEW t \in [Ids -> Row \cup {NoRow}], NEW times \in [NewRows -> Nat], NEW there,
         CreatedIn(t, times, there), NEW S \in SUBSET {x \in Ids : t[x] # NoRow}
  PROVE  Ordered(S, t)
<1>. SUFFICES ASSUME NEW x \in S
              PROVE  /\ t[x].created \in Int
                     /\ \A y \in S : t[x].created = t[y].created => x = y
  BY DEF Ordered
<1>1. \A y \in S : y \in Ids /\ t[y] \in Row
  OBVIOUS
<1>2. \A y \in S : t[y].created \in Int
  BY <1>1 DEF Row
<1>3. \A y \in S : y \in NewRows =>
        times[y] > 0 /\ times[y] \in Nat /\ t[y].created = times[y]
  BY <1>1 DEF CreatedIn
<1>4. \A y \in S : y \notin NewRows =>
        y \in DOMAIN Rows0 /\ t[y].created = Rows0[y].created
  BY <1>1 DEF CreatedIn, Ids
<1>5. \A y \in DOMAIN Rows0 : Rows0[y].created \in Int /\ Rows0[y].created <= 0
  BY ListingAssumption DEF Row
<1>6. ASSUME NEW y \in S, t[x].created = t[y].created PROVE x = y
  <2>1. CASE x \in NewRows /\ y \in NewRows
    BY <1>3, <1>6, <2>1 DEF CreatedIn
  <2>2. CASE x \notin NewRows /\ y \notin NewRows
    BY <1>4, <1>6, <2>2, ListingAssumption
  <2>3. CASE (x \in NewRows) # (y \in NewRows)
    BY <1>3, <1>4, <1>5, <1>6, <2>3
  <2>. QED BY <2>1, <2>2, <2>3
<1>. QED BY <1>2, <1>6

\* Only one row changes, and its time does not.
OneRow(z, t) ==
  /\ \A x \in Ids \ {z} : t[x] = row[x]
  /\ row[z] # NoRow /\ t[z] # NoRow => t[z].created = row[z].created

LEMMA InsertStep ==
  ASSUME ListingInv, NEW x \in NewRows, Insert(x)
  PROVE  Changed(row') /\ OneRow(x, row') /\ CreatedIn(row', begun', stored')
<1>0. /\ x \in Ids /\ row \in [Ids -> Row \cup {NoRow}] /\ begun \in [NewRows -> Nat]
      /\ stored \subseteq NewRows
  BY NewIds DEF ListingInv, TypeOK
<1>1. Changed(row') /\ row' = [row EXCEPT ![x] = [created |-> begun[x], fields |-> Filters[kind]]]
  BY DEF Insert, Changed
<1>2. row[x] = NoRow
  BY DEF Insert, ListingInv, CreatedIn
<1>3. row'[x].created = begun[x] /\ \A y \in Ids \ {x} : row'[y] = row[y]
  BY <1>0, <1>1
<1>4. begun' = begun /\ stored' = stored \cup {x} /\ begun[x] > 0
  BY DEF Insert
<1>5. CreatedIn(row, begun, stored)
  BY DEF ListingInv
<1>6. \A y \in Ids : row'[y] # NoRow =>
        row'[y].created = IF y \in NewRows THEN begun[y] ELSE Rows0[y].created
  BY <1>3, <1>5 DEF CreatedIn
<1>7. \A y \in NewRows : row'[y] # NoRow => y \in stored \cup {x}
  BY <1>3, <1>5, NewIds DEF CreatedIn
<1>8. CreatedIn(row', begun, stored \cup {x})
  BY <1>4, <1>5, <1>6, <1>7 DEF CreatedIn
<1>9. OneRow(x, row')
  BY <1>2, <1>3 DEF OneRow
<1>. QED BY <1>1, <1>4, <1>8, <1>9

LEMMA PatchStep ==
  ASSUME ListingInv, NEW x \in Ids, Patch(x)
  PROVE  Changed(row') /\ OneRow(x, row') /\ CreatedIn(row', begun', stored')
<1>0. row \in [Ids -> Row \cup {NoRow}] /\ row[x] # NoRow /\ row[x] \in Row
  BY DEF ListingInv, TypeOK, Patch
<1>1. PICK f : /\ Changed(row')
               /\ row' = [row EXCEPT ![x].fields = IF f \in @ THEN @ \ {f} ELSE @ \cup {f}]
  BY DEF Patch, Changed
<1>2. row'[x].created = row[x].created /\ \A y \in Ids \ {x} : row'[y] = row[y]
  BY <1>0, <1>1 DEF Row
<1>3. begun' = begun /\ stored' = stored
  BY DEF Patch
<1>. QED BY <1>0, <1>1, <1>2, <1>3 DEF OneRow, ListingInv, CreatedIn

LEMMA DeleteStep ==
  ASSUME ListingInv, NEW x \in Ids, DeleteBatch(x)
  PROVE  Changed(row') /\ OneRow(x, row') /\ CreatedIn(row', begun', stored')
<1>0. row \in [Ids -> Row \cup {NoRow}]
  BY DEF ListingInv, TypeOK
<1>1. Changed(row') /\ row' = [row EXCEPT ![x] = NoRow]
  BY DEF DeleteBatch, Changed
<1>2. begun' = begun /\ stored' = stored
  BY DEF DeleteBatch
<1>. QED BY <1>0, <1>1, <1>2 DEF OneRow, ListingInv, CreatedIn

\* Who begins later has a later time.
LEMMA BeginStep ==
  ASSUME ListingInv, NEW x \in NewRows, BeginInsert(x)
  PROVE  CreatedIn(row', begun', stored')
<1>. DEFINE B == {y \in NewRows : begun[y] > 0}
            C == {y \in NewRows : begun'[y] > 0}
<1>0. x \in Ids /\ begun \in [NewRows -> Nat] /\ stored \subseteq NewRows
  BY NewIds DEF ListingInv, TypeOK
<1>1. B \subseteq Ids /\ x \notin B
  BY NewIds DEF BeginInsert
<1>2. IsFiniteSet(B) /\ Cardinality(B) \in Nat
  <2>. HIDE DEF B
  <2>. QED BY <1>1, RowsFinite
<1>3. /\ begun' = [begun EXCEPT ![x] = 1 + Cardinality(B)]
      /\ begun[x] = 0 /\ row' = row /\ stored' = stored
  BY DEF BeginInsert
<1>4. C = B \cup {x}
  <2>. HIDE DEF B
  <2>1. \A y \in NewRows : y # x => begun'[y] = begun[y]
    BY <1>0, <1>3
  <2>2. begun'[x] > 0
    BY <1>0, <1>2, <1>3
  <2>. QED BY <2>1, <2>2 DEF B
<1>. HIDE DEF B, C
<1>5. Cardinality(C) = Cardinality(B) + 1
  BY <1>1, <1>2, <1>4, FS_AddElement
<1>6. \A y \in NewRows : begun[y] <= Cardinality(B)
  BY DEF ListingInv, CreatedIn, B
<1>7. x \notin stored /\ row[x] = NoRow
  BY <1>0, <1>3 DEF ListingInv, CreatedIn
<1>8. ASSUME NEW y \in NewRows
      PROVE  /\ begun'[y] <= Cardinality(C)
             /\ \A w \in NewRows : begun'[y] > 0 /\ begun'[w] = begun'[y] => y = w
  <2>1. \A w \in NewRows : w # x => begun'[w] = begun[w]
    BY <1>0, <1>3
  <2>2. begun'[x] = 1 + Cardinality(B)
    BY <1>0, <1>3
  <2>3. \A w \in NewRows : begun[w] \in Nat
    BY <1>0
  <2>4. \A w \in NewRows : begun[y] > 0 /\ begun[w] = begun[y] => y = w
    BY DEF ListingInv, CreatedIn
  <2>. QED BY <1>2, <1>5, <1>6, <2>1, <2>2, <2>3, <2>4
<1>9. /\ \A y \in Ids : row'[y] # NoRow =>
           row'[y].created = IF y \in NewRows THEN begun'[y] ELSE Rows0[y].created
      /\ \A y \in NewRows : row'[y] # NoRow => y \in stored'
      /\ \A y \in stored' : begun'[y] > 0
  BY <1>0, <1>3, <1>7 DEF ListingInv, CreatedIn
<1>. QED BY <1>8, <1>9 DEF CreatedIn, C

\* The steps of the table.
LEMMA TableStep ==
  ASSUME ListingInv, [Next]_vars
  PROVE  /\ CreatedIn(row', begun', stored')
         /\ \/ UNCHANGED <<query, row, history>> /\ (pc' = pc => UNCHANGED answer)
            \/ \E z \in Ids : OneRow(z, row') /\ Changed(row')
<1>1. CASE ReadPage \/ CountRows \/ ReadCodes \/ Fail
  <2>1. UNCHANGED <<query, row, history, begun, stored>> /\ (pc' # pc \/ ReadCodes \/ CountRows)
    BY <1>1 DEF ReadPage, CountRows, ReadCodes, Fail, table, query, history
  <2>2. ReadCodes \/ CountRows => pc' # pc
    BY DEF ReadCodes, CountRows, Answer
  <2>. QED BY <2>1, <2>2 DEF ListingInv
<1>2. ASSUME NEW x \in NewRows, BeginInsert(x)
      PROVE  CreatedIn(row', begun', stored') /\ UNCHANGED <<query, row, answer, history>>
  BY <1>2, BeginStep DEF BeginInsert
<1>3. CASE UNCHANGED vars
  BY <1>3 DEF vars, table, ListingInv
<1>. QED BY <1>1, <1>2, <1>3, InsertStep, PatchStep, DeleteStep, NewIds DEF Next

LEMMA StayedStep ==
  ASSUME ListingInv, [Next]_vars
  PROVE  StayedMatch'
<1>1. CASE UNCHANGED <<query, row, history>>
  BY <1>1 DEF ListingInv, StayedMatch, Matched, Matching, query, history
<1>2. CASE Changed(row')
  <2>1. stayed' = stayed \ (Matched(row) \ Matched(row'))
    BY <1>2 DEF Changed
  <2>2. Matched(row)' = Matched(row')
    BY <1>2 DEF Changed, Matched, Matching, query
  <2>. QED BY <2>1, <2>2 DEF ListingInv, StayedMatch
<1>. QED BY <1>1, <1>2, TableStep

LEMMA ListingInit == Init => ListingInv
<1>. SUFFICES ASSUME Init PROVE ListingInv
  OBVIOUS
<1>1. CreatedIn(row, begun, stored)
  <2>1. {y \in NewRows : begun[y] > 0} = {}
    BY DEF Init
  <2>2. Cardinality({y \in NewRows : begun[y] > 0}) = 0
    BY <2>1, FS_EmptySet
  <2>3. \A x \in Ids : row[x] # NoRow => x \notin NewRows /\ row[x] = Rows0[x]
    BY DEF Init
  <2>4. \A x \in NewRows : begun[x] = 0 /\ row[x] = NoRow
    BY NewIds DEF Init
  <2>. QED BY <2>2, <2>3, <2>4 DEF CreatedIn, Init
<1>. QED BY <1>1, TypeInit DEF ListingInv, StayedMatch, Init

LEMMA ListingStep == ListingInv /\ [Next]_vars => ListingInv'
BY TypeStep, TableStep, StayedStep DEF ListingInv

-----------------------------------------------------------------------------
(* What the client has missed and what it was shown again *)

\* The numbers that are compared.
LEMMA WalkTypes ==
  ASSUME TypeOK
  PROVE  /\ Matched(row) \in SUBSET Ids
         /\ Unseen \in SUBSET Ids /\ Seen \in SUBSET Ids /\ Again \in SUBSET Ids /\ rows \in SUBSET Ids
         /\ Offset \in Nat /\ Edge \in Nat /\ Edge = Offset + perPage /\ perPage \in Nat \ {0}
         /\ Offset = (page - 1) * perPage /\ page \in Nat \ {0}
<1>1. perPage \in Nat \ {0} /\ page \in Nat \ {0}
  BY ListingAssumption DEF TypeOK
<1>2. (page - 1) * perPage \in Nat
  BY <1>1
<1>. QED BY <1>1, <1>2 DEF TypeOK, Matched, Matching, Unseen, Seen, Again, Offset, Edge

LEMMA Sides ==
  ASSUME NEW L \in SUBSET Ids, NEW t, NEW U \in SUBSET Ids, NEW n
  PROVE  /\ Below(L, t, U, n) \in SUBSET Ids /\ Cardinality(Below(L, t, U, n)) \in Nat
         /\ Beyond(L, t, U, n) \in SUBSET Ids /\ Cardinality(Beyond(L, t, U, n)) \in Nat
<1>1. Below(L, t, U, n) \in SUBSET Ids /\ Beyond(L, t, U, n) \in SUBSET Ids
  BY DEF Below, Beyond
<1>. QED BY <1>1, RowsFinite

LEMMA MatchedOrdered == ListingInv => Ordered(Matched(row), row)
<1>1. Matched(row) \in SUBSET {x \in Ids : row[x] # NoRow}
  BY DEF Matched, Matching
<1>. QED BY <1>1, TimesDiffer DEF ListingInv, TypeOK

\* A write moves what is on either side of an edge, and the client not at all.
LEMMA Written ==
  ASSUME ListingInv, ListingInv', NEW z \in Ids, OneRow(z, row'), Changed(row'),
         NEW U \in SUBSET stayed, NEW V \in SUBSET Ids, NEW n \in Nat
  PROVE  LET gone == Matched(row) \ Matched(row')
             come == Matched(row') \ Matched(row)
         IN /\ Matched(row)' = Matched(row')
            /\ UNCHANGED <<kind, asked, perPage, page, pc, rows, total, seen>> /\ pc # "done"
            /\ stayed' = stayed \ gone
            /\ departures' = departures + Cardinality(gone) /\ Cardinality(gone) \in Nat
            /\ arrivals' = arrivals + Cardinality(come) /\ Cardinality(come) \in Nat
            /\ Cardinality(Below(Matched(row'), row', U \ gone, n))
                 <= Cardinality(Below(Matched(row), row, U, n)) + Cardinality(gone)
            /\ Cardinality(Beyond(Matched(row'), row', V, n))
                 <= Cardinality(Beyond(Matched(row), row, V, n)) + Cardinality(come)
<1>. DEFINE L == Matched(row)
            M == Matched(row')
<1>1. L \in SUBSET Ids /\ M \in SUBSET Ids /\ L \ {z} = M \ {z}
  BY DEF Matched, Matching, OneRow
<1>2. \A y \in L \cap M : row'[y].created = row[y].created
  BY DEF Matched, Matching, OneRow
<1>3. Ordered(L, row)
  BY MatchedOrdered
<1>4. Ordered(M, row')
  <2>1. M \in SUBSET {x \in Ids : row'[x] # NoRow}
    BY DEF Matched, Matching
  <2>. HIDE DEF M
  <2>. QED BY <2>1, TimesDiffer DEF ListingInv, TypeOK
<1>5. U \in SUBSET L
  BY DEF ListingInv, StayedMatch
<1>6. Matched(row)' = M
  BY DEF Matched, Matching, Changed, query
<1>7. Cardinality(L \ M) \in Nat /\ Cardinality(M \ L) \in Nat
  BY <1>1, RowsFinite
<1>8. /\ UNCHANGED <<kind, asked, perPage, page, pc, rows, total, seen>> /\ pc # "done"
      /\ stayed' = stayed \ (L \ M)
      /\ departures' = departures + Cardinality(L \ M)
      /\ arrivals' = arrivals + Cardinality(M \ L)
  BY DEF Changed, query, answer
<1>. HIDE DEF L, M
<1>9. /\ Cardinality(Below(M, row', U \ (L \ M), n))
           <= Cardinality(Below(L, row, U, n)) + Cardinality(L \ M)
      /\ Cardinality(Beyond(M, row', V, n))
           <= Cardinality(Beyond(L, row, V, n)) + Cardinality(M \ L)
  <2>1. n \in Int
    OBVIOUS
  <2>. QED BY <1>1, <1>2, <1>3, <1>4, <1>5, <2>1, Moved, Zenon
<1>. QED BY <1>6, <1>7, <1>8, <1>9, Zenon DEF L, M

LEMMA WriteWalk ==
  ASSUME ListingInv, ListingInv', WalkInv, NEW z \in Ids, OneRow(z, row'), Changed(row')
  PROVE  WalkInv'
<1>. DEFINE L == Matched(row)
            M == Matched(row')
            gone == L \ M
            come == M \ L
<1>0. /\ L \in SUBSET Ids /\ Unseen \in SUBSET stayed /\ Unseen \in SUBSET Ids
      /\ Seen \in SUBSET Ids /\ Again \in SUBSET Ids /\ rows \in SUBSET Ids
      /\ Offset \in Nat /\ Edge \in Nat /\ arrivals \in Nat /\ departures \in Nat
  BY WalkTypes DEF ListingInv, TypeOK, Unseen
<1>1. /\ Matched(row)' = M
      /\ UNCHANGED <<kind, asked, perPage, page, pc, rows, total, seen>> /\ pc # "done"
      /\ stayed' = stayed \ gone
      /\ departures' = departures + Cardinality(gone) /\ Cardinality(gone) \in Nat
      /\ arrivals' = arrivals + Cardinality(come) /\ Cardinality(come) \in Nat
  BY <1>0, Written
<1>2. /\ Unseen' = Unseen \ gone /\ Seen' = Seen /\ Again' = Again
      /\ Repeats' = Repeats /\ Offset' = Offset /\ Edge' = Edge
  BY <1>1 DEF Unseen, Seen, Again, Repeats, Offset, Edge
<1>3. (Unseen \ rows)' = (Unseen \ rows) \ gone /\ (Seen \cup rows)' = Seen \cup rows
  BY <1>1, <1>2
<1>. HIDE DEF L, M, gone, come
<1>4. M \in SUBSET Ids /\ IsFiniteSet(Repeats) /\ Cardinality(Repeats) \in Nat /\ Cardinality(Again) \in Nat
  BY <1>0, RowsFinite, FS_CardinalityType DEF WalkInv, M, Matched, Matching
<1>5. EdgeBefore'
  <2>. DEFINE low     == Below(L, row, Unseen, Offset)
              lowNow  == Below(M, row', Unseen \ gone, Offset)
              high    == Beyond(L, row, Seen, Offset)
              highNow == Beyond(M, row', Seen, Offset)
  <2>1. /\ Cardinality(lowNow) <= Cardinality(low) + Cardinality(gone)
        /\ Cardinality(highNow) <= Cardinality(high) + Cardinality(come)
    BY <1>0, Written DEF L, M, gone, come
  <2>2. Cardinality(low) <= departures /\ Cardinality(Repeats) + Cardinality(high) <= arrivals
    BY <1>1 DEF WalkInv, EdgeBefore, L
  <2>3. /\ Below(Matched(row), row, Unseen, Offset)' = lowNow
        /\ Beyond(Matched(row), row, Seen, Offset)' = highNow
    BY <1>1, <1>2, Zenon
  <2>4. /\ Cardinality(low) \in Nat /\ Cardinality(lowNow) \in Nat
        /\ Cardinality(high) \in Nat /\ Cardinality(highNow) \in Nat
    BY <1>0, <1>4, Sides
  <2>. HIDE DEF low, lowNow, high, highNow
  <2>. QED BY <1>0, <1>1, <1>2, <1>4, <2>1, <2>2, <2>3, <2>4 DEF EdgeBefore
<1>6. EdgeBehind'
  <2>. DEFINE low     == Below(L, row, Unseen \ rows, Edge)
              lowNow  == Below(M, row', (Unseen \ rows) \ gone, Edge)
              high    == Beyond(L, row, Seen \cup rows, Edge)
              highNow == Beyond(M, row', Seen \cup rows, Edge)
  <2>. SUFFICES ASSUME pc \in {"count", "codes"}
                PROVE  /\ Cardinality(Below(Matched(row), row, Unseen \ rows, Edge))' <= departures'
                       /\ Cardinality(Repeats)' + Cardinality(Again)'
                            + Cardinality(Beyond(Matched(row), row, Seen \cup rows, Edge))' <= arrivals'
    BY <1>1 DEF EdgeBehind
  <2>0. Unseen \ rows \in SUBSET stayed /\ Seen \cup rows \in SUBSET Ids
    BY <1>0
  <2>1. /\ Cardinality(lowNow) <= Cardinality(low) + Cardinality(gone)
        /\ Cardinality(highNow) <= Cardinality(high) + Cardinality(come)
    BY <1>0, <2>0, Written DEF L, M, gone, come
  <2>2. /\ Cardinality(low) <= departures
        /\ Cardinality(Repeats) + Cardinality(Again) + Cardinality(high) <= arrivals
    BY DEF WalkInv, EdgeBehind, L
  <2>3. /\ Below(Matched(row), row, Unseen \ rows, Edge)' = lowNow
        /\ Beyond(Matched(row), row, Seen \cup rows, Edge)' = highNow
    BY <1>1, <1>2, <1>3, Zenon
  <2>4. /\ Cardinality(low) \in Nat /\ Cardinality(lowNow) \in Nat
        /\ Cardinality(high) \in Nat /\ Cardinality(highNow) \in Nat
    <3>1. Unseen \ rows \in SUBSET Ids /\ (Unseen \ rows) \ gone \in SUBSET Ids
      BY <1>0
    <3>. QED BY <1>0, <1>4, <2>0, <3>1, Sides
  <2>. HIDE DEF low, lowNow, high, highNow
  <2>. QED BY <1>0, <1>1, <1>2, <1>4, <2>1, <2>2, <2>3, <2>4
<1>7. LastTold'
  <2>1. (Unseen \ rows)' \subseteq Unseen \ rows /\ Unseen \ rows \in SUBSET Ids
    BY <1>0, <1>3
  <2>2. Cardinality((Unseen \ rows)') <= Cardinality(Unseen \ rows)
    BY <2>1, Fewer
  <2>3. Cardinality((Unseen \ rows)') \in Nat /\ Cardinality(Unseen \ rows) \in Nat
    <3>1. (Unseen \ rows)' \in SUBSET Ids
      BY <2>1
    <3>. QED BY <2>1, <3>1, RowsFinite
  <2>4. pc = "codes" /\ page >= TotalPages(total, perPage) => Cardinality(Unseen \ rows) <= departures
    BY DEF WalkInv, LastTold
  <2>5. (pc = "codes" /\ page >= TotalPages(total, perPage))' <=>
        (pc = "codes" /\ page >= TotalPages(total, perPage))
    BY <1>1
  <2>. QED BY <1>0, <1>1, <2>2, <2>3, <2>4, <2>5 DEF LastTold
<1>8. WalkBounded' /\ IsFiniteSet(Repeats)'
  BY <1>1, <1>2, <1>4 DEF WalkBounded
<1>. QED BY <1>5, <1>6, <1>7, <1>8 DEF WalkInv

\* The page is what lies between its two edges.
LEMMA PageBetween ==
  ASSUME TypeOK
  PROVE  PageRows = Below(Matched(row), row, Ids, Edge) \cap Beyond(Matched(row), row, Ids, Offset)
<1>1. Matching(row, Listed[kind]) = Matched(row)
  BY SameFilters, ListingAssumption DEF TypeOK, Matched
<1>2. \A x \in Matched(row) : Rank(Matched(row), row, x) \in Nat
  BY WalkTypes, RankType
<1>3. \A x \in Matched(row) :
        Rank(Matched(row), row, x) \in Offset .. Offset + perPage - 1
          <=> Rank(Matched(row), row, x) < Edge /\ Rank(Matched(row), row, x) >= Offset
  BY <1>2, WalkTypes
<1>4. PageRows = {x \in Matched(row) : Rank(Matched(row), row, x) \in Offset .. Offset + perPage - 1}
  BY <1>1 DEF PageRows, Rank
<1>. QED BY <1>3, <1>4, WalkTypes DEF Below, Beyond

LEMMA ReadWalk ==
  ASSUME ListingInv, WalkInv, ReadPage
  PROVE  WalkInv'
<1>. DEFINE L == Matched(row)
            n == Offset
<1>1. /\ UNCHANGED <<kind, asked, perPage, row, page, seen, stayed, arrivals, departures>>
      /\ pc = "list" /\ pc' = "count" /\ rows' = PageRows
  BY DEF ReadPage, query, table, history
<1>2. /\ Matched(row)' = L /\ Unseen' = Unseen /\ Seen' = Seen /\ Repeats' = Repeats
      /\ Offset' = Offset /\ Edge' = Edge
  BY <1>1 DEF Matched, Matching, Unseen, Seen, Repeats, Offset, Edge
<1>3. rows' = Below(L, row, Ids, Edge) \cap Beyond(L, row, Ids, Offset)
  BY <1>1, PageBetween DEF ListingInv
<1>4. /\ L \in SUBSET Ids /\ Unseen \in SUBSET Ids /\ Seen \in SUBSET Ids
      /\ Offset \in Nat /\ Edge \in Nat /\ Edge >= Offset
      /\ departures \in Nat /\ arrivals \in Nat
  BY WalkTypes DEF ListingInv, TypeOK
<1>5. \A x \in L : Rank(L, row, x) \in Nat
  BY <1>4, RankType
<1>6. /\ Cardinality(Below(L, row, Unseen, Offset)) <= departures
      /\ Cardinality(Repeats) + Cardinality(Beyond(L, row, Seen, Offset)) <= arrivals
  BY <1>1 DEF WalkInv, EdgeBefore
<1>. HIDE DEF L
<1>7. EdgeBehind'
  <2>. DEFINE low   == Below(L, row, Unseen \ rows', Edge)
              high  == Beyond(L, row, Seen \cup rows', Edge)
              again == {x \in rows' : seen[x] >= 1}
  <2>1. low \subseteq Below(L, row, Unseen, Offset)
    BY <1>3, <1>4, <1>5 DEF Below, Beyond
  <2>2. Cardinality(low) <= departures
    <3>1. Cardinality(low) <= Cardinality(Below(L, row, Unseen, Offset))
      BY <1>4, <2>1, Sides, Fewer
    <3>2. Cardinality(low) \in Nat
      <4>1. Unseen \ rows' \in SUBSET Ids
        BY <1>4
      <4>. QED BY <1>4, <4>1, Sides
    <3>3. Cardinality(Below(L, row, Unseen, Offset)) \in Nat
      BY <1>4, Sides
    <3>. HIDE DEF low
    <3>. QED BY <1>4, <1>6, <3>1, <3>2, <3>3
  <2>3. again \cup high = Beyond(L, row, Seen, Offset) /\ again \cap high = {}
    <3>1. again = {x \in Seen : x \in L /\ Rank(L, row, x) < Edge /\ Rank(L, row, x) >= Offset}
      BY <1>3, <1>4 DEF Below, Beyond, Seen
    <3>2. high = {x \in Seen : x \in L /\ Rank(L, row, x) >= Edge}
      BY <1>3, <1>4, <1>5 DEF Below, Beyond
    <3>. HIDE DEF again, high
    <3>. QED BY <1>4, <1>5, <3>1, <3>2 DEF Beyond
  <2>4. Cardinality(again) + Cardinality(high) = Cardinality(Beyond(L, row, Seen, Offset))
    <3>1. IsFiniteSet(again) /\ IsFiniteSet(high) /\ Cardinality(again) \in Nat /\ Cardinality(high) \in Nat
      <4>1. again \subseteq Ids /\ high \subseteq Ids
        BY <1>3, <1>4 DEF Below, Beyond
      <4>. HIDE DEF again, high
      <4>. QED BY <4>1, RowsFinite
    <3>. HIDE DEF again, high
    <3>2. Cardinality(again \cap high) = 0
      BY <2>3, FS_EmptySet
    <3>3. Cardinality(again \cup high) = Cardinality(again) + Cardinality(high) - Cardinality(again \cap high)
      BY <3>1, FS_Union
    <3>4. Cardinality(again \cup high) = Cardinality(Beyond(L, row, Seen, Offset))
      BY <2>3, Zenon
    <3>. QED BY <3>1, <3>2, <3>3, <3>4
  <2>5. /\ Below(Matched(row), row, Unseen \ rows, Edge)' = low
        /\ Beyond(Matched(row), row, Seen \cup rows, Edge)' = high
    BY <1>1, <1>2, Zenon
  <2>6. Again' = again
    BY <1>1 DEF Again
  <2>7. /\ Cardinality(Repeats) \in Nat /\ Cardinality(again) \in Nat /\ Cardinality(high) \in Nat
    <3>1. again \subseteq Ids /\ Seen \cup rows' \in SUBSET Ids
      BY <1>3, <1>4 DEF Below
    <3>. QED BY <1>4, <3>1, Sides, RowsFinite, FS_CardinalityType DEF WalkInv
  <2>. HIDE DEF low, high, again
  <2>8. Cardinality(Repeats)' + Cardinality(Again)' + Cardinality(high) <= arrivals'
    BY <1>1, <1>2, <1>6, <2>4, <2>6, <2>7
  <2>. QED BY <1>1, <2>2, <2>5, <2>8 DEF EdgeBehind
<1>8. EdgeBefore'
  <2>1. Below(Matched(row), row, Unseen, Offset)' = Below(L, row, Unseen, Offset)
    BY <1>1, <1>2, Zenon
  <2>2. Beyond(Matched(row), row, Seen, Offset)' = Beyond(L, row, Seen, Offset)
    BY <1>1, <1>2, Zenon
  <2>. QED BY <1>1, <1>2, <1>6, <2>1, <2>2 DEF EdgeBefore
<1>9. LastTold' /\ WalkBounded' /\ IsFiniteSet(Repeats)'
  BY <1>1, <1>2 DEF LastTold, WalkBounded, WalkInv
<1>. QED BY <1>7, <1>8, <1>9 DEF WalkInv

\* Each row of a page that was seen before is seen once more.
LEMMA ShownAgain ==
  ASSUME TypeOK, IsFiniteSet(Repeats),
         seen' = [x \in Ids |-> IF x \in rows THEN seen[x] + 1 ELSE seen[x]]
  PROVE  /\ IsFiniteSet(Repeats')
         /\ Cardinality(Repeats') <= Cardinality(Repeats) + Cardinality(Again)
<1>. DEFINE new == {<<x, seen[x] + 1>> : x \in Again}
            f   == [x \in Again |-> <<x, seen[x] + 1>>]
<1>1. Again \subseteq Ids /\ rows \subseteq Ids /\ seen \in [Ids -> Nat]
  BY WalkTypes DEF TypeOK
<1>2. f \in Surjection(Again, new)
  BY DEF Surjection
<1>3. IsFiniteSet(Again) /\ Cardinality(Again) \in Nat
  BY <1>1, RowsFinite
<1>4. IsFiniteSet(new) /\ Cardinality(new) <= Cardinality(Again) /\ Cardinality(new) \in Nat
  <2>. HIDE DEF new, f
  <2>. QED BY <1>2, <1>3, FS_Surjection, FS_CardinalityType
<1>5. Repeats' = Repeats \cup new
  <2>1. ASSUME NEW x \in Ids
        PROVE  {x} \X (2 .. seen'[x]) =
                 ({x} \X (2 .. seen[x])) \cup {<<y, seen[y] + 1>> : y \in Again \cap {x}}
    <3>1. CASE x \in Again
      <4>1. seen[x] \in Nat /\ seen[x] >= 1 /\ seen'[x] = seen[x] + 1
        BY <1>1, <3>1 DEF Again
      <4>2. 2 .. seen'[x] = (2 .. seen[x]) \cup {seen[x] + 1}
        BY <4>1
      <4>3. {<<y, seen[y] + 1>> : y \in Again \cap {x}} = {x} \X {seen[x] + 1}
        BY <3>1
      <4>. QED BY <4>2, <4>3
    <3>2. CASE x \notin Again
      <4>1. seen[x] \in Nat /\ (seen'[x] = seen[x] \/ (seen[x] = 0 /\ seen'[x] = 1))
        BY <1>1, <3>2 DEF Again
      <4>2. 2 .. seen'[x] = 2 .. seen[x]
        BY <4>1
      <4>3. {<<y, seen[y] + 1>> : y \in Again \cap {x}} = {}
        BY <3>2
      <4>. QED BY <4>2, <4>3
    <3>. QED BY <3>1, <3>2
  <2>2. Repeats' = UNION {{x} \X (2 .. seen'[x]) : x \in Ids}
    BY DEF Repeats
  <2>3. \A p : p \in Repeats' <=> \E x \in Ids : p \in {x} \X (2 .. seen'[x])
    BY <2>2
  <2>4. \A p : p \in Repeats <=> \E x \in Ids : p \in {x} \X (2 .. seen[x])
    BY DEF Repeats
  <2>5. \A p : p \in new <=> \E x \in Ids : p \in {<<y, seen[y] + 1>> : y \in Again \cap {x}}
    BY <1>1
  <2>. HIDE DEF new
  <2>. QED BY <2>1, <2>3, <2>4, <2>5
<1>. HIDE DEF new, f
<1>6. Cardinality(Repeats) \in Nat /\ Cardinality(Repeats \cap new) \in Nat
  BY FS_CardinalityType, FS_Intersection
<1>7. /\ IsFiniteSet(Repeats \cup new)
      /\ Cardinality(Repeats \cup new)
           = Cardinality(Repeats) + Cardinality(new) - Cardinality(Repeats \cap new)
  BY <1>4, FS_Union
<1>8. Cardinality(Repeats') = Cardinality(Repeats \cup new) /\ IsFiniteSet(Repeats')
  BY <1>5, <1>7, Zenon
<1>. QED BY <1>3, <1>4, <1>6, <1>7, <1>8

\* The next page begins behind this one.
LEMMA NextOffset ==
  ASSUME NEW p \in Nat, NEW size \in Nat
  PROVE  (p + 1 - 1) * size = (p - 1) * size + size
OBVIOUS

LEMMA AnswerWalk ==
  ASSUME ListingInv, WalkInv, pc \in {"count", "codes"}, NEW n \in Nat, Answer(n),
         UNCHANGED <<query, table, history>>,
         page >= TotalPages(n, perPage) => Cardinality(Unseen \ rows) <= departures
  PROVE  WalkInv'
<1>1. /\ UNCHANGED <<kind, asked, perPage, row, stayed, arrivals, departures>>
      /\ seen' = [x \in Ids |-> IF x \in rows THEN seen[x] + 1 ELSE seen[x]]
      /\ seen \in [Ids -> Nat] /\ stayed \subseteq Ids /\ TypeOK
  BY DEF query, table, history, Answer, ListingInv, TypeOK
<1>2. Unseen' = Unseen \ rows /\ Seen' = Seen \cup rows
  <2>1. \A x \in Ids : seen'[x] = 0 <=> seen[x] = 0 /\ x \notin rows
    BY <1>1
  <2>2. \A x \in Ids : seen'[x] >= 1 <=> seen[x] >= 1 \/ x \in rows
    BY <1>1
  <2>. QED BY <1>1, <2>1, <2>2, WalkTypes DEF Unseen, Seen
<1>3. IsFiniteSet(Repeats') /\ Cardinality(Repeats') <= Cardinality(Repeats) + Cardinality(Again)
  BY <1>1, ShownAgain DEF WalkInv
<1>4. /\ Cardinality(Below(Matched(row), row, Unseen \ rows, Edge)) <= departures
      /\ Cardinality(Repeats) + Cardinality(Again)
           + Cardinality(Beyond(Matched(row), row, Seen \cup rows, Edge)) <= arrivals
  BY DEF WalkInv, EdgeBehind
<1>5. /\ Cardinality(Repeats) \in Nat /\ Cardinality(Repeats') \in Nat /\ Cardinality(Again) \in Nat
      /\ Cardinality(Beyond(Matched(row), row, Seen \cup rows, Edge)) \in Nat
      /\ arrivals \in Nat
  <2>1. Seen \cup rows \in SUBSET Ids
    BY <1>1, WalkTypes
  <2>. QED BY <1>1, <1>3, <2>1, WalkTypes, Sides, RowsFinite, FS_CardinalityType DEF WalkInv, TypeOK
<1>6. CASE page < TotalPages(n, perPage)
  <2>1. pc' = "list" /\ page' = page + 1
    BY <1>6 DEF Answer
  <2>2. Matched(row)' = Matched(row)
    BY <1>1 DEF Matched, Matching
  <2>3. Offset' = Edge
    BY <1>1, <2>1, WalkTypes, NextOffset DEF Offset, Edge
  <2>4. /\ Below(Matched(row), row, Unseen, Offset)'
             = Below(Matched(row), row, Unseen \ rows, Edge)
        /\ Beyond(Matched(row), row, Seen, Offset)'
             = Beyond(Matched(row), row, Seen \cup rows, Edge)
    BY <1>1, <1>2, <2>2, <2>3, Zenon
  <2>5. EdgeBefore'
    BY <1>1, <1>3, <1>4, <1>5, <2>4 DEF EdgeBefore
  <2>. QED BY <1>3, <2>1, <2>5 DEF WalkInv, EdgeBehind, LastTold, WalkBounded
<1>7. CASE ~ (page < TotalPages(n, perPage))
  <2>1. pc' = "done"
    BY <1>7 DEF Answer
  <2>2. page >= TotalPages(n, perPage)
    <3>1. TotalPages(n, perPage) \in Int /\ page \in Int
      BY <1>1, WalkTypes DEF TotalPages
    <3>. QED BY <1>7, <3>1
  <2>3. Cardinality(Unseen') <= departures'
    <3>1. Cardinality(Unseen \ rows) <= departures
      BY <2>2
    <3>2. Cardinality(Unseen') = Cardinality(Unseen \ rows)
      BY <1>2, Zenon
    <3>. QED BY <1>1, <3>1, <3>2
  <2>4. Cardinality(Repeats') <= arrivals'
    BY <1>1, <1>3, <1>4, <1>5
  <2>5. WalkBounded'
    BY <2>3, <2>4 DEF WalkBounded, Unseen
  <2>. QED BY <1>3, <2>1, <2>5 DEF WalkInv, EdgeBefore, EdgeBehind, LastTold
<1>. QED BY <1>6, <1>7

\* A page that is the last by the number of the rows ends behind all of them.
LEMMA AllRead ==
  ASSUME ListingInv, page >= TotalPages(Cardinality(Matched(row)), perPage)
  PROVE  \A x \in Matched(row) : Rank(Matched(row), row, x) < Edge
<1>. DEFINE L == Matched(row)
<1>1. L \in SUBSET Ids /\ Cardinality(L) \in Nat /\ Ordered(L, row)
  BY WalkTypes, RowsFinite, MatchedOrdered DEF ListingInv
<1>2. /\ perPage \in Nat \ {0} /\ page \in Nat \ {0} /\ Edge \in Nat
      /\ Edge = (page - 1) * perPage + perPage
  BY WalkTypes DEF ListingInv
<1>. HIDE DEF L
<1>3. Cardinality(L) <= Edge
  BY <1>1, <1>2, LastPage DEF L
<1>4. \A x \in L : Rank(L, row, x) < Cardinality(L) /\ Rank(L, row, x) \in Nat
  BY <1>1, RankOrder, RankType
<1>5. \A x \in L : Rank(L, row, x) < Edge
  BY <1>1, <1>2, <1>3, <1>4
<1>. QED BY <1>5 DEF L

LEMMA CountedAll ==
  ASSUME ListingInv, WalkInv, pc = "count", page >= TotalPages(Cardinality(Matched(row)), perPage)
  PROVE  Cardinality(Unseen \ rows) <= departures
<1>1. Unseen \subseteq Matched(row)
  BY DEF ListingInv, StayedMatch, Unseen
<1>2. Unseen \ rows = Below(Matched(row), row, Unseen \ rows, Edge)
  BY <1>1, AllRead DEF Below
<1>3. Cardinality(Below(Matched(row), row, Unseen \ rows, Edge)) <= departures
  BY DEF WalkInv, EdgeBehind
<1>4. Cardinality(Unseen \ rows) = Cardinality(Below(Matched(row), row, Unseen \ rows, Edge))
  BY <1>2, Zenon
<1>. QED BY <1>3, <1>4

LEMMA CountIsMatched ==
  ASSUME TypeOK, CountRows
  PROVE  total' = Cardinality(Matched(row)) /\ total' \in Nat
<1>1. Matching(row, Counted[kind]) = Matched(row)
  BY SameFilters, ListingAssumption DEF TypeOK, Matched
<1>2. total' = Cardinality(Matched(row))
  BY <1>1 DEF CountRows
<1>. QED BY <1>2, WalkTypes, RowsFinite

LEMMA CountWalk ==
  ASSUME ListingInv, WalkInv, CountRows
  PROVE  WalkInv'
<1>1. pc = "count" /\ UNCHANGED <<query, table, history>>
  BY DEF CountRows
<1>2. total' = Cardinality(Matched(row)) /\ total' \in Nat
  BY CountIsMatched DEF ListingInv
<1>3. page >= TotalPages(total', perPage) => Cardinality(Unseen \ rows) <= departures
  BY <1>1, <1>2, CountedAll
<1>4. CASE Answer(total')
  BY <1>1, <1>2, <1>3, <1>4, AnswerWalk
<1>5. CASE pc' = "codes" /\ UNCHANGED <<page, rows, seen>>
  <2>1. UNCHANGED <<kind, asked, perPage, row, stayed, arrivals, departures>>
    BY <1>1 DEF query, table, history
  <2>2. /\ Matched(row)' = Matched(row) /\ Unseen' = Unseen /\ Seen' = Seen
        /\ Again' = Again /\ Repeats' = Repeats /\ Offset' = Offset /\ Edge' = Edge
    BY <1>5, <2>1 DEF Matched, Matching, Unseen, Seen, Again, Repeats, Offset, Edge
  <2>3. /\ Below(Matched(row), row, Unseen, Offset)' = Below(Matched(row), row, Unseen, Offset)
        /\ Beyond(Matched(row), row, Seen, Offset)' = Beyond(Matched(row), row, Seen, Offset)
        /\ Below(Matched(row), row, Unseen \ rows, Edge)' = Below(Matched(row), row, Unseen \ rows, Edge)
        /\ Beyond(Matched(row), row, Seen \cup rows, Edge)' = Beyond(Matched(row), row, Seen \cup rows, Edge)
        /\ (Unseen \ rows)' = Unseen \ rows
    BY <1>5, <2>1, <2>2, Zenon
  <2>4. EdgeBefore' /\ EdgeBehind'
    BY <1>1, <1>5, <2>1, <2>2, <2>3 DEF WalkInv, EdgeBefore, EdgeBehind
  <2>5. LastTold'
    BY <1>3, <1>5, <2>1, <2>3 DEF LastTold
  <2>. QED BY <1>5, <2>2, <2>4, <2>5 DEF WalkInv, WalkBounded
<1>. QED BY <1>4, <1>5 DEF CountRows

LEMMA CodesWalk ==
  ASSUME ListingInv, WalkInv, ReadCodes
  PROVE  WalkInv'
<1>1. /\ pc = "codes" /\ Answer(total) /\ total \in Nat /\ UNCHANGED <<query, table, history>>
  BY DEF ReadCodes, ListingInv, TypeOK
<1>2. page >= TotalPages(total, perPage) => Cardinality(Unseen \ rows) <= departures
  BY <1>1 DEF WalkInv, LastTold
<1>. QED BY <1>1, <1>2, AnswerWalk

\* A page that failed was shown to nobody.
LEMMA RestWalk ==
  ASSUME ListingInv, WalkInv, UNCHANGED <<query, row, history>>, Fail \/ UNCHANGED answer
  PROVE  WalkInv'
<1>1. /\ UNCHANGED <<kind, asked, perPage, row, page, seen, stayed, arrivals, departures>>
      /\ pc' # "done" => pc # "done"
  BY DEF query, history, Fail, answer
<1>2. /\ Matched(row)' = Matched(row) /\ Unseen' = Unseen /\ Seen' = Seen
      /\ Repeats' = Repeats /\ Offset' = Offset /\ Edge' = Edge
  BY <1>1 DEF Matched, Matching, Unseen, Seen, Repeats, Offset, Edge
<1>3. EdgeBefore'
  <2>1. /\ Below(Matched(row), row, Unseen, Offset)' = Below(Matched(row), row, Unseen, Offset)
        /\ Beyond(Matched(row), row, Seen, Offset)' = Beyond(Matched(row), row, Seen, Offset)
    BY <1>1, <1>2, Zenon
  <2>. QED BY <1>1, <1>2, <2>1 DEF WalkInv, EdgeBefore
<1>4. CASE Fail
  BY <1>2, <1>3, <1>4 DEF Fail, WalkInv, EdgeBehind, LastTold, WalkBounded
<1>5. CASE UNCHANGED answer
  <2>1. UNCHANGED <<pc, rows, total>>
    BY <1>5 DEF answer
  <2>2. Again' = Again
    BY <1>1, <2>1 DEF Again
  <2>3. /\ Below(Matched(row), row, Unseen \ rows, Edge)' = Below(Matched(row), row, Unseen \ rows, Edge)
        /\ Beyond(Matched(row), row, Seen \cup rows, Edge)' = Beyond(Matched(row), row, Seen \cup rows, Edge)
        /\ (Unseen \ rows)' = Unseen \ rows
    BY <1>1, <1>2, <2>1, Zenon
  <2>4. EdgeBehind' /\ LastTold'
    BY <1>1, <1>2, <2>1, <2>2, <2>3 DEF WalkInv, EdgeBehind, LastTold
  <2>5. WalkBounded'
    BY <1>1, <1>2, <2>1 DEF WalkInv, WalkBounded
  <2>. QED BY <1>2, <1>3, <2>4, <2>5 DEF WalkInv
<1>. QED BY <1>4, <1>5

LEMMA WalkStep ==
  ASSUME ListingInv, ListingInv', WalkInv, [Next]_vars
  PROVE  WalkInv'
<1>1. CASE Fail
  BY <1>1, RestWalk DEF Fail, table, query, history
<1>2. ASSUME NEW x \in NewRows, BeginInsert(x) PROVE WalkInv'
  BY <1>2, RestWalk DEF BeginInsert
<1>3. CASE UNCHANGED vars
  BY <1>3, RestWalk DEF vars, table
<1>. QED BY <1>1, <1>2, <1>3, ReadWalk, CountWalk, CodesWalk, WriteWalk, InsertStep, PatchStep,
            DeleteStep, NewIds DEF Next

LEMMA WalkInit == Init => WalkInv
<1>. SUFFICES ASSUME Init PROVE WalkInv
  OBVIOUS
<1>1. Repeats = {}
  <2>1. \A x \in Ids : seen[x] = 0
    BY DEF Init
  <2>2. \A x \in Ids : {x} \X (2 .. seen[x]) = {}
    BY <2>1
  <2>. QED BY <2>2 DEF Repeats
<1>2. TypeOK /\ ListingInv
  BY TypeInit, ListingInit
<1>3. Offset = 0
  BY <1>2, WalkTypes DEF Init
<1>4. \A x \in Matched(row) : Rank(Matched(row), row, x) \in Nat
  BY <1>2, WalkTypes, RankType
<1>5. Below(Matched(row), row, Unseen, Offset) = {}
  BY <1>3, <1>4 DEF Below
<1>6. Beyond(Matched(row), row, Seen, Offset) = {}
  BY DEF Beyond, Seen, Init
<1>. QED BY <1>1, <1>5, <1>6, FS_EmptySet
         DEF WalkInv, EdgeBefore, EdgeBehind, LastTold, WalkBounded, Init

\* The edges of the page are kept by every step: what was missed before them
\* and what was shown behind them stays within what went and what came.
THEOREM WalkInvHolds == Spec => [](ListingInv /\ WalkInv)
<1>1. ListingInv /\ WalkInv /\ [Next]_vars => (ListingInv /\ WalkInv)'
  BY ListingStep, WalkStep
<1>. QED BY <1>1, ListingInit, WalkInit, PTL DEF Spec

\* However rows come and go while a client reads a list: it misses at most one
\* that stayed for each that went, and sees one too often for each that came.
THEOREM WalkBoundedHolds == Spec => []WalkBounded
BY WalkInvHolds, PTL DEF WalkInv

-----------------------------------------------------------------------------
(* The number of the rows *)

LEMMA AnswerQuiet ==
  ASSUME ListingInv, AsRead, pc \in {"count", "codes"}, NEW n, n = Cardinality(Matched(row)),
         total' = n, Answer(n), UNCHANGED <<query, table, history>>
  PROVE  AsRead'
<1>. DEFINE before == Below(Matched(row), row, Ids, Offset)
            behind == Below(Matched(row), row, Ids, Edge)
<1>1. /\ UNCHANGED <<kind, asked, perPage, row>> /\ TypeOK
      /\ seen' = [x \in Ids |-> IF x \in rows THEN seen[x] + 1 ELSE seen[x]]
      /\ seen \in [Ids -> Nat]
  BY DEF query, table, Answer, ListingInv, TypeOK
<1>2. /\ \A x \in Ids : seen[x] = IF x \in before THEN 1 ELSE 0
      /\ rows = behind \cap Beyond(Matched(row), row, Ids, Offset)
  BY DEF AsRead
<1>3. \A x \in Matched(row) : x \in Ids /\ Rank(Matched(row), row, x) \in Nat
  BY <1>1, WalkTypes, RankType
<1>4. \A x \in Ids : x \in behind <=> x \in before \/ x \in rows
  BY <1>1, <1>2, <1>3, WalkTypes DEF Below, Beyond
<1>5. \A x \in Ids : ~ (x \in before /\ x \in rows)
  BY <1>1, <1>2, <1>3, WalkTypes DEF Below, Beyond
<1>6. \A x \in Ids : seen'[x] = IF x \in behind THEN 1 ELSE 0
  <2>. HIDE DEF before, behind
  <2>. QED BY <1>1, <1>2, <1>4, <1>5
<1>7. Matched(row)' = Matched(row)
  BY <1>1 DEF Matched, Matching
<1>8. CASE page < TotalPages(n, perPage)
  <2>1. pc' = "list" /\ page' = page + 1
    BY <1>8 DEF Answer
  <2>2. Offset' = Edge
    BY <1>1, <2>1, WalkTypes, NextOffset DEF Offset, Edge
  <2>3. Below(Matched(row), row, Ids, Offset)' = behind
    BY <1>1, <1>7, <2>2, Zenon
  <2>. HIDE DEF behind
  <2>. QED BY <1>6, <2>1, <2>3 DEF AsRead
<1>9. CASE ~ (page < TotalPages(n, perPage))
  <2>1. pc' = "done"
    BY <1>9 DEF Answer
  <2>2. page >= TotalPages(n, perPage)
    <3>1. n \in Nat /\ perPage \in Nat \ {0} /\ page \in Int
      BY <1>1, WalkTypes, RowsFinite
    <3>2. TotalPages(n, perPage) \in Int
      BY <3>1 DEF TotalPages
    <3>. QED BY <1>9, <3>1, <3>2
  <2>3. behind = Matched(row)
    BY <1>3, <2>2, AllRead DEF Below
  <2>4. {x \in Ids : seen'[x] = 1} = Matched(row)
    <3>. HIDE DEF behind
    <3>. QED BY <1>3, <1>6, <2>3
  <2>5. total' = Cardinality({x \in Ids : seen'[x] = 1})
    BY <2>4, Zenon
  <2>. QED BY <2>1, <2>5 DEF AsRead
<1>. QED BY <1>8, <1>9

LEMMA RestQuiet ==
  ASSUME AsRead, UNCHANGED <<query, row>>, Fail \/ UNCHANGED answer
  PROVE  AsRead'
<1>1. UNCHANGED <<kind, asked, perPage, row, page, seen>> /\ (pc' # "done" => pc # "done")
  BY DEF query, Fail, answer
<1>2. Matched(row)' = Matched(row) /\ Offset' = Offset /\ Edge' = Edge
  BY <1>1 DEF Matched, Matching, Offset, Edge
<1>3. /\ Below(Matched(row), row, Ids, Offset)' = Below(Matched(row), row, Ids, Offset)
      /\ Below(Matched(row), row, Ids, Edge)' = Below(Matched(row), row, Ids, Edge)
      /\ Beyond(Matched(row), row, Ids, Offset)' = Beyond(Matched(row), row, Ids, Offset)
  BY <1>1, <1>2, Zenon
<1>4. CASE Fail
  BY <1>1, <1>3, <1>4 DEF Fail, AsRead
<1>5. CASE UNCHANGED answer
  BY <1>1, <1>2, <1>3, <1>5 DEF answer, AsRead
<1>. QED BY <1>4, <1>5

LEMMA CountersGrow ==
  ASSUME ListingInv, ListingInv', [Next]_vars, arrivals' + departures' = 0
  PROVE  arrivals + departures = 0
<1>1. /\ arrivals \in Nat /\ departures \in Nat /\ arrivals' \in Nat /\ departures' \in Nat
  BY DEF ListingInv, TypeOK
<1>2. CASE UNCHANGED history
  BY <1>2 DEF history
<1>3. ASSUME NEW z \in Ids, OneRow(z, row'), Changed(row') PROVE arrivals + departures = 0
  <2>1. {} \in SUBSET stayed /\ {} \in SUBSET Ids /\ 0 \in Nat
    OBVIOUS
  <2>2. /\ departures' = departures + Cardinality(Matched(row) \ Matched(row'))
        /\ Cardinality(Matched(row) \ Matched(row')) \in Nat
        /\ arrivals' = arrivals + Cardinality(Matched(row') \ Matched(row))
        /\ Cardinality(Matched(row') \ Matched(row)) \in Nat
    BY <1>3, <2>1, Written
  <2>. QED BY <1>1, <2>2
<1>. QED BY <1>2, <1>3, TableStep

LEMMA NothingOfNothing ==
  ASSUME NEW a \in Nat, NEW b \in Nat, a + b = 0
  PROVE  a = 0 /\ b = 0
OBVIOUS

\* A write of which nothing came or went shows nothing.
LEMMA WriteQuiet ==
  ASSUME ListingInv, ListingInv', AsRead, arrivals' + departures' = 0, arrivals + departures = 0,
         NEW z \in Ids, OneRow(z, row'), Changed(row')
  PROVE  AsRead'
<1>1. /\ arrivals \in Nat /\ departures \in Nat /\ arrivals' \in Nat /\ departures' \in Nat
  BY DEF ListingInv, TypeOK
<1>2. {} \in SUBSET stayed /\ {} \in SUBSET Ids /\ 0 \in Nat
  OBVIOUS
<1>3. /\ Matched(row)' = Matched(row')
      /\ UNCHANGED <<kind, asked, perPage, page, pc, rows, total, seen>>
      /\ departures' = departures + Cardinality(Matched(row) \ Matched(row'))
      /\ Cardinality(Matched(row) \ Matched(row')) \in Nat
      /\ arrivals' = arrivals + Cardinality(Matched(row') \ Matched(row))
      /\ Cardinality(Matched(row') \ Matched(row)) \in Nat
  BY <1>2, Written
<1>4. Matched(row) \subseteq Ids /\ Matched(row') \subseteq Ids
  BY DEF Matched, Matching
<1>5. Matched(row') = Matched(row)
  <2>. DEFINE gone == Matched(row) \ Matched(row')
              come == Matched(row') \ Matched(row)
  <2>0. /\ departures' = departures + Cardinality(gone) /\ Cardinality(gone) \in Nat
        /\ arrivals' = arrivals + Cardinality(come) /\ Cardinality(come) \in Nat
    BY <1>3
  <2>2. IsFiniteSet(gone) /\ IsFiniteSet(come)
    BY <1>4, RowsFinite
  <2>. HIDE DEF gone, come
  <2>1. Cardinality(gone) = 0 /\ Cardinality(come) = 0
    <3>1. arrivals = 0 /\ departures = 0 /\ arrivals' = 0 /\ departures' = 0
      BY <1>1, NothingOfNothing
    <3>. QED BY <2>0, <3>1
  <2>3. gone = {} /\ come = {}
    BY <2>1, <2>2, FS_EmptySet
  <2>. QED BY <2>3 DEF gone, come
<1>6. \A y \in Matched(row) : row[y].created = row'[y].created
  <2>1. \A y \in Matched(row) : row[y] # NoRow /\ row'[y] # NoRow /\ y \in Ids
    BY <1>5 DEF Matched, Matching
  <2>. QED BY <2>1 DEF OneRow
<1>7. Offset' = Offset /\ Edge' = Edge
  BY <1>3 DEF Offset, Edge
<1>8. \A n : /\ Below(Matched(row), row, Ids, n) = Below(Matched(row), row', Ids, n)
             /\ Beyond(Matched(row), row, Ids, n) = Beyond(Matched(row), row', Ids, n)
  BY <1>6, BelowFrame
<1>9. /\ Below(Matched(row), row, Ids, Offset)' = Below(Matched(row), row, Ids, Offset)
      /\ Below(Matched(row), row, Ids, Edge)' = Below(Matched(row), row, Ids, Edge)
      /\ Beyond(Matched(row), row, Ids, Offset)' = Beyond(Matched(row), row, Ids, Offset)
      /\ Matched(row)' = Matched(row)
  BY <1>3, <1>5, <1>7, <1>8, Zenon
<1>. QED BY <1>3, <1>9 DEF AsRead

LEMMA QuietStep ==
  ASSUME ListingInv, ListingInv', QuietInv, [Next]_vars
  PROVE  QuietInv'
<1>. SUFFICES ASSUME arrivals' + departures' = 0 PROVE AsRead'
  BY DEF QuietInv
<1>0. arrivals + departures = 0 /\ AsRead
  BY CountersGrow DEF QuietInv
<1>1. CASE ReadPage
  <2>1. /\ UNCHANGED <<kind, asked, perPage, row, page, seen>>
        /\ pc = "list" /\ pc' = "count" /\ rows' = PageRows
    BY <1>1 DEF ReadPage, query, table
  <2>2. Matched(row)' = Matched(row) /\ Offset' = Offset /\ Edge' = Edge
    BY <2>1 DEF Matched, Matching, Offset, Edge
  <2>3. rows' = Below(Matched(row), row, Ids, Edge) \cap Beyond(Matched(row), row, Ids, Offset)
    BY <2>1, PageBetween DEF ListingInv
  <2>4. /\ Below(Matched(row), row, Ids, Offset)' = Below(Matched(row), row, Ids, Offset)
        /\ Below(Matched(row), row, Ids, Edge)' = Below(Matched(row), row, Ids, Edge)
        /\ Beyond(Matched(row), row, Ids, Offset)' = Beyond(Matched(row), row, Ids, Offset)
    BY <2>1, <2>2, Zenon
  <2>. QED BY <1>0, <2>1, <2>3, <2>4 DEF AsRead
<1>2. CASE CountRows
  <2>1. pc = "count" /\ UNCHANGED <<query, table, history>>
    BY <1>2 DEF CountRows
  <2>2. total' = Cardinality(Matched(row))
    BY <1>2, CountIsMatched DEF ListingInv
  <2>3. CASE Answer(total')
    BY <1>0, <2>1, <2>2, <2>3, AnswerQuiet
  <2>4. CASE pc' = "codes" /\ UNCHANGED <<page, rows, seen>>
    <3>1. UNCHANGED <<kind, asked, perPage, row>>
      BY <2>1 DEF query, table
    <3>2. Matched(row)' = Matched(row) /\ Offset' = Offset /\ Edge' = Edge
      BY <2>4, <3>1 DEF Matched, Matching, Offset, Edge
    <3>3. /\ Below(Matched(row), row, Ids, Offset)' = Below(Matched(row), row, Ids, Offset)
          /\ Below(Matched(row), row, Ids, Edge)' = Below(Matched(row), row, Ids, Edge)
          /\ Beyond(Matched(row), row, Ids, Offset)' = Beyond(Matched(row), row, Ids, Offset)
          /\ Cardinality(Matched(row))' = Cardinality(Matched(row))
      BY <3>1, <3>2, Zenon
    <3>. QED BY <1>0, <2>1, <2>2, <2>4, <3>3 DEF AsRead
  <2>. QED BY <1>2, <2>3, <2>4 DEF CountRows
<1>3. CASE ReadCodes
  <2>1. /\ pc = "codes" /\ Answer(total) /\ total' = total /\ UNCHANGED <<query, table, history>>
    BY <1>3 DEF ReadCodes
  <2>2. total = Cardinality(Matched(row))
    BY <1>0, <2>1 DEF AsRead
  <2>. QED BY <1>0, <2>1, <2>2, AnswerQuiet
<1>4. CASE Fail
  BY <1>0, <1>4, RestQuiet DEF Fail, table, query
<1>5. ASSUME NEW x \in NewRows, BeginInsert(x) PROVE AsRead'
  BY <1>0, <1>5, RestQuiet DEF BeginInsert
<1>6. CASE UNCHANGED vars
  BY <1>0, <1>6, RestQuiet DEF vars, table
<1>7. ASSUME NEW z \in Ids, OneRow(z, row'), Changed(row') PROVE AsRead'
  BY <1>0, <1>7, WriteQuiet
<1>. QED BY <1>1, <1>2, <1>3, <1>4, <1>5, <1>6, <1>7, InsertStep, PatchStep, DeleteStep, NewIds
         DEF Next

LEMMA QuietInit == Init => QuietInv
<1>. SUFFICES ASSUME Init PROVE AsRead
  BY DEF QuietInv
<1>1. TypeOK
  BY TypeInit
<1>2. Offset = 0
  BY <1>1, WalkTypes DEF Init
<1>3. \A x \in Matched(row) : Rank(Matched(row), row, x) \in Nat
  BY <1>1, WalkTypes, RankType
<1>4. Below(Matched(row), row, Ids, Offset) = {}
  BY <1>2, <1>3 DEF Below
<1>. QED BY <1>4 DEF AsRead, Init

\* When no row came or went, the number stated by the pages is that of the rows
\* the client was shown: the statements apply the same filters, and the pages
\* that it reads until the last by that number are all there are.
THEOREM TotalAgreesHolds == Spec => []TotalAgrees
<1>1. ListingInv /\ QuietInv /\ [Next]_vars => (ListingInv /\ QuietInv)'
  BY ListingStep, QuietStep
<1>2. QuietInv => TotalAgrees
  BY DEF QuietInv, AsRead, TotalAgrees
<1>. QED BY <1>1, <1>2, ListingInit, QuietInit, PTL DEF Spec
=============================================================================
