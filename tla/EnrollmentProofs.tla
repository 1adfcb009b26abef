-------------------------- MODULE EnrollmentProofs --------------------------
(* Theorems about Enrollment, for any number of requests, batches, etc. *)
EXTENDS Enrollment, FiniteSetTheorems, TLAPS

(***************************************************************************)
(* Counting.  Only finitely many ids exist, so the rows of a batch can be  *)
(* counted.                                                                *)
(***************************************************************************)

LEMMA IdsFinite == IsFiniteSet(Ids)
<1>1. IsFiniteSet({1, 2})
  <2>1. IsFiniteSet({1})
    BY FS_Singleton
  <2>2. IsFiniteSet({1} \cup {2})
    BY <2>1, FS_AddElement
  <2>3. {1} \cup {2} = {1, 2}
    OBVIOUS
  <2>. QED BY <2>2, <2>3
<1>. QED BY <1>1, FS_Product, EnrollmentAssumption DEF Ids

LEMMA ActiveFinite ==
  ASSUME NEW b
  PROVE  /\ IsFiniteSet(Active(b))
         /\ Cardinality(Active(b)) \in Nat
<1>1. Active(b) \subseteq Ids
  BY DEF Active, References
<1>. QED BY <1>1, IdsFinite, FS_Subset, FS_CardinalityType

-----------------------------------------------------------------------------
(* Type correctness. *)

LEMMA InitTypeOK == Init => TypeOK
<1> SUFFICES ASSUME Init PROVE TypeOK
  OBVIOUS
<1>1. NoSnap \in [status : BatchStatus \cup {"deleted"},
                  cap : Caps \cup {NoCap}, active : Nat]
  BY DEF NoSnap
<1>. QED BY <1>1 DEF Init, TypeOK, BatchStatus

LEMMA NewRowType ==
  ASSUME TypeOK, NEW r \in Requests, req[r].student \in Students
  PROVE  NewRow(r) \in Row
BY EnrollmentAssumption DEF TypeOK, NewRow, Row, Status, PaymentStatus

LEMMA VisibleType ==
  ASSUME TypeOK, NEW b \in Batches
  PROVE  Visible(b) \in [status : BatchStatus \cup {"deleted"},
                         cap : Caps \cup {NoCap}, active : Nat]
BY ActiveFinite, EnrollmentAssumption DEF TypeOK, Visible

LEMMA PatchedType ==
  ASSUME NEW row \in Row, NEW cur \in Row, NEW body \in Bodies
  PROVE  Patched(row, cur, body) \in Row
<1>1. /\ body.status \in {Unset, "dropped", "completed"}
      /\ body.payment \in {Unset, "partial", "paid"}
      /\ body.grade \in {Unset, "null", "value"}
  BY EnrollmentAssumption DEF PatchBodies
<1>2. Coalesce(body.status, row.status) \in Status
  BY <1>1 DEF Coalesce, Row, Status
<1>3. Coalesce(body.payment, row.payment) \in PaymentStatus
  BY <1>1 DEF Coalesce, Row, PaymentStatus
<1>4. (IF body.grade = Unset THEN cur.graded ELSE body.grade = "value") \in BOOLEAN
  BY DEF Row
<1>. QED BY <1>2, <1>3, <1>4 DEF Patched, Row

\* What ends a transaction keeps the types of the lock table and the snapshots.
LEMMA EndTxType ==
  ASSUME TypeOK, NEW r \in Requests, EndTx(r)
  PROVE  /\ lock' \in [Keys -> Requests \cup {NoOne}]
         /\ snap' \in [Requests -> [status : BatchStatus \cup {"deleted"},
                                    cap : Caps \cup {NoCap}, active : Nat]]
<1>1. NoSnap \in [status : BatchStatus \cup {"deleted"},
                  cap : Caps \cup {NoCap}, active : Nat]
  BY DEF NoSnap
<1>. QED BY <1>1 DEF TypeOK, EndTx

LEMMA RejectType ==
  ASSUME TypeOK, NEW r \in Requests, NEW a \in Answers, Reject(r, a)
  PROVE  TypeOK'
<1>1. EndTx(r)
  BY DEF Reject
<1>2. /\ lock' \in [Keys -> Requests \cup {NoOne}]
      /\ snap' \in [Requests -> [status : BatchStatus \cup {"deleted"},
                                 cap : Caps \cup {NoCap}, active : Nat]]
  BY <1>1, EndTxType
<1>. QED BY <1>2 DEF TypeOK, Reject, Answer, Goto, db, others

\* Each step of a create request keeps the types.
LEMMA CreateStepType ==
  ASSUME TypeOK, NEW r \in Requests, CreateStep(r) \/ Fail(r)
  PROVE  TypeOK'
<1>1. CASE Begin(r)
  <2>1. Visible(req[r].batch) \in [status : BatchStatus \cup {"deleted"},
                                   cap : Caps \cup {NoCap}, active : Nat]
    BY VisibleType DEF TypeOK
  <2>. QED BY <1>1, <2>1 DEF TypeOK, Begin, Goto, InTx, db, others
<1>2. CASE AcquireLock(r)
  BY <1>2 DEF TypeOK, AcquireLock, Goto, InTx, db, others
<1>3. CASE ReadBatch(r)
  <2>1. CASE Reject(r, "no_batch") \/ Reject(r, "completed")
    BY <2>1, RejectType DEF Answers
  <2>2. CASE UNCHANGED <<db, lock, attempt, req, snap, clash, resp, others>>
             /\ Goto(r, IF snap[r].cap = NoCap THEN "inserting" ELSE "counting")
    BY <2>2 DEF TypeOK, Goto, InTx, db, others
  <2>. QED BY <1>3, <2>1, <2>2 DEF ReadBatch
<1>4. CASE Count(r)
  <2>1. CASE Reject(r, "full")
    BY <2>1, RejectType DEF Answers
  <2>2. CASE UNCHANGED <<db, lock, attempt, req, snap, clash, resp, others>>
             /\ Goto(r, "inserting")
    BY <2>2 DEF TypeOK, Goto, InTx, db, others
  <2>. QED BY <1>4, <2>1, <2>2 DEF Count
<1>5. CASE Insert(r)
  <2>1. CASE Reject(r, "duplicate") \/ Reject(r, "no_student")
    BY <2>1, RejectType DEF Answers
  <2>2. CASE UNCHANGED <<db, lock, attempt, req, snap, clash, resp, others>>
             /\ Goto(r, "committing")
    BY <2>2 DEF TypeOK, Goto, InTx, db, others
  <2>. QED BY <1>5, <2>1, <2>2 DEF Insert
<1>6. CASE Commit(r)
  <2>1. NewRow(r) \in Row
    BY NewRowType DEF TypeOK
  <2>2. enr' \in [Ids -> Row \cup {NoRow}]
    BY <1>6, <2>1 DEF TypeOK, Commit
  <2>3. /\ lock' \in [Keys -> Requests \cup {NoOne}]
        /\ snap' \in [Requests -> [status : BatchStatus \cup {"deleted"},
                                   cap : Caps \cup {NoCap}, active : Nat]]
    BY <1>6, EndTxType DEF Commit
  <2>4. clash' \in [Requests -> {"none", "rival", "missed"}]
    BY <1>6 DEF TypeOK, Commit, Overlap
  <2>5. /\ pc' \in [Requests -> InTx \cup {"new", "backoff", "done"}]
        /\ resp' \in [Requests -> Answers \cup {Unset}]
    BY <1>6 DEF TypeOK, Commit, Answer, Goto, Answers
  <2>. QED BY <1>6, <2>2, <2>3, <2>4, <2>5 DEF TypeOK, Commit, others
<1>7. CASE SerializationFailure(r)
  <2>1. CASE Reject(r, "unserializable")
    BY <2>1, RejectType DEF Answers
  <2>2. CASE /\ EndTx(r)
             /\ clash' = [clash EXCEPT ![r] = "none"]
             /\ attempt' = [attempt EXCEPT ![r] = 2]
             /\ Goto(r, "backoff")
             /\ UNCHANGED <<db, req, resp, others>>
    <3>1. /\ lock' \in [Keys -> Requests \cup {NoOne}]
          /\ snap' \in [Requests -> [status : BatchStatus \cup {"deleted"},
                                     cap : Caps \cup {NoCap}, active : Nat]]
      BY <2>2, EndTxType
    <3>. QED BY <2>2, <3>1 DEF TypeOK, Goto, db, others
  <2>. QED BY <1>7, <2>1, <2>2 DEF SerializationFailure
<1>8. CASE Fail(r)
  BY <1>8, RejectType DEF Fail, Answers
<1>. QED BY <1>1, <1>2, <1>3, <1>4, <1>5, <1>6, <1>7, <1>8 DEF CreateStep

\* A row that an updater holds is a committed one.
HeldExists == \A u \in Updaters : upd[u] # Idle => enr[upd[u].id] # NoRow

\* The steps that are not a create request's leave those requests alone.
LEMMA OtherFrame ==
  ASSUME [Next]_vars,
         ~\E r \in Requests : CreateStep(r) \/ Fail(r)
  PROVE  UNCHANGED create
BY DEF Next, vars, create, db, others, LockRow, ApplyPatch, AbandonPatch,
       ReadTransition, WriteTransition, AbandonTransition, DeleteBatch,
       SetCapacity

\* The only create step that writes a table is a commit.
LEMMA CreateFrame ==
  ASSUME NEW r \in Requests, CreateStep(r) \/ Fail(r), ~Commit(r)
  PROVE  UNCHANGED <<batch, capacity, enr, req, move, upd>>
<1>1. (\E a \in Answers : Reject(r, a))
        => UNCHANGED <<batch, capacity, enr, req, move, upd>>
  BY DEF Reject, db, others
<1>. QED BY <1>1 DEF CreateStep, Begin, AcquireLock, ReadBatch, Count, Insert,
                  SerializationFailure, Fail, Answers, db, others

LEMMA CommitFrame ==
  ASSUME NEW r \in Requests, Commit(r)
  PROVE  UNCHANGED <<batch, capacity, attempt, req, move, upd>>
BY DEF Commit, others

\* The updaters, the admins and the remaining writers keep the types.
LEMMA OtherStepType ==
  ASSUME TypeOK, HeldExists, [Next]_vars,
         ~\E r \in Requests : CreateStep(r) \/ Fail(r)
  PROVE  TypeOK'
<1>1. ASSUME NEW u \in Updaters, LockRow(u)
      PROVE  TypeOK'
  <2>1. upd' \in [Updaters -> [id : Ids, cur : Row] \cup {Idle}]
    BY <1>1 DEF TypeOK, LockRow
  <2>. QED BY <1>1, <2>1 DEF TypeOK, LockRow, db, create
<1>2. ASSUME NEW u \in Updaters, ApplyPatch(u)
      PROVE  TypeOK'
  <2>1. upd[u] \in [id : Ids, cur : Row]
    BY <1>2 DEF TypeOK, ApplyPatch
  <2>2. PICK body \in Bodies :
          enr' = [enr EXCEPT ![upd[u].id] =
                    Patched(enr[upd[u].id], upd[u].cur, body)]
    BY <1>2 DEF ApplyPatch
  <2>3. enr[upd[u].id] \in Row
    BY <1>2, <2>1 DEF TypeOK, HeldExists, ApplyPatch
  <2>4. Patched(enr[upd[u].id], upd[u].cur, body) \in Row
    BY <2>1, <2>3, PatchedType
  <2>. QED BY <1>2, <2>1, <2>2, <2>4 DEF TypeOK, ApplyPatch, create
<1>3. ASSUME NEW u \in Updaters, AbandonPatch(u)
      PROVE  TypeOK'
  BY <1>3 DEF TypeOK, AbandonPatch, db, create
<1>4. ASSUME NEW a \in Admins, ReadTransition(a)
      PROVE  TypeOK'
  BY <1>4 DEF TypeOK, ReadTransition, db, create
<1>5. ASSUME NEW a \in Admins, WriteTransition(a)
      PROVE  TypeOK'
  BY <1>5 DEF TypeOK, WriteTransition, create
<1>6. ASSUME NEW a \in Admins, AbandonTransition(a)
      PROVE  TypeOK'
  BY <1>6 DEF TypeOK, AbandonTransition, db, create
<1>7. ASSUME NEW b \in Batches, DeleteBatch(b)
      PROVE  TypeOK'
  BY <1>7 DEF TypeOK, DeleteBatch, create, others
<1>8. ASSUME NEW c \in Courses, SetCapacity(c)
      PROVE  TypeOK'
  BY <1>8 DEF TypeOK, SetCapacity, create, others
<1>9. CASE UNCHANGED vars
  BY <1>9 DEF TypeOK, vars
<1>. QED BY <1>1, <1>2, <1>3, <1>4, <1>5, <1>6, <1>7, <1>8, <1>9 DEF Next

LEMMA HeldExistsStep ==
  ASSUME TypeOK, HeldExists, [Next]_vars
  PROVE  HeldExists'
<1>1. ASSUME NEW r \in Requests, Commit(r)
      PROVE  HeldExists'
  <2>1. NewRow(r) # NoRow
    BY NewRowType, SentinelAssumption DEF TypeOK
  <2>. QED BY <1>1, <2>1, CommitFrame DEF TypeOK, HeldExists, Commit
<1>2. ASSUME NEW r \in Requests, CreateStep(r) \/ Fail(r), ~Commit(r)
      PROVE  HeldExists'
  BY <1>2, CreateFrame DEF HeldExists
<1>3. ASSUME NEW u \in Updaters, LockRow(u)
      PROVE  HeldExists'
  BY <1>3, SentinelAssumption DEF TypeOK, HeldExists, LockRow, db
<1>4. ASSUME NEW u \in Updaters, ApplyPatch(u)
      PROVE  HeldExists'
  <2>1. upd[u] \in [id : Ids, cur : Row]
    BY <1>4 DEF TypeOK, ApplyPatch
  <2>2. PICK body \in Bodies :
          enr' = [enr EXCEPT ![upd[u].id] =
                    Patched(enr[upd[u].id], upd[u].cur, body)]
    BY <1>4 DEF ApplyPatch
  <2>3. enr[upd[u].id] \in Row
    BY <1>4, <2>1 DEF TypeOK, HeldExists, ApplyPatch
  <2>4. Patched(enr[upd[u].id], upd[u].cur, body) # NoRow
    BY <2>1, <2>3, PatchedType, SentinelAssumption
  <2>. QED BY <1>4, <2>1, <2>2, <2>4 DEF TypeOK, HeldExists, ApplyPatch
<1>5. ASSUME NEW u \in Updaters, AbandonPatch(u)
      PROVE  HeldExists'
  BY <1>5 DEF TypeOK, HeldExists, AbandonPatch, db
<1>6. CASE UNCHANGED <<enr, upd>>
  BY <1>6 DEF HeldExists
<1>. QED BY <1>1, <1>2, <1>3, <1>4, <1>5, <1>6
        DEF Next, vars, ReadTransition, WriteTransition, AbandonTransition,
            DeleteBatch, SetCapacity, db, others

\* Every variable keeps its type; a PATCH only ever rewrites an existing row.
THEOREM TypeCorrect == Spec => [](TypeOK /\ HeldExists)
<1>1. Init => TypeOK /\ HeldExists
  BY InitTypeOK DEF Init, HeldExists
<1>2. TypeOK /\ HeldExists /\ [Next]_vars => (TypeOK /\ HeldExists)'
  BY CreateStepType, OtherStepType, HeldExistsStep
<1>. QED BY <1>1, <1>2, PTL DEF Spec

-----------------------------------------------------------------------------
(***************************************************************************)
(* The row under an updater's lock is the row it read, no two updaters     *)
(* hold one row, and a request has written nothing before it commits.      *)
(***************************************************************************)

HeldCurrent ==
  \A u \in Updaters :
    upd[u] # Idle =>
      /\ enr[upd[u].id] = upd[u].cur
      /\ \A v \in Updaters : upd[v] # Idle /\ upd[v].id = upd[u].id => v = u

Unwritten ==
  \A r \in Requests, n \in {1, 2} : pc[r] # "done" => enr[<<r, n>>] = NoRow

RowInv == TypeOK /\ HeldExists /\ HeldCurrent /\ Unwritten

\* The id that a commit fills was empty.
LEMMA CommitFresh ==
  ASSUME RowInv, NEW r \in Requests, Commit(r)
  PROVE  /\ <<r, attempt[r]>> \in Ids
         /\ enr[<<r, attempt[r]>>] = NoRow
         /\ NewRow(r) \in Row
         /\ NewRow(r) # NoRow
         /\ enr'[<<r, attempt[r]>>] = NewRow(r)
         /\ \A i \in Ids : i # <<r, attempt[r]>> => enr'[i] = enr[i]
BY NewRowType, SentinelAssumption
   DEF RowInv, TypeOK, Unwritten, Commit, Ids

\* What an applied PATCH does to the table.
LEMMA ApplyPatchRow ==
  ASSUME RowInv, NEW u \in Updaters, ApplyPatch(u)
  PROVE  /\ upd[u].id \in Ids
         /\ enr[upd[u].id] \in Row
         /\ \E body \in Bodies :
              /\ Validate(enr[upd[u].id], body)
              /\ Patched(enr[upd[u].id], enr[upd[u].id], body) \in Row
              /\ enr' = [enr EXCEPT ![upd[u].id] =
                           Patched(enr[upd[u].id], enr[upd[u].id], body)]
<1>1. upd[u] \in [id : Ids, cur : Row]
  BY DEF ApplyPatch, RowInv, TypeOK
<1>2. enr[upd[u].id] = upd[u].cur
  BY DEF ApplyPatch, RowInv, HeldCurrent
<1>. QED BY <1>1, <1>2, PatchedType DEF ApplyPatch

\* The tables of enrollments and held rows change in these ways only.
LEMMA RowSteps ==
  ASSUME RowInv, [Next]_vars
  PROVE  \/ \E r \in Requests : Commit(r)
         \/ \E u \in Updaters : ApplyPatch(u)
         \/ \E u \in Updaters : LockRow(u)
         \/ \E u \in Updaters : AbandonPatch(u)
         \/ UNCHANGED <<enr, upd>>
BY CreateFrame
   DEF Next, vars, ReadTransition, WriteTransition, AbandonTransition,
       DeleteBatch, SetCapacity, db, others

LEMMA HeldCurrentStep ==
  ASSUME RowInv, [Next]_vars
  PROVE  HeldCurrent'
<1>1. ASSUME NEW r \in Requests, Commit(r)
      PROVE  HeldCurrent'
  <2>1. \A u \in Updaters : upd[u] # Idle => upd[u].id # <<r, attempt[r]>>
    BY <1>1, CommitFresh DEF RowInv, HeldExists
  <2>2. \A u \in Updaters : upd[u] # Idle => upd[u].id \in Ids
    BY DEF RowInv, TypeOK
  <2>3. \A i \in Ids : i # <<r, attempt[r]>> => enr'[i] = enr[i]
    BY <1>1, CommitFresh
  <2>4. upd' = upd
    BY <1>1, CommitFrame
  <2>. QED BY <2>1, <2>2, <2>3, <2>4 DEF RowInv, HeldCurrent
<1>2. ASSUME NEW u \in Updaters, ApplyPatch(u)
      PROVE  HeldCurrent'
  <2>1. upd' = [upd EXCEPT ![u] = Idle]
    BY <1>2 DEF ApplyPatch
  <2>2. \A v \in Updaters : v # u /\ upd[v] # Idle => upd[v].id # upd[u].id
    BY <1>2 DEF RowInv, HeldCurrent, ApplyPatch
  <2>3. \A i \in Ids : i # upd[u].id => enr'[i] = enr[i]
    BY <1>2, ApplyPatchRow DEF RowInv, TypeOK
  <2>4. \A v \in Updaters : upd[v] # Idle => upd[v].id \in Ids
    BY DEF RowInv, TypeOK
  <2>. QED BY <2>1, <2>2, <2>3, <2>4 DEF RowInv, TypeOK, HeldCurrent
<1>3. ASSUME NEW u \in Updaters, LockRow(u)
      PROVE  HeldCurrent'
  <2>1. PICK i \in Ids : /\ enr[i] # NoRow
                         /\ RowFree(i)
                         /\ upd' = [upd EXCEPT ![u] = [id |-> i, cur |-> enr[i]]]
    BY <1>3 DEF LockRow
  <2>2. enr' = enr
    BY <1>3 DEF LockRow, db
  <2>. QED BY <2>1, <2>2 DEF RowInv, TypeOK, HeldCurrent, RowFree
<1>4. ASSUME NEW u \in Updaters, AbandonPatch(u)
      PROVE  HeldCurrent'
  BY <1>4 DEF RowInv, TypeOK, HeldCurrent, AbandonPatch, db
<1>5. CASE UNCHANGED <<enr, upd>>
  BY <1>5 DEF RowInv, HeldCurrent
<1>. QED BY <1>1, <1>2, <1>3, <1>4, <1>5, RowSteps

\* Which requests finish: a step changes the pc of at most one request, and
\* only a commit finishes it with a row.
LEMMA PcFrame ==
  ASSUME TypeOK, NEW r \in Requests, CreateStep(r) \/ Fail(r)
  PROVE  /\ \A q \in Requests \ {r} : pc'[q] = pc[q]
         /\ pc[r] # "done"
<1>1. ASSUME NEW a \in Answers, Reject(r, a)
      PROVE  \A q \in Requests \ {r} : pc'[q] = pc[q]
  BY <1>1 DEF TypeOK, Reject, Answer, Goto
<1>. QED BY <1>1 DEF TypeOK, CreateStep, Begin, AcquireLock, ReadBatch, Count,
                  Insert, Commit, SerializationFailure, Fail, Answer, Goto,
                  InTx, Answers

LEMMA UnwrittenStep ==
  ASSUME RowInv, [Next]_vars
  PROVE  Unwritten'
<1>1. ASSUME NEW r \in Requests, Commit(r)
      PROVE  Unwritten'
  <2>1. pc'[r] = "done"
    BY <1>1 DEF RowInv, TypeOK, Commit, Answer, Goto
  <2>2. \A q \in Requests \ {r} : pc'[q] = pc[q]
    BY <1>1, PcFrame DEF RowInv, CreateStep
  <2>3. \A q \in Requests \ {r}, n \in {1, 2} : enr'[<<q, n>>] = enr[<<q, n>>]
    <3>1. \A i \in Ids : i # <<r, attempt[r]>> => enr'[i] = enr[i]
      BY <1>1, CommitFresh
    <3>. QED BY <3>1 DEF Ids
  <2>. QED BY <2>1, <2>2, <2>3 DEF RowInv, Unwritten
<1>2. ASSUME NEW r \in Requests, CreateStep(r) \/ Fail(r), ~Commit(r)
      PROVE  Unwritten'
  BY <1>2, CreateFrame, PcFrame DEF RowInv, Unwritten
<1>3. ASSUME ~\E r \in Requests : CreateStep(r) \/ Fail(r)
      PROVE  Unwritten'
  <2>1. pc' = pc
    BY <1>3, OtherFrame DEF create
  <2>2. \A i \in Ids : enr[i] = NoRow => enr'[i] = NoRow
    <3>1. ASSUME NEW u \in Updaters, ApplyPatch(u)
          PROVE  \A i \in Ids : enr[i] = NoRow => enr'[i] = NoRow
      BY <3>1, ApplyPatchRow, SentinelAssumption DEF RowInv, TypeOK
    <3>2. ASSUME ~\E u \in Updaters : ApplyPatch(u)
          PROVE  enr' = enr
      BY <1>3, <3>2, RowSteps DEF LockRow, AbandonPatch, db, CreateStep
    <3>. QED BY <3>1, <3>2
  <2>. QED BY <2>1, <2>2 DEF RowInv, Unwritten, Ids
<1>. QED BY <1>1, <1>2, <1>3

\* Table enrollments is written only by a commit into an empty id, and by a
\* PATCH that validated the very row it rewrites.
THEOREM RowsHeld == Spec => []RowInv
<1>1. Init => RowInv
  BY InitTypeOK DEF Init, RowInv, HeldExists, HeldCurrent, Unwritten, Ids
<1>2. RowInv /\ [Next]_vars => RowInv'
  BY CreateStepType, OtherStepType, HeldExistsStep, HeldCurrentStep,
     UnwrittenStep DEF RowInv
<1>. QED BY <1>1, <1>2, PTL DEF Spec

-----------------------------------------------------------------------------
(* What happens to a row once it is written. *)

\* A validated PATCH moves a row only forward and grades only a completed one.
LEMMA PatchedForward ==
  ASSUME NEW row \in Row, NEW body \in Bodies, Validate(row, body)
  PROVE  LET new == Patched(row, row, body)
         IN  /\ new.student = row.student /\ new.batch = row.batch
             /\ row.status # "enrolled" => new.status = row.status
             /\ PaymentRank[row.payment] <= PaymentRank[new.payment]
             /\ (row.graded => row.status = "completed")
                  => (new.graded => new.status = "completed")
<1>1. /\ body.status \in {Unset, "dropped", "completed"}
      /\ body.payment \in {Unset, "partial", "paid"}
      /\ body.grade \in {Unset, "null", "value"}
  BY EnrollmentAssumption DEF PatchBodies
<1>2. row.status \in Status /\ row.payment \in PaymentStatus
  BY DEF Row
<1>3. row.status # "enrolled" => Coalesce(body.status, row.status) = row.status
  BY <1>1, <1>2 DEF Validate, ValidStatusTransition, Coalesce, Unset
<1>4. PaymentRank[row.payment] <= PaymentRank[Coalesce(body.payment, row.payment)]
  BY <1>1, <1>2 DEF Validate, ValidPaymentTransition, Coalesce, Unset,
                    PaymentRank, PaymentStatus
<1>5. (IF body.grade = Unset THEN row.graded ELSE body.grade = "value")
        => row.graded \/ row.status = "completed"
  BY <1>1 DEF Validate, Unset
<1>. QED BY <1>3, <1>4, <1>5 DEF Patched, Row

\* However PATCHes of one row interleave, it is never removed, never leaves a
\* final status, and its payment never goes back.
THEOREM LedgerHistoryHolds == Spec => LedgerHistory
<1> DEFINE Forward(i) ==
      enr[i] # NoRow =>
        /\ enr'[i] # NoRow
        /\ enr[i].status # "enrolled" => enr'[i].status = enr[i].status
        /\ PaymentRank[enr[i].payment] <= PaymentRank[enr'[i].payment]
<1>1. ASSUME RowInv, [Next]_vars, NEW i \in Ids
      PROVE  Forward(i)
  <2>0. ASSUME enr[i] # NoRow, enr'[i] = enr[i]
        PROVE  Forward(i)
    <3>1. enr[i].payment \in PaymentStatus
      BY <1>1, <2>0 DEF RowInv, TypeOK, Row
    <3>2. PaymentRank[enr[i].payment] \in Nat
      BY <3>1 DEF PaymentRank, PaymentStatus
    <3>. QED BY <2>0, <3>2
  <2>1. ASSUME NEW r \in Requests, Commit(r)
        PROVE  Forward(i)
    BY <1>1, <2>0, <2>1, CommitFresh DEF RowInv, TypeOK
  <2>2. ASSUME NEW u \in Updaters, ApplyPatch(u)
        PROVE  Forward(i)
    <3>1. CASE i # upd[u].id
      BY <1>1, <2>0, <2>2, <3>1, ApplyPatchRow DEF RowInv, TypeOK
    <3>2. CASE i = upd[u].id
      <4>1. PICK body \in Bodies :
              /\ Validate(enr[i], body)
              /\ Patched(enr[i], enr[i], body) \in Row
              /\ enr' = [enr EXCEPT ![i] = Patched(enr[i], enr[i], body)]
        BY <1>1, <2>2, <3>2, ApplyPatchRow
      <4>2. enr[i] \in Row /\ enr'[i] = Patched(enr[i], enr[i], body)
        BY <1>1, <2>2, <3>2, <4>1, ApplyPatchRow DEF RowInv, TypeOK
      <4>. QED BY <4>1, <4>2, PatchedForward, SentinelAssumption
    <3>. QED BY <3>1, <3>2
  <2>3. CASE enr' = enr
    BY <1>1, <2>0, <2>3
  <2>. QED BY <1>1, <2>1, <2>2, <2>3, RowSteps DEF LockRow, AbandonPatch, db
<1>2. RowInv /\ [Next]_vars => [\A i \in Ids : Forward(i)]_vars
  BY <1>1
<1>. QED BY <1>2, RowsHeld, PTL DEF Spec, LedgerHistory

-----------------------------------------------------------------------------
(***************************************************************************)
(* What concurrent enrollments preserve.  The argument has three layers:   *)
(* the advisory lock makes the section from lock to commit exclusive per   *)
(* batch; an INSERT that found its pair and its batch free then keeps both *)
(* until it commits; and a request that has not answered has written       *)
(* nothing, so its answer says what its own last step did.                 *)
(***************************************************************************)

Holding == InTx \ {"waiting"}

LockHeld ==
  \A r \in Requests : pc[r] \in Holding => lock[KeyOf[req[r].batch]] = r

\* An uncommitted INSERT found no committed row of its pair, and none appears.
PairReserved ==
  \A r \in Requests : pc[r] = "committing" => ~PairTaken(r)

\* The foreign key check of an uncommitted INSERT keeps the batch in place.
BatchReserved ==
  \A r \in Requests : pc[r] = "committing" => batch[req[r].batch] # "deleted"

SafeInv ==
  /\ RowInv
  /\ LockHeld
  /\ PairReserved
  /\ OnePerPair
  /\ BatchReserved
  /\ NoOrphan
  /\ GradeOnlyOnCompleted

-----------------------------------------------------------------------------
(* The advisory lock *)

LEMMA LockHeldStep ==
  ASSUME TypeOK, LockHeld, [Next]_vars
  PROVE  LockHeld'
<1>0. /\ \A r \in Requests : KeyOf[req[r].batch] \in Keys
      /\ NoOne \notin Requests
  BY EnrollmentAssumption DEF TypeOK
<1>1. ASSUME NEW r \in Requests, AcquireLock(r)
      PROVE  LockHeld'
  BY <1>0, <1>1 DEF TypeOK, LockHeld, AcquireLock, LockFree, Goto, Holding
<1>2. ASSUME NEW r \in Requests, Begin(r)
      PROVE  LockHeld'
  BY <1>2 DEF TypeOK, LockHeld, Begin, Goto, Holding
<1>3. ASSUME NEW r \in Requests, EndTx(r), req' = req, pc'[r] \notin Holding,
             \A q \in Requests \ {r} : pc'[q] = pc[q]
      PROVE  LockHeld'
  BY <1>0, <1>3 DEF TypeOK, LockHeld, EndTx
<1>4. ASSUME NEW r \in Requests, NEW a \in Answers, Reject(r, a)
      PROVE  LockHeld'
  BY <1>3, <1>4 DEF TypeOK, Reject, Answer, Goto, Holding, InTx
<1>5. ASSUME NEW r \in Requests, Commit(r)
      PROVE  LockHeld'
  BY <1>3, <1>5 DEF TypeOK, Commit, Answer, Goto, Holding, InTx
<1>6. ASSUME NEW r \in Requests, SerializationFailure(r)
      PROVE  LockHeld'
  BY <1>3, <1>4, <1>6
     DEF TypeOK, SerializationFailure, Goto, Holding, InTx, Answers
<1>7. ASSUME NEW r \in Requests, UNCHANGED <<lock, req>>, pc[r] \in Holding,
             \A q \in Requests \ {r} : pc'[q] = pc[q]
      PROVE  LockHeld'
  BY <1>7 DEF LockHeld
<1>8. ASSUME NEW r \in Requests, ReadBatch(r) \/ Count(r) \/ Insert(r)
      PROVE  LockHeld'
  BY <1>4, <1>7, <1>8
     DEF TypeOK, ReadBatch, Count, Insert, Goto, Holding, InTx, Answers
<1>9. ASSUME NEW r \in Requests, Fail(r)
      PROVE  LockHeld'
  BY <1>4, <1>9 DEF Fail, Answers
<1>10. ASSUME ~\E r \in Requests : CreateStep(r) \/ Fail(r)
       PROVE  LockHeld'
  BY <1>10, OtherFrame DEF LockHeld, create
<1>. QED BY <1>1, <1>2, <1>5, <1>6, <1>8, <1>9, <1>10 DEF CreateStep

\* Two requests for one batch are never both past the lock.
LEMMA Exclusive ==
  ASSUME LockHeld, NEW r \in Requests, NEW q \in Requests,
         pc[r] \in Holding, pc[q] \in Holding, req[r].batch = req[q].batch
  PROVE  r = q
BY DEF LockHeld

-----------------------------------------------------------------------------
(* What an uncommitted INSERT relies on *)

\* The step that makes an INSERT uncommitted checked its pair and its batch.
LEMMA BecomesCommitting ==
  ASSUME TypeOK, [Next]_vars, NEW q \in Requests, pc'[q] = "committing"
  PROVE  /\ req' = req
         /\ \/ pc[q] = "committing"
            \/ ~PairTaken(q) /\ batch[req[q].batch] # "deleted"
               /\ UNCHANGED <<enr, batch>>
<1>0. req' = req
  BY CreateFrame, CommitFrame, OtherFrame DEF create
<1>1. ASSUME NEW r \in Requests, CreateStep(r) \/ Fail(r), r # q
      PROVE  pc[q] = "committing"
  BY <1>1, PcFrame
<1>2. ASSUME CreateStep(q) \/ Fail(q)
      PROVE  Insert(q) /\ ~PairTaken(q) /\ UNCHANGED <<enr, batch>>
  <2>1. ASSUME NEW a \in Answers, Reject(q, a)
        PROVE  FALSE
    BY <2>1 DEF TypeOK, Reject, Answer, Goto
  <2>. QED BY <1>2, <2>1
           DEF TypeOK, CreateStep, Begin, AcquireLock, ReadBatch, Count,
               Insert, Commit, SerializationFailure, Fail, Answer, Goto,
               Answers, db
<1>3. ASSUME ~\E r \in Requests : CreateStep(r) \/ Fail(r)
      PROVE  pc[q] = "committing"
  BY <1>3, OtherFrame DEF create
<1>. QED BY <1>0, <1>1, <1>2, <1>3 DEF Insert

\* A row keeps its student and its batch for good.
LEMMA RowIdentity ==
  ASSUME RowInv, [Next]_vars, ~\E r \in Requests : Commit(r), NEW i \in Ids
  PROVE  /\ enr'[i] # NoRow <=> enr[i] # NoRow
         /\ enr[i] # NoRow => /\ enr'[i].student = enr[i].student
                              /\ enr'[i].batch = enr[i].batch
<1>1. ASSUME NEW u \in Updaters, ApplyPatch(u)
      PROVE  /\ enr'[i] # NoRow <=> enr[i] # NoRow
             /\ enr[i] # NoRow => /\ enr'[i].student = enr[i].student
                                  /\ enr'[i].batch = enr[i].batch
  BY <1>1, ApplyPatchRow, PatchedForward, SentinelAssumption
     DEF RowInv, TypeOK
<1>2. CASE enr' = enr
  BY <1>2
<1>. QED BY <1>1, <1>2, RowSteps DEF LockRow, AbandonPatch, db

LEMMA PairStep ==
  ASSUME SafeInv, [Next]_vars
  PROVE  PairReserved' /\ OnePerPair'
<1>1. ASSUME NEW r \in Requests, Commit(r)
      PROVE  PairReserved' /\ OnePerPair'
  <2>1. /\ pc[r] = "committing" /\ ~PairTaken(r) /\ req' = req
        /\ pc'[r] = "done"
    BY <1>1, CommitFrame
       DEF SafeInv, PairReserved, Commit, RowInv, TypeOK, Answer, Goto
  <2>2. \A i \in Ids : i # <<r, attempt[r]>> => enr'[i] = enr[i]
    BY <1>1, CommitFresh DEF SafeInv
  <2>3. /\ <<r, attempt[r]>> \in Ids
        /\ enr'[<<r, attempt[r]>>] = NewRow(r)
    BY <1>1, CommitFresh DEF SafeInv
  <2>4. \A i \in Ids : enr[i] # NoRow => ~SamePair(r, enr[i])
    BY <2>1 DEF PairTaken
  <2>5. OnePerPair'
    BY <2>2, <2>3, <2>4 DEF SafeInv, OnePerPair, SamePair, NewRow
  <2>6. ASSUME NEW q \in Requests, pc'[q] = "committing"
        PROVE  ~PairTaken(q)'
    <3>1. q # r /\ pc[q] = "committing"
      BY <1>1, <2>1, <2>6, PcFrame DEF SafeInv, RowInv, CreateStep
    <3>2. req[q].batch # req[r].batch
      BY <2>1, <3>1, Exclusive DEF SafeInv, Holding, InTx
    <3>3. ~SamePair(q, NewRow(r))
      BY <3>2 DEF SamePair, NewRow
    <3>4. \A i \in Ids : enr[i] # NoRow => ~SamePair(q, enr[i])
      BY <3>1 DEF SafeInv, PairReserved, PairTaken
    <3>5. \A i \in Ids : enr'[i] # NoRow => ~SamePair(q, enr'[i])
      BY <2>2, <2>3, <3>3, <3>4
    <3>. QED BY <2>1, <3>5 DEF PairTaken, SamePair
  <2>. QED BY <2>5, <2>6 DEF PairReserved
<1>2. ASSUME ~\E r \in Requests : Commit(r)
      PROVE  PairReserved' /\ OnePerPair'
  <2>1. OnePerPair'
    BY <1>2, RowIdentity DEF SafeInv, OnePerPair
  <2>2. ASSUME NEW q \in Requests, pc'[q] = "committing"
        PROVE  ~PairTaken(q)'
    <3>1. ~PairTaken(q) /\ req' = req
      BY <2>2, BecomesCommitting DEF SafeInv, RowInv, PairReserved
    <3>. QED BY <1>2, <3>1, RowIdentity DEF SafeInv, PairTaken, SamePair
  <2>. QED BY <2>1, <2>2 DEF PairReserved
<1>. QED BY <1>1, <1>2

\* A batch disappears only through DeleteBatch.
LEMMA BatchFrame ==
  ASSUME TypeOK, [Next]_vars, NEW b \in Batches,
         batch[b] # "deleted", batch'[b] = "deleted"
  PROVE  DeleteBatch(b)
<1>1. ASSUME NEW a \in Admins, WriteTransition(a)
      PROVE  FALSE
  BY <1>1 DEF TypeOK, WriteTransition, BatchStatus
<1>2. ASSUME NEW c \in Batches, DeleteBatch(c)
      PROVE  c = b
  BY <1>2 DEF TypeOK, DeleteBatch
<1>. QED BY <1>1, <1>2, CreateFrame, CommitFrame
        DEF Next, vars, LockRow, ApplyPatch, AbandonPatch, ReadTransition,
            AbandonTransition, SetCapacity, db

LEMMA BatchStep ==
  ASSUME SafeInv, [Next]_vars
  PROVE  BatchReserved' /\ NoOrphan'
<1>1. ASSUME NEW q \in Requests, pc'[q] = "committing"
      PROVE  batch'[req'[q].batch] # "deleted"
  <2>1. req' = req /\ req[q].batch \in Batches
    BY <1>1, BecomesCommitting DEF SafeInv, RowInv, TypeOK
  <2>2. batch[req[q].batch] # "deleted"
    BY <1>1, BecomesCommitting DEF SafeInv, RowInv, BatchReserved
  <2>3. CASE DeleteBatch(req[q].batch)
    <3>1. pc[q] = "committing"
      BY <1>1, <2>3 DEF DeleteBatch, create
    <3>. QED BY <2>3, <3>1 DEF DeleteBatch
  <2>. QED BY <2>1, <2>2, <2>3, BatchFrame DEF SafeInv, RowInv
<1>2. ASSUME NEW i \in Ids, enr'[i] # NoRow
      PROVE  batch'[enr'[i].batch] # "deleted"
  <2>1. ASSUME NEW r \in Requests, Commit(r)
        PROVE  batch'[enr'[i].batch] # "deleted"
    <3>1. batch' = batch
      BY <2>1, CommitFrame
    <3>2. CASE i = <<r, attempt[r]>>
      <4>1. enr'[i].batch = req[r].batch
        <5>1. enr'[i] = NewRow(r)
          BY <2>1, <3>2, CommitFresh DEF SafeInv
        <5>. QED BY <5>1 DEF NewRow
      <4>2. batch[req[r].batch] # "deleted"
        BY <2>1 DEF SafeInv, BatchReserved, Commit
      <4>. QED BY <3>1, <4>1, <4>2
    <3>3. CASE i # <<r, attempt[r]>>
      BY <1>2, <2>1, <3>1, <3>3, CommitFresh DEF SafeInv, NoOrphan
    <3>. QED BY <3>2, <3>3
  <2>2. ASSUME ~\E r \in Requests : Commit(r)
        PROVE  batch'[enr'[i].batch] # "deleted"
    <3>1. enr[i] # NoRow /\ enr'[i].batch = enr[i].batch
      BY <1>2, <2>2, RowIdentity DEF SafeInv
    <3>2. enr[i].batch \in Batches /\ batch[enr[i].batch] # "deleted"
      BY <3>1 DEF SafeInv, RowInv, TypeOK, Row, NoOrphan
    <3>3. ~DeleteBatch(enr[i].batch)
      BY <3>1 DEF DeleteBatch, References
    <3>. QED BY <3>1, <3>2, <3>3, BatchFrame DEF SafeInv, RowInv
  <2>. QED BY <2>1, <2>2
<1>. QED BY <1>1, <1>2 DEF BatchReserved, NoOrphan

LEMMA GradeStep ==
  ASSUME SafeInv, [Next]_vars
  PROVE  GradeOnlyOnCompleted'
<1>1. ASSUME NEW r \in Requests, Commit(r)
      PROVE  GradeOnlyOnCompleted'
  <2>1. ~enr'[<<r, attempt[r]>>].graded
    <3>1. enr'[<<r, attempt[r]>>] = NewRow(r)
      BY <1>1, CommitFresh DEF SafeInv
    <3>. QED BY <3>1 DEF NewRow
  <2>2. \A i \in Ids : i # <<r, attempt[r]>> => enr'[i] = enr[i]
    BY <1>1, CommitFresh DEF SafeInv
  <2>. QED BY <2>1, <2>2 DEF SafeInv, GradeOnlyOnCompleted
<1>2. ASSUME NEW u \in Updaters, ApplyPatch(u)
      PROVE  GradeOnlyOnCompleted'
  <2>1. PICK body \in Bodies :
          /\ Validate(enr[upd[u].id], body)
          /\ Patched(enr[upd[u].id], enr[upd[u].id], body) \in Row
          /\ enr' = [enr EXCEPT ![upd[u].id] =
                       Patched(enr[upd[u].id], enr[upd[u].id], body)]
    BY <1>2, ApplyPatchRow DEF SafeInv
  <2>2. upd[u].id \in Ids /\ enr[upd[u].id] \in Row
    BY <1>2, ApplyPatchRow DEF SafeInv
  <2>3. LET new == Patched(enr[upd[u].id], enr[upd[u].id], body)
        IN  new.graded => new.status = "completed"
    BY <2>1, <2>2, PatchedForward, SentinelAssumption
       DEF SafeInv, GradeOnlyOnCompleted
  <2>4. \A i \in Ids : i # upd[u].id => enr'[i] = enr[i]
    BY <2>1, <2>2 DEF SafeInv, RowInv, TypeOK
  <2>5. enr'[upd[u].id] = Patched(enr[upd[u].id], enr[upd[u].id], body)
    BY <2>1, <2>2 DEF SafeInv, RowInv, TypeOK
  <2>. QED BY <2>3, <2>4, <2>5 DEF SafeInv, GradeOnlyOnCompleted
<1>3. CASE enr' = enr
  BY <1>3 DEF SafeInv, GradeOnlyOnCompleted
<1>. QED BY <1>1, <1>2, <1>3, RowSteps
        DEF SafeInv, LockRow, AbandonPatch, db

\* The inductive invariant of the service.
THEOREM SafeInvHolds == Spec => []SafeInv
<1>1. Init => SafeInv
  <2> SUFFICES ASSUME Init PROVE SafeInv
    OBVIOUS
  <2>1. RowInv
    BY InitTypeOK DEF Init, RowInv, HeldExists, HeldCurrent, Unwritten, Ids
  <2>. QED BY <2>1
           DEF Init, SafeInv, LockHeld, PairReserved, OnePerPair,
               BatchReserved, NoOrphan, GradeOnlyOnCompleted, Holding, InTx
<1>2. SafeInv /\ [Next]_vars => SafeInv'
  <2> SUFFICES ASSUME SafeInv, [Next]_vars PROVE SafeInv'
    OBVIOUS
  <2>1. RowInv'
    BY CreateStepType, OtherStepType, HeldExistsStep, HeldCurrentStep,
       UnwrittenStep DEF SafeInv, RowInv
  <2>2. LockHeld'
    BY LockHeldStep DEF SafeInv, RowInv
  <2>. QED BY <2>1, <2>2, PairStep, BatchStep, GradeStep DEF SafeInv
<1>. QED BY <1>1, <1>2, PTL DEF Spec

\* A student never gets two rows in one batch, over all requests and retries.
THEOREM OnePerPairHolds == Spec => []OnePerPair
<1>1. SafeInv => OnePerPair
  BY DEF SafeInv
<1>. QED BY <1>1, SafeInvHolds, PTL

\* No enrollment ever loses its batch to a concurrent deletion.
THEOREM NoOrphanHolds == Spec => []NoOrphan
<1>1. SafeInv => NoOrphan
  BY DEF SafeInv
<1>. QED BY <1>1, SafeInvHolds, PTL

\* Final grades sit on completed enrollments only.
THEOREM GradeHolds == Spec => []GradeOnlyOnCompleted
<1>1. SafeInv => GradeOnlyOnCompleted
  BY DEF SafeInv
<1>. QED BY <1>1, SafeInvHolds, PTL

-----------------------------------------------------------------------------
(* What the client is told *)

\* There is no answer before the end.
AnswerAtEnd == \A r \in Requests : pc[r] # "done" => resp[r] = Unset

AnswerInv ==
  /\ SafeInv
  /\ AnswerAtEnd
  /\ AnswerMatchesLedger
  /\ DuplicateIsAnothers

\* The response of a request is written by its own last step, and says what that
\* step saw.
LEMMA WhoAnswers ==
  ASSUME TypeOK, AnswerAtEnd, [Next]_vars, NEW r \in Requests, ~Commit(r)
  PROVE  \/ resp'[r] = resp[r] /\ (pc'[r] = "done" => pc[r] = "done")
         \/ /\ pc[r] # "done" /\ pc'[r] = "done"
            /\ resp'[r] \in Answers \ {"created"}
            /\ resp'[r] = "duplicate" => Insert(r) /\ PairTaken(r)
            /\ enr' = enr
<1>1. ASSUME NEW q \in Requests \ {r}, CreateStep(q) \/ Fail(q)
      PROVE  resp'[r] = resp[r] /\ pc'[r] = pc[r]
  <2>1. ASSUME NEW a \in Answers, Reject(q, a)
        PROVE  resp'[r] = resp[r]
    BY <1>1, <2>1 DEF TypeOK, Reject, Answer
  <2>2. resp'[r] = resp[r]
    BY <1>1, <2>1 DEF TypeOK, CreateStep, Begin, AcquireLock, ReadBatch, Count, Insert,
                      Commit, SerializationFailure, Fail, Answer, Answers
  <2>. QED BY <1>1, <2>2, PcFrame
<1>2. ASSUME NEW a \in Answers, Reject(r, a)
      PROVE  pc'[r] = "done" /\ resp'[r] = a /\ enr' = enr
  BY <1>2 DEF TypeOK, Reject, Answer, Goto, db
<1>3. CASE Begin(r) \/ AcquireLock(r)
  BY <1>3 DEF TypeOK, Begin, AcquireLock, Goto
<1>4. CASE ReadBatch(r) \/ Count(r)
  BY <1>2, <1>4 DEF TypeOK, ReadBatch, Count, Goto, Answers
<1>5. CASE Insert(r)
  BY <1>2, <1>5 DEF TypeOK, Insert, Goto, Answers
<1>6. CASE SerializationFailure(r)
  BY <1>2, <1>6 DEF TypeOK, SerializationFailure, Goto, Answers, InTx
<1>7. CASE Fail(r)
  BY <1>2, <1>7 DEF Fail, Answers
<1>8. CASE ~\E q \in Requests : CreateStep(q) \/ Fail(q)
  BY <1>8, OtherFrame DEF create
<1>. QED BY <1>1, <1>3, <1>4, <1>5, <1>6, <1>7, <1>8 DEF CreateStep

\* Who has not answered has written nothing, and no step but its commit writes.
LEMMA WrittenStep ==
  ASSUME SafeInv, [Next]_vars, NEW r \in Requests
  PROVE  /\ pc[r] # "done" => Written(r) = {}
         /\ ~Commit(r) => Written(r)' = Written(r)
         /\ Commit(r) => Written(r)' = {<<r, attempt[r]>>}
<1>1. pc[r] # "done" => Written(r) = {}
  <2>1. ASSUME pc[r] # "done", NEW i \in Ids, i[1] = r
        PROVE  enr[i] = NoRow
    <3>1. i = <<r, i[2]>> /\ i[2] \in {1, 2}
      BY <2>1 DEF Ids
    <3>2. enr[<<r, i[2]>>] = NoRow
      BY <2>1, <3>1 DEF SafeInv, RowInv, Unwritten
    <3>. QED BY <3>1, <3>2
  <2>. QED BY <2>1 DEF Written
<1>2. ASSUME NEW q \in Requests, Commit(q)
      PROVE  /\ q # r => Written(r)' = Written(r)
             /\ q = r => Written(r)' = {<<r, attempt[r]>>}
  <2>1. /\ <<q, attempt[q]>> \in Ids
        /\ enr'[<<q, attempt[q]>>] # NoRow
        /\ \A i \in Ids : i # <<q, attempt[q]>> => enr'[i] = enr[i]
    BY <1>2, CommitFresh DEF SafeInv
  <2>2. CASE q # r
    BY <2>1, <2>2 DEF Written
  <2>3. CASE q = r
    <3>1. pc[r] # "done"
      BY <1>2, <2>3 DEF Commit
    <3>2. Written(r) = {}
      BY <1>1, <3>1
    <3>. QED BY <2>1, <2>3, <3>2 DEF Written
  <2>. QED BY <2>2, <2>3
<1>3. ASSUME ~\E q \in Requests : Commit(q)
      PROVE  Written(r)' = Written(r)
  BY <1>3, RowIdentity DEF SafeInv, Written
<1>. QED BY <1>1, <1>2, <1>3

LEMMA AnswerStep ==
  ASSUME AnswerInv, [Next]_vars
  PROVE  AnswerAtEnd' /\ AnswerMatchesLedger'
<1> SUFFICES ASSUME NEW r \in Requests
             PROVE  /\ pc'[r] # "done" => resp'[r] = Unset
                    /\ resp'[r] = "created" => Cardinality(Written(r)') = 1
                    /\ resp'[r] \notin {"created", "error"} => Written(r)' = {}
  BY DEF AnswerAtEnd, AnswerMatchesLedger
<1>1. CASE Commit(r)
  <2>1. pc'[r] = "done" /\ resp'[r] \in {"created", "error"}
    BY <1>1 DEF AnswerInv, SafeInv, RowInv, TypeOK, Commit, Answer, Goto
  <2>2. Cardinality(Written(r)') = 1
    BY <1>1, WrittenStep, FS_Singleton DEF AnswerInv
  <2>. QED BY <2>1, <2>2
<1>2. CASE ~Commit(r)
  <2>1. Written(r)' = Written(r)
    BY <1>2, WrittenStep DEF AnswerInv
  <2>2. CASE resp'[r] = resp[r] /\ (pc'[r] = "done" => pc[r] = "done")
    <3>1. ASSUME pc'[r] # "done"
          PROVE  resp[r] = Unset
      <4>1. CASE pc[r] # "done"
        BY <4>1 DEF AnswerInv, AnswerAtEnd
      <4>2. CASE pc[r] = "done"
        <5>1. ~(CreateStep(r) \/ Fail(r))
          BY <4>2, PcFrame DEF AnswerInv, SafeInv, RowInv
        <5>2. pc'[r] = pc[r]
          BY <5>1, PcFrame, OtherFrame DEF AnswerInv, SafeInv, RowInv, create
        <5>. QED BY <3>1, <4>2, <5>2
      <4>. QED BY <4>1, <4>2
    <3>. QED BY <2>1, <2>2, <3>1 DEF AnswerInv, AnswerMatchesLedger
  <2>3. CASE pc[r] # "done" /\ pc'[r] = "done" /\ resp'[r] \in Answers \ {"created"}
    <3>1. Written(r) = {}
      BY <2>3, WrittenStep DEF AnswerInv
    <3>. QED BY <2>1, <2>3, <3>1
  <2>. QED BY <1>2, <2>2, <2>3, WhoAnswers DEF AnswerInv, SafeInv, RowInv
<1>. QED BY <1>1, <1>2

\* A row that refused a request stays where it is.
LEMMA PairStays ==
  ASSUME SafeInv, [Next]_vars, NEW r \in Requests, NEW i \in Ids,
         enr[i] # NoRow, SamePair(r, enr[i])
  PROVE  (enr[i] # NoRow /\ SamePair(r, enr[i]))'
<1>1. req' = req
  BY CreateFrame, CommitFrame, OtherFrame DEF create
<1>2. ASSUME NEW q \in Requests, Commit(q)
      PROVE  enr'[i] = enr[i]
  BY <1>2, CommitFresh DEF SafeInv
<1>3. ASSUME ~\E q \in Requests : Commit(q)
      PROVE  /\ enr'[i] # NoRow
             /\ enr'[i].student = enr[i].student /\ enr'[i].batch = enr[i].batch
  BY <1>3, RowIdentity DEF SafeInv
<1>. QED BY <1>1, <1>2, <1>3 DEF SamePair

LEMMA DuplicateStep ==
  ASSUME AnswerInv, [Next]_vars
  PROVE  DuplicateIsAnothers'
<1> SUFFICES ASSUME NEW r \in Requests, resp'[r] = "duplicate"
             PROVE  (\E i \in Ids : enr[i] # NoRow /\ i[1] # r /\ SamePair(r, enr[i]))'
  BY DEF DuplicateIsAnothers, SamePair
<1>1. ~Commit(r)
  BY DEF AnswerInv, SafeInv, RowInv, TypeOK, Commit, Answer
<1>2. CASE resp[r] = "duplicate"
  BY <1>2, PairStays DEF AnswerInv, DuplicateIsAnothers
<1>3. CASE Insert(r) /\ PairTaken(r)
  <2>1. PICK i \in Ids : enr[i] # NoRow /\ SamePair(r, enr[i])
    BY <1>3 DEF PairTaken
  <2>2. Written(r) = {}
    BY <1>3, WrittenStep DEF Insert, AnswerInv
  <2>3. i[1] # r
    BY <2>1, <2>2 DEF Written
  <2>. QED BY <2>1, <2>3, PairStays DEF AnswerInv
<1>. QED BY <1>1, <1>2, <1>3, WhoAnswers DEF AnswerInv, SafeInv, RowInv

LEMMA AnswerInvHolds == Spec => []AnswerInv
<1>1. Init => AnswerAtEnd /\ AnswerMatchesLedger /\ DuplicateIsAnothers
  BY DEF Init, AnswerAtEnd, AnswerMatchesLedger, DuplicateIsAnothers, Written, Ids, Unset
<1>2. AnswerInv /\ [Next]_vars => AnswerAtEnd' /\ AnswerMatchesLedger' /\ DuplicateIsAnothers'
  BY AnswerStep, DuplicateStep
<1>3. SafeInv /\ AnswerAtEnd /\ AnswerMatchesLedger /\ DuplicateIsAnothers <=> AnswerInv
  BY DEF AnswerInv
<1>. QED BY <1>1, <1>2, <1>3, SafeInvHolds, PTL DEF Spec

\* A 201 stands for one row and a refusal for none, on either attempt and for any
\* number of rivals.
THEOREM AnswerMatchesLedgerHolds == Spec => []AnswerMatchesLedger
<1>1. AnswerInv => AnswerMatchesLedger
  BY DEF AnswerInv
<1>. QED BY <1>1, AnswerInvHolds, PTL

\* A retry never collides with what its own first attempt wrote.
THEOREM DuplicateIsAnothersHolds == Spec => []DuplicateIsAnothers
<1>1. AnswerInv => DuplicateIsAnothers
  BY DEF AnswerInv
<1>. QED BY <1>1, AnswerInvHolds, PTL

\* Whoever holds the advisory lock with a fresh snapshot keeps a fresh one: only
\* a commit into the same batch could outdate it, and that needs the lock.
THEOREM HolderStaysFreshHolds == Spec => HolderStaysFresh
<1> DEFINE Fresh(r) ==
      pc[r] \in InTx \ {"waiting"} /\ clash[r] # "missed" => clash'[r] # "missed"
<1>1. ASSUME SafeInv, [Next]_vars, NEW r \in Requests
      PROVE  Fresh(r)
  <2> SUFFICES ASSUME pc[r] \in InTx \ {"waiting"}, clash[r] # "missed"
               PROVE  clash'[r] # "missed"
    OBVIOUS
  <2>1. ASSUME NEW q \in Requests, Commit(q)
        PROVE  clash'[r] # "missed"
    <3>1. pc[q] \in Holding /\ pc[r] \in Holding
      BY <2>1 DEF Commit, Holding, InTx
    <3>2. req[q].batch = req[r].batch => q = r
      BY <1>1, <3>1, Exclusive DEF SafeInv
    <3>. QED BY <2>1, <3>2 DEF Commit, Overlap
  <2>2. ASSUME NEW q \in Requests, CreateStep(q) \/ Fail(q), ~Commit(q)
        PROVE  clash'[r] # "missed"
    <3>1. ASSUME NEW a \in Answers, Reject(q, a)
          PROVE  clash'[r] # "missed"
      BY <1>1, <3>1 DEF SafeInv, RowInv, TypeOK, Reject
    <3>. QED BY <1>1, <2>2, <3>1
             DEF SafeInv, RowInv, TypeOK, CreateStep, Begin, AcquireLock, ReadBatch, Count,
                 Insert, SerializationFailure, Fail, Answers
  <2>3. ASSUME ~\E q \in Requests : CreateStep(q) \/ Fail(q)
        PROVE  clash'[r] # "missed"
    BY <1>1, <2>3, OtherFrame DEF create
  <2>. QED BY <2>1, <2>2, <2>3
<1>2. SafeInv /\ [Next]_vars => [\A r \in Requests : Fresh(r)]_vars
  BY <1>1
<1>. QED BY <1>2, SafeInvHolds, PTL DEF Spec, HolderStaysFresh

-----------------------------------------------------------------------------
(***************************************************************************)
(* When two contend.  An attempt is aborted because of a commit of the     *)
(* other, which is then over, or because its batch was deleted, which its  *)
(* second attempt sees.  Nothing is left to abort that one, unless another *)
(* batch may be deleted than the one that was enrolled in.                 *)
(***************************************************************************)

TwoContend == \A p, q, r \in Requests : p = q \/ q = r \/ p = r

BatchesStay == (\A b, c \in Batches : b = c) \/ Batches \subseteq Scheduled

OtherWrote(r) == \E q \in Requests \ {r} : pc[q] = "done" /\ Written(q) # {}

\* The batch is gone, and the second attempt has seen it or will.
SeesItGone(r) ==
  /\ batch[req[r].batch] = "deleted"
  /\ pc[r] \in {"backoff", "waiting", "locked"}
  /\ pc[r] # "backoff" => snap[r].status = "deleted"

RetryInv ==
  /\ \A b \in Scheduled : batch[b] # "deleted"
  /\ \A r \in Requests :
       /\ pc[r] \notin InTx => clash[r] = "none"
       /\ clash[r] # "none" => OtherWrote(r)
       /\ attempt[r] = 2 /\ pc[r] # "done" =>
            clash[r] = "none" /\ (OtherWrote(r) \/ SeesItGone(r))
       /\ resp[r] # "unserializable"

\* A deleted batch stays deleted, and one with a schedule is never deleted.
LEMMA GoneStays ==
  ASSUME SafeInv, RetryInv, [Next]_vars
  PROVE  /\ \A b \in Batches : batch[b] = "deleted" => batch'[b] = "deleted"
         /\ \A b \in Scheduled : batch'[b] # "deleted"
<1>1. ASSUME NEW b \in Batches, batch[b] = "deleted" PROVE batch'[b] = "deleted"
  <2>1. ASSUME NEW a \in Admins, WriteTransition(a) PROVE batch'[b] = "deleted"
    <3>1. batch \in [Batches -> BatchStatus \cup {"deleted"}]
      BY DEF SafeInv, RowInv, TypeOK
    <3>. QED BY <1>1, <2>1, <3>1 DEF WriteTransition
  <2>2. ASSUME NEW c \in Batches, DeleteBatch(c) PROVE batch'[b] = "deleted"
    BY <1>1, <2>2 DEF DeleteBatch, SafeInv, RowInv, TypeOK
  <2>. QED BY <1>1, <2>1, <2>2, CreateFrame, CommitFrame
           DEF Next, vars, LockRow, ApplyPatch, AbandonPatch, ReadTransition,
               AbandonTransition, SetCapacity, db
<1>2. ASSUME NEW b \in Scheduled, batch'[b] = "deleted" PROVE FALSE
  <2>1. batch[b] # "deleted" /\ b \in Batches
    BY EnrollmentAssumption DEF RetryInv
  <2>2. DeleteBatch(b)
    BY <1>2, <2>1, BatchFrame DEF SafeInv, RowInv
  <2>. QED BY <2>2 DEF DeleteBatch
<1>. QED BY <1>1, <1>2

\* A request that wrote is over and keeps what it wrote.
LEMMA OtherWroteStays ==
  ASSUME SafeInv, [Next]_vars, NEW r \in Requests, OtherWrote(r)
  PROVE  OtherWrote(r)'
<1>1. PICK q \in Requests \ {r} : pc[q] = "done" /\ Written(q) # {}
  BY DEF OtherWrote
<1>2. ~(CreateStep(q) \/ Fail(q))
  BY <1>1, PcFrame DEF SafeInv, RowInv
<1>3. pc'[q] = pc[q]
  BY <1>2, PcFrame, OtherFrame DEF SafeInv, RowInv, create
<1>4. Written(q)' = Written(q)
  BY <1>2, WrittenStep DEF CreateStep
<1>. QED BY <1>1, <1>3, <1>4 DEF OtherWrote

\* What a step of another request leaves of this one.
LEMMA BesideStep ==
  ASSUME SafeInv, NEW q \in Requests, CreateStep(q) \/ Fail(q), ~Commit(q), NEW r \in Requests \ {q}
  PROVE  /\ pc'[r] = pc[r] /\ attempt'[r] = attempt[r] /\ snap'[r] = snap[r]
         /\ clash'[r] = clash[r] /\ resp'[r] = resp[r]
<1>1. ASSUME NEW a \in Answers, Reject(q, a)
      PROVE  /\ attempt'[r] = attempt[r] /\ snap'[r] = snap[r]
             /\ clash'[r] = clash[r] /\ resp'[r] = resp[r]
  BY <1>1 DEF SafeInv, RowInv, TypeOK, Reject, EndTx, Answer
<1>2. pc'[r] = pc[r]
  BY PcFrame DEF SafeInv, RowInv
<1>3. /\ attempt'[r] = attempt[r] /\ snap'[r] = snap[r]
      /\ clash'[r] = clash[r] /\ resp'[r] = resp[r]
  BY <1>1 DEF SafeInv, RowInv, TypeOK, CreateStep, Begin, AcquireLock, ReadBatch, Count, Insert,
          SerializationFailure, Fail, EndTx, Answers
<1>. QED BY <1>2, <1>3

\* The batch of a request in which the other wrote, or whose row is about to be
\* committed, is there.
LEMMA WroteKeeps ==
  ASSUME SafeInv, RetryInv, BatchesStay, NEW r \in Requests,
         OtherWrote(r) \/ \E q \in Requests : pc[q] = "committing"
  PROVE  batch[req[r].batch] # "deleted"
<1>0. req \in [Requests -> [student : Students, batch : Batches]]
  BY DEF SafeInv, RowInv, TypeOK
<1>1. CASE Batches \subseteq Scheduled
  BY <1>0, <1>1 DEF RetryInv
<1>2. CASE \A b, c \in Batches : b = c
  <2>1. CASE OtherWrote(r)
    <3>1. PICK i \in Ids : enr[i] # NoRow
      BY <2>1 DEF OtherWrote, Written
    <3>2. enr[i].batch \in Batches /\ batch[enr[i].batch] # "deleted"
      BY <3>1 DEF SafeInv, RowInv, TypeOK, Row, NoOrphan
    <3>. QED BY <1>0, <1>2, <3>2
  <2>2. ASSUME NEW q \in Requests, pc[q] = "committing" PROVE batch[req[r].batch] # "deleted"
    BY <1>0, <1>2, <2>2 DEF SafeInv, BatchReserved
  <2>. QED BY <2>1, <2>2
<1>. QED BY <1>1, <1>2 DEF BatchesStay

\* The steps of a request itself.
LEMMA OwnRetryStep ==
  ASSUME SafeInv, RetryInv, BatchesStay, [Next]_vars, NEW r \in Requests, CreateStep(r) \/ Fail(r)
  PROVE  /\ pc'[r] \notin InTx => clash'[r] = "none"
         /\ clash'[r] # "none" => OtherWrote(r)
         /\ attempt'[r] = 2 /\ pc'[r] # "done" =>
              clash'[r] = "none" /\ (OtherWrote(r) \/ SeesItGone(r)')
         /\ resp'[r] # "unserializable"
<1>0. /\ pc \in [Requests -> InTx \cup {"new", "backoff", "done"}]
      /\ attempt \in [Requests -> {1, 2}] /\ DOMAIN snap = Requests
      /\ DOMAIN clash = Requests /\ DOMAIN resp = Requests
      /\ req[r].batch \in Batches
  BY DEF SafeInv, RowInv, TypeOK
<1>1. /\ pc[r] \notin InTx => clash[r] = "none"
      /\ clash[r] # "none" => OtherWrote(r)
      /\ attempt[r] = 2 /\ pc[r] # "done" => clash[r] = "none" /\ (OtherWrote(r) \/ SeesItGone(r))
      /\ resp[r] # "unserializable"
  BY DEF RetryInv
<1>2. ASSUME NEW a \in Answers \ {"unserializable"}, Reject(r, a)
      PROVE  pc'[r] = "done" /\ clash'[r] = "none" /\ resp'[r] # "unserializable"
  BY <1>0, <1>2 DEF Reject, Answer, Goto
<1>3. CASE Begin(r)
  <2>1. /\ pc'[r] = "waiting" /\ snap'[r].status = batch[req[r].batch] /\ req' = req /\ batch' = batch
        /\ UNCHANGED <<clash, attempt, resp>> /\ pc[r] \in {"new", "backoff"}
    BY <1>0, <1>3 DEF Begin, Visible, Goto, db
  <2>. QED BY <1>1, <2>1 DEF SeesItGone, InTx
<1>4. CASE AcquireLock(r)
  <2>1. /\ pc[r] = "waiting" /\ pc'[r] = "locked"
        /\ UNCHANGED <<batch, req, clash, attempt, resp, snap>>
    BY <1>0, <1>4 DEF AcquireLock, Goto, db
  <2>. QED BY <1>1, <2>1 DEF SeesItGone, InTx
<1>5. CASE ReadBatch(r)
  <2>1. CASE snap[r].status \notin {"deleted", "completed"}
    <3>1. /\ pc[r] = "locked" /\ pc'[r] \in {"inserting", "counting"}
          /\ UNCHANGED <<clash, attempt, resp>>
      BY <1>0, <1>2, <1>5, <2>1 DEF ReadBatch, Goto
    <3>. QED BY <1>1, <2>1, <3>1 DEF SeesItGone, InTx
  <2>2. CASE snap[r].status \in {"deleted", "completed"}
    BY <1>2, <1>5, <2>2 DEF ReadBatch, Answers
  <2>. QED BY <2>1, <2>2
<1>6. CASE Count(r) \/ Insert(r)
  <2>1. CASE \E a \in {"full", "duplicate", "no_student"} : Reject(r, a)
    BY <1>2, <2>1 DEF Answers
  <2>2. CASE ~ \E a \in {"full", "duplicate", "no_student"} : Reject(r, a)
    <3>1. /\ pc[r] \in {"counting", "inserting"} /\ pc'[r] \in {"inserting", "committing"}
          /\ UNCHANGED <<clash, attempt, resp>>
      BY <1>0, <1>6, <2>2 DEF Count, Insert, Goto
    <3>. QED BY <1>1, <3>1 DEF SeesItGone, InTx
  <2>. QED BY <2>1, <2>2
<1>7. CASE Commit(r)
  BY <1>0, <1>7 DEF Commit, Overlap, Answer, Goto
<1>8. CASE SerializationFailure(r)
  <2>1. (clash[r] # "none" \/ BatchGone(r)) /\ pc[r] # "done"
    BY <1>8 DEF SerializationFailure, MayAbort, InTx
  <2>2. attempt[r] = 1
    <3>1. SUFFICES ASSUME attempt[r] = 2 PROVE FALSE
      BY <1>0
    <3>2. BatchGone(r) /\ OtherWrote(r)
      BY <1>1, <2>1, <3>1 DEF BatchGone, SeesItGone
    <3>. QED BY <3>2, WroteKeeps DEF BatchGone
  <2>3. /\ pc'[r] = "backoff" /\ clash'[r] = "none"
        /\ UNCHANGED <<batch, req, resp>>
    BY <1>0, <1>8, <2>2 DEF SerializationFailure, Goto, db
  <2>4. OtherWrote(r) \/ batch[req[r].batch] = "deleted"
    BY <1>1, <2>1 DEF BatchGone
  <2>. QED BY <1>1, <2>3, <2>4 DEF SeesItGone, InTx
<1>9. CASE Fail(r)
  BY <1>2, <1>9 DEF Fail, Answers
<1>. QED BY <1>3, <1>4, <1>5, <1>6, <1>7, <1>8, <1>9 DEF CreateStep

LEMMA RetryStep ==
  ASSUME TwoContend, BatchesStay, SafeInv, RetryInv, [Next]_vars
  PROVE  RetryInv'
<1>. SUFFICES ASSUME NEW r \in Requests
              PROVE  /\ pc'[r] \notin InTx => clash'[r] = "none"
                     /\ clash'[r] # "none" => OtherWrote(r)'
                     /\ attempt'[r] = 2 /\ pc'[r] # "done" =>
                          clash'[r] = "none" /\ (OtherWrote(r)' \/ SeesItGone(r)')
                     /\ resp'[r] # "unserializable"
  BY GoneStays DEF RetryInv
<1>0. /\ pc[r] \notin InTx => clash[r] = "none"
      /\ clash[r] # "none" => OtherWrote(r)
      /\ attempt[r] = 2 /\ pc[r] # "done" => clash[r] = "none" /\ (OtherWrote(r) \/ SeesItGone(r))
      /\ resp[r] # "unserializable"
  BY DEF RetryInv
<1>1. CASE CreateStep(r) \/ Fail(r)
  BY <1>1, OwnRetryStep, OtherWroteStays
<1>2. ASSUME NEW q \in Requests \ {r}, Commit(q) PROVE
                     /\ pc'[r] \notin InTx => clash'[r] = "none"
                     /\ clash'[r] # "none" => OtherWrote(r)'
                     /\ attempt'[r] = 2 /\ pc'[r] # "done" =>
                          clash'[r] = "none" /\ (OtherWrote(r)' \/ SeesItGone(r)')
                     /\ resp'[r] # "unserializable"
  <2>1. pc[q] = "committing" /\ pc'[q] = "done" /\ pc'[r] = pc[r] /\ resp'[r] = resp[r]
        /\ attempt' = attempt
    BY <1>2 DEF SafeInv, RowInv, TypeOK, Commit, Answer, Goto
  <2>2. OtherWrote(r)'
    <3>1. Written(q)' # {}
      BY <1>2, WrittenStep
    <3>. QED BY <2>1, <3>1 DEF OtherWrote
  <2>3. pc[r] \notin InTx => clash'[r] = clash[r]
    BY <1>2 DEF Commit, Overlap
  <2>4. ~OtherWrote(r)
    BY <2>1 DEF OtherWrote, TwoContend
  <2>5. ~SeesItGone(r)
    BY <2>1, WroteKeeps DEF SeesItGone
  <2>. QED BY <1>0, <2>1, <2>2, <2>3, <2>4, <2>5
<1>3. ASSUME ~(CreateStep(r) \/ Fail(r)), ~ \E q \in Requests : Commit(q)
      PROVE  /\ pc'[r] \notin InTx => clash'[r] = "none"
             /\ clash'[r] # "none" => OtherWrote(r)'
             /\ attempt'[r] = 2 /\ pc'[r] # "done" =>
                  clash'[r] = "none" /\ (OtherWrote(r)' \/ SeesItGone(r)')
             /\ resp'[r] # "unserializable"
  <2>1. /\ pc'[r] = pc[r] /\ attempt'[r] = attempt[r] /\ snap'[r] = snap[r]
        /\ clash'[r] = clash[r] /\ resp'[r] = resp[r] /\ req'[r] = req[r]
    <3>1. CASE \E q \in Requests : CreateStep(q) \/ Fail(q)
      <4>1. PICK q \in Requests : CreateStep(q) \/ Fail(q)
        BY <3>1
      <4>2. q # r /\ ~Commit(q)
        BY <1>3, <4>1
      <4>. QED BY <4>1, <4>2, BesideStep, CreateFrame
    <3>2. CASE ~ \E q \in Requests : CreateStep(q) \/ Fail(q)
      BY <3>2, OtherFrame DEF create
    <3>. QED BY <3>1, <3>2
  <2>2. req[r].batch \in Batches
    BY DEF SafeInv, RowInv, TypeOK
  <2>3. SeesItGone(r) => SeesItGone(r)'
    BY <2>1, <2>2, GoneStays DEF SeesItGone
  <2>. QED BY <1>0, <2>1, <2>3, OtherWroteStays
<1>4. Commit(r) => CreateStep(r)
  BY DEF CreateStep
<1>5. \/ CreateStep(r) \/ Fail(r)
      \/ \E q \in Requests \ {r} : Commit(q)
      \/ ~(CreateStep(r) \/ Fail(r)) /\ ~ \E q \in Requests : Commit(q)
  <2>1. SUFFICES ASSUME NEW q \in Requests, Commit(q), ~(CreateStep(r) \/ Fail(r))
                 PROVE  \E p \in Requests \ {r} : Commit(p)
    OBVIOUS
  <2>2. q # r
    BY <1>4, <2>1
  <2>. QED BY <2>1, <2>2
<1>6. CASE \E q \in Requests \ {r} : Commit(q)
  <2>1. PICK q \in Requests \ {r} : Commit(q)
    BY <1>6
  <2>. QED BY <2>1, <1>2
<1>7. CASE ~(CreateStep(r) \/ Fail(r)) /\ ~ \E q \in Requests : Commit(q)
  <2>. QED BY <1>7, <1>3
<1>. QED BY <1>1, <1>5, <1>6, <1>7

\* Of two requests that contend, for any number of other writers, each gets an
\* answer about its student, its batch or its pair, or an error of its own: its
\* second attempt is aborted by nothing.  The batch deleted under them is the
\* one they contend for, or none is.
THEOREM ContentionGetsAVerdictHolds ==
  ASSUME TwoContend, BatchesStay
  PROVE  Spec => []ContentionGetsAVerdict
<1>1. Init => RetryInv
  <2>. SUFFICES ASSUME Init PROVE RetryInv
    OBVIOUS
  <2>1. \A b \in Scheduled : b \in Batches
    BY EnrollmentAssumption
  <2>. QED BY <2>1 DEF Init, RetryInv, Unset
<1>2. SafeInv /\ RetryInv /\ [Next]_vars => RetryInv'
  BY RetryStep
<1>3. RetryInv => ContentionGetsAVerdict
  BY DEF RetryInv, ContentionGetsAVerdict
<1>. QED BY <1>1, <1>2, <1>3, SafeInvHolds, PTL DEF Spec
=============================================================================
