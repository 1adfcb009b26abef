---------------------- MODULE EnrollmentCapacityProofs ----------------------
(***************************************************************************)
(* No over-enrollment.  The count an enrollment compares with the capacity *)
(* comes from a snapshot that may miss rows; it is safe because whoever    *)
(* missed one is marked by the commit of the row and aborted by SSI.  This *)
(* needs every enrollment to count, hence every course to have a capacity: *)
(* one that read NULL counts nothing and marks nobody.                     *)
(*                                                                         *)
(* With what EnrollmentProofs has of pairs, this makes the service an      *)
(* implementation of the sequential ledger.                                *)
(***************************************************************************)
EXTENDS EnrollmentProofs, EnrollmentRefinement

\* An open transaction that is not doomed counted at least the active rows.
CountCovers ==
  \A r \in Requests :
    pc[r] \in InTx =>
      /\ snap[r].cap \in Caps
      /\ clash[r] # "missed"
           => Cardinality(Active(req[r].batch)) <= snap[r].active
      /\ pc[r] \in {"inserting", "committing"} => snap[r].active < snap[r].cap

CapInv == RowInv /\ CountCovers

-----------------------------------------------------------------------------
(* How the number of active rows changes *)

\* Only a commit adds an active row.
LEMMA ActiveShrinks ==
  ASSUME RowInv, [Next]_vars, ~\E r \in Requests : Commit(r), NEW b
  PROVE  Active(b)' \subseteq Active(b)
<1>1. ASSUME NEW u \in Updaters, ApplyPatch(u), NEW i \in Ids,
             enr'[i] # NoRow, enr'[i].batch = b, enr'[i].status # "dropped"
      PROVE  enr[i] # NoRow /\ enr[i].batch = b /\ enr[i].status # "dropped"
  <2>1. CASE i # upd[u].id
    BY <1>1, <2>1, ApplyPatchRow DEF RowInv, TypeOK
  <2>2. CASE i = upd[u].id
    <3>1. PICK body \in Bodies :
            /\ Validate(enr[i], body)
            /\ enr' = [enr EXCEPT ![i] = Patched(enr[i], enr[i], body)]
      BY <1>1, <2>2, ApplyPatchRow
    <3>2. enr[i] \in Row
      BY <1>1, <2>2, ApplyPatchRow
    <3>3. enr'[i] = Patched(enr[i], enr[i], body)
      BY <3>1 DEF RowInv, TypeOK
    <3>4. /\ enr'[i].batch = enr[i].batch
          /\ enr[i].status # "enrolled" => enr'[i].status = enr[i].status
      BY <3>1, <3>2, <3>3, PatchedForward
    <3>. QED BY <1>1, <3>2, <3>4, SentinelAssumption
  <2>. QED BY <2>1, <2>2
<1>2. ASSUME NEW u \in Updaters, ApplyPatch(u)
      PROVE  Active(b)' \subseteq Active(b)
  BY <1>1, <1>2 DEF Active, References
<1>3. CASE enr' = enr
  BY <1>3 DEF Active, References
<1>. QED BY <1>2, <1>3, RowSteps DEF LockRow, AbandonPatch, db

\* A commit adds one row to one batch.
LEMMA CommitAdds ==
  ASSUME RowInv, NEW r \in Requests, Commit(r), NEW b
  PROVE  /\ b # req[r].batch => Active(b)' \subseteq Active(b)
         /\ Active(b)' \subseteq Active(b) \cup {<<r, attempt[r]>>}
<1>1. \A i \in Ids : i # <<r, attempt[r]>> => enr'[i] = enr[i]
  BY CommitFresh
<1>2. enr'[<<r, attempt[r]>>].batch = req[r].batch
  <2>1. enr'[<<r, attempt[r]>>] = NewRow(r)
    BY CommitFresh
  <2>. QED BY <2>1 DEF NewRow
<1>. QED BY <1>1, <1>2 DEF Active, References

LEMMA FewerActive ==
  ASSUME NEW b, Active(b)' \subseteq Active(b)
  PROVE  /\ Cardinality(Active(b)') <= Cardinality(Active(b))
         /\ Cardinality(Active(b)') \in Nat
BY ActiveFinite, FS_Subset, FS_CardinalityType

LEMMA OneMoreActive ==
  ASSUME RowInv, NEW r \in Requests, Commit(r), NEW b
  PROVE  /\ Cardinality(Active(b)') <= Cardinality(Active(b)) + 1
         /\ Cardinality(Active(b)') \in Nat
<1> DEFINE S == Active(b) \cup {<<r, attempt[r]>>}
<1>1. IsFiniteSet(S) /\ Cardinality(S) <= Cardinality(Active(b)) + 1
  BY ActiveFinite, FS_AddElement
<1>2. Active(b)' \subseteq S
  BY CommitAdds
<1>3. Cardinality(Active(b)') <= Cardinality(S)
  BY <1>1, <1>2, FS_Subset
<1>4. /\ Cardinality(S) \in Nat
      /\ Cardinality(Active(b)) \in Nat
      /\ Cardinality(Active(b)') \in Nat
  BY <1>1, <1>2, ActiveFinite, FS_Subset, FS_CardinalityType
<1>. QED BY <1>1, <1>3, <1>4

-----------------------------------------------------------------------------
(* The count covers the active rows *)

LEMMA CountCoversInit == Init => CountCovers
BY DEF Init, CountCovers, InTx

\* A request that was in its transaction before and after a step of its own,
\* or of another request that did not commit, keeps its snapshot and clash.
LEMMA SnapFrame ==
  ASSUME TypeOK, NEW r \in Requests, CreateStep(r) \/ Fail(r), ~Commit(r)
  PROVE  /\ \A q \in Requests \ {r} : snap'[q] = snap[q] /\ clash'[q] = clash[q]
         /\ pc'[r] \in InTx /\ pc[r] \in InTx
              => snap'[r] = snap[r] /\ clash'[r] = clash[r]
<1>1. ASSUME NEW a \in Answers, Reject(r, a)
      PROVE  /\ \A q \in Requests \ {r} :
                  snap'[q] = snap[q] /\ clash'[q] = clash[q]
             /\ pc'[r] \notin InTx
  BY <1>1 DEF TypeOK, Reject, EndTx, Answer, Goto, InTx
<1>2. CASE Begin(r)
  BY <1>2 DEF TypeOK, Begin, InTx
<1>3. CASE AcquireLock(r)
  BY <1>3 DEF AcquireLock
<1>4. CASE ReadBatch(r) \/ Count(r) \/ Insert(r)
  BY <1>1, <1>4 DEF ReadBatch, Count, Insert, Answers
<1>5. CASE SerializationFailure(r)
  BY <1>1, <1>5
     DEF TypeOK, SerializationFailure, EndTx, Goto, InTx, Answers
<1>6. CASE Fail(r)
  BY <1>1, <1>6 DEF Fail, Answers
<1>. QED BY <1>2, <1>3, <1>4, <1>5, <1>6 DEF CreateStep, Commit

LEMMA CountCoversCreate ==
  ASSUME CapInv, NoCap \notin Caps,
         NEW r \in Requests, CreateStep(r) \/ Fail(r), ~Commit(r)
  PROVE  CountCovers'
<1>0. /\ enr' = enr /\ req' = req
      /\ \A b : Active(b)' = Active(b)
  BY CreateFrame DEF Active, References
<1> SUFFICES ASSUME NEW q \in Requests, pc'[q] \in InTx
             PROVE  /\ snap'[q].cap \in Caps
                    /\ clash'[q] # "missed"
                         => Cardinality(Active(req[q].batch)) <= snap'[q].active
                    /\ pc'[q] \in {"inserting", "committing"}
                         => snap'[q].active < snap'[q].cap
  BY <1>0 DEF CountCovers
<1>1. CASE q # r
  BY <1>1, PcFrame, SnapFrame DEF CapInv, RowInv, CountCovers
<1>2. CASE q = r /\ pc[r] \in InTx
  <2>1. snap'[r] = snap[r] /\ clash'[r] = clash[r]
    BY <1>2, SnapFrame DEF CapInv, RowInv
  <2>2. ASSUME pc'[r] \in {"inserting", "committing"},
               pc[r] \notin {"inserting", "committing"}
        PROVE  snap[r].active < snap[r].cap
    <3>1. snap[r].cap # NoCap
      BY <1>2 DEF CapInv, CountCovers
    <3>2. ASSUME NEW a \in Answers, Reject(r, a)
          PROVE  FALSE
      BY <2>2, <3>2 DEF CapInv, RowInv, TypeOK, Reject, Answer, Goto
    <3>3. Count(r) /\ HasRoom(r)
      BY <1>2, <2>2, <3>1, <3>2
         DEF CapInv, RowInv, TypeOK, CreateStep, Begin, AcquireLock, ReadBatch,
             Count, Insert, SerializationFailure, Fail, Goto, Answers, InTx
    <3>. QED BY <3>3 DEF HasRoom
  <2>. QED BY <1>2, <2>1, <2>2 DEF CapInv, CountCovers
<1>3. CASE q = r /\ pc[r] \notin InTx
  <2>1. ASSUME NEW a \in Answers, Reject(r, a)
        PROVE  FALSE
    BY <1>3, <2>1 DEF CapInv, RowInv, TypeOK, Reject, Answer, Goto, InTx
  <2>2. Begin(r)
    BY <1>3, <2>1
       DEF CreateStep, AcquireLock, ReadBatch, Count, Insert, Commit,
           SerializationFailure, Fail, Answers, InTx
  <2>3. /\ snap'[r] = Visible(req[r].batch)
        /\ pc'[r] = "waiting"
        /\ CourseOf[req[r].batch] \in Courses
    BY <2>2, EnrollmentAssumption DEF CapInv, RowInv, TypeOK, Begin, Goto
  <2>4. /\ snap'[r].cap \in Caps
        /\ snap'[r].active = Cardinality(Active(req[r].batch))
    BY <2>3 DEF Visible, CapInv, RowInv, TypeOK
  <2>5. Cardinality(Active(req[r].batch)) \in Nat
    BY ActiveFinite
  <2>. QED BY <1>3, <2>3, <2>4, <2>5
<1>. QED BY <1>1, <1>2, <1>3

LEMMA CountCoversCommit ==
  ASSUME CapInv, NoCap \notin Caps, NEW r \in Requests, Commit(r)
  PROVE  CountCovers'
<1>0. /\ req' = req /\ pc[r] = "committing" /\ pc'[r] = "done"
  BY CommitFrame DEF CapInv, RowInv, TypeOK, Commit, Answer, Goto
<1>1. snap[r].cap # NoCap
  BY <1>0 DEF CapInv, CountCovers, InTx
<1> SUFFICES ASSUME NEW q \in Requests, pc'[q] \in InTx
             PROVE  /\ snap'[q].cap \in Caps
                    /\ clash'[q] # "missed"
                         => Cardinality(Active(req[q].batch)') <= snap'[q].active
                    /\ pc'[q] \in {"inserting", "committing"}
                         => snap'[q].active < snap'[q].cap
  BY <1>0 DEF CountCovers
<1>2. q # r /\ pc'[q] = pc[q] /\ snap'[q] = snap[q]
  <2>1. q # r
    BY <1>0 DEF InTx
  <2>2. pc'[q] = pc[q]
    BY <2>1, PcFrame DEF CapInv, RowInv, CreateStep
  <2>3. snap'[q] = snap[q]
    BY <2>1 DEF CapInv, RowInv, TypeOK, Commit, EndTx
  <2>. QED BY <2>1, <2>2, <2>3
<1>3. ASSUME clash'[q] # "missed"
      PROVE  clash[q] # "missed" /\ req[q].batch # req[r].batch
  BY <1>1, <1>2, <1>3 DEF Commit, Overlap
<1>4. ASSUME clash'[q] # "missed"
      PROVE  Cardinality(Active(req[q].batch)') <= snap[q].active
  <2>1. Active(req[q].batch)' \subseteq Active(req[q].batch)
    BY <1>0, <1>3, <1>4, CommitAdds DEF CapInv
  <2>2. Cardinality(Active(req[q].batch)) <= snap[q].active
    BY <1>2, <1>3, <1>4 DEF CapInv, CountCovers
  <2>3. snap[q].active \in Nat
    BY DEF CapInv, RowInv, TypeOK
  <2>. QED BY <1>0, <2>1, <2>2, <2>3, FewerActive, ActiveFinite
<1>. QED BY <1>2, <1>4 DEF CapInv, CountCovers

LEMMA CountCoversOther ==
  ASSUME CapInv, [Next]_vars, ~\E r \in Requests : CreateStep(r) \/ Fail(r)
  PROVE  CountCovers'
<1>1. UNCHANGED <<pc, req, snap, clash>>
  BY OtherFrame DEF create
<1>2. ASSUME NEW r \in Requests
      PROVE  Cardinality(Active(req[r].batch)')
               <= Cardinality(Active(req[r].batch))
  BY <1>1, ActiveShrinks, FewerActive DEF CapInv, CreateStep
<1>3. ASSUME NEW r \in Requests
      PROVE  /\ Cardinality(Active(req[r].batch)') \in Nat
             /\ Cardinality(Active(req[r].batch)) \in Nat
             /\ snap[r].active \in Nat
  BY ActiveShrinks, FewerActive, ActiveFinite
     DEF CapInv, RowInv, TypeOK, CreateStep
<1>. QED BY <1>1, <1>2, <1>3 DEF CapInv, CountCovers

LEMMA CapInvHolds ==
  ASSUME NoCap \notin Caps
  PROVE  Spec => []CapInv
<1>1. Init => CountCovers
  BY CountCoversInit
<1>2. CapInv /\ [Next]_vars => CountCovers'
  BY CountCoversCreate, CountCoversCommit, CountCoversOther
<1>3. RowInv /\ CountCovers <=> CapInv
  BY DEF CapInv
<1>. QED BY <1>1, <1>2, <1>3, RowsHeld, PTL DEF Spec

\* When every course has a capacity, no interleaving of enrollments, drops and
\* capacity changes makes an enrollment exceed the capacity it read.
THEOREM CapacityHonouredHolds ==
  ASSUME NoCap \notin Caps
  PROVE  Spec => CapacityHonoured
<1> DEFINE Within(r) ==
      Commits(r) /\ snap[r].cap # NoCap
        => Cardinality(Active(req[r].batch)') <= snap[r].cap
<1>1. ASSUME CapInv, [Next]_vars, NEW r \in Requests, Commits(r)
      PROVE  Commit(r)
  <2>1. PICK i \in Ids : enr[i] = NoRow /\ enr'[i] # NoRow /\ i[1] = r
    BY <1>1 DEF Commits, Written
  <2>2. PICK q \in Requests : Commit(q)
    BY <1>1, <2>1, ActiveShrinks, RowSteps, ApplyPatchRow, SentinelAssumption
       DEF CapInv, RowInv, TypeOK, LockRow, AbandonPatch, db
  <2>3. i = <<q, attempt[q]>>
    BY <1>1, <2>1, <2>2, CommitFresh DEF CapInv
  <2>. QED BY <2>1, <2>2, <2>3
<1>2. ASSUME CapInv, [Next]_vars, NEW r \in Requests
      PROVE  Within(r)
  <2> SUFFICES ASSUME Commits(r), snap[r].cap # NoCap
               PROVE  Cardinality(Active(req[r].batch)') <= snap[r].cap
    OBVIOUS
  <2>1. Commit(r)
    BY <1>1, <1>2
  <2>2. pc[r] = "committing" /\ clash[r] # "missed"
    BY <2>1 DEF Commit, MustAbort
  <2>3. /\ Cardinality(Active(req[r].batch)) <= snap[r].active
        /\ snap[r].active < snap[r].cap
        /\ snap[r].cap \in Nat
        /\ snap[r].active \in Nat
    BY <1>2, <2>2, EnrollmentAssumption
       DEF CapInv, CountCovers, InTx, RowInv, TypeOK
  <2>4. /\ Cardinality(Active(req[r].batch)') <= Cardinality(Active(req[r].batch)) + 1
        /\ Cardinality(Active(req[r].batch)) \in Nat
    BY <1>2, <2>1, CommitFrame, OneMoreActive, ActiveFinite DEF CapInv
  <2>5. Cardinality(Active(req[r].batch)') \in Nat
    BY <1>2, <2>1, CommitFrame, OneMoreActive DEF CapInv
  <2>. QED BY <2>3, <2>4, <2>5
<1>3. CapInv /\ [Next]_vars => [\A r \in Requests : Within(r)]_vars
  BY <1>2
<1>. QED BY <1>3, CapInvHolds, PTL DEF Spec, CapacityHonoured

-----------------------------------------------------------------------------
(* The ledger *)

\* The ledger counts as this module does.
LEMMA LedgerCardinality ==
  ASSUME NEW S
  PROVE  Ledger!Cardinality(S) = Cardinality(S)
BY DEF Ledger!Cardinality, Cardinality

\* Every capacity a course ever has is a number up to the limit.
LEMMA CapsBounded == \A v \in Caps : v \in Nat /\ v <= Limit
BY LimitAssumption

\* The active entries of the ledger are as many as the active rows at most.
LEMMA ActiveEntriesBound ==
  ASSUME NEW b
  PROVE  /\ Cardinality(Ledger!ActiveEntries(b)) <= Cardinality(Active(b))
         /\ Cardinality(Ledger!ActiveEntries(b)) \in Nat
<1>. DEFINE Image == {EntryOf(enr[i]) : i \in Active(b)}
<1>1. /\ IsFiniteSet(Image)
      /\ Cardinality(Image) <= Cardinality(Active(b))
  <2>. DEFINE f == [i \in Active(b) |-> EntryOf(enr[i])]
  <2>1. f \in Surjection(Active(b), Image)
    BY DEF Surjection
  <2>2. IsFiniteSet(Active(b))
    BY ActiveFinite
  <2>. HIDE DEF f, Image
  <2>. QED BY <2>1, <2>2, FS_Surjection
<1>2. Ledger!ActiveEntries(b) \subseteq Image
  <2>1. ASSUME NEW e \in Table, e.batch = b, e.status # "dropped"
        PROVE  e \in Image
    <3>1. PICK i \in Ids : enr[i] # NoRow /\ e = EntryOf(enr[i])
      BY DEF Table
    <3>2. enr[i].batch = e.batch /\ enr[i].status = e.status
      BY <3>1 DEF EntryOf
    <3>. QED BY <2>1, <3>1, <3>2 DEF Active, References
  <2>. HIDE DEF Image
  <2>. QED BY <2>1 DEF Ledger!ActiveEntries
<1>3. /\ Cardinality(Ledger!ActiveEntries(b)) <= Cardinality(Image)
      /\ IsFiniteSet(Ledger!ActiveEntries(b))
  BY <1>1, <1>2, FS_Subset
<1>4. /\ Cardinality(Ledger!ActiveEntries(b)) \in Nat
      /\ Cardinality(Image) \in Nat /\ Cardinality(Active(b)) \in Nat
  BY <1>1, <1>3, ActiveFinite, FS_CardinalityType
<1>. QED BY <1>1, <1>3, <1>4

\* A commit is an enrollment of the ledger.
LEMMA CommitEnrolls ==
  ASSUME SafeInv, CapInv, NoCap \notin Caps, NEW r \in Requests, Commit(r)
  PROVE  Ledger!Enroll(req[r].student, req[r].batch)
<1>. DEFINE b == req[r].batch
            new == <<r, attempt[r]>>
            entry == [student |-> req[r].student, batch |-> b, status |-> "enrolled",
                      payment |-> "pending", graded |-> FALSE]
<1>1. \A e \in Table : ~(e.student = req[r].student /\ e.batch = b)
  <2>1. ~PairTaken(r)
    BY DEF SafeInv, PairReserved, Commit
  <2>. QED BY <2>1 DEF Table, EntryOf, PairTaken, SamePair
<1>2. Cardinality(Ledger!ActiveEntries(b)) < Limit
  <2>1. pc[r] = "committing" /\ clash[r] # "missed" /\ snap[r].cap # NoCap
    BY DEF Commit, MustAbort, CapInv, CountCovers, InTx
  <2>2. /\ Cardinality(Active(b)) <= snap[r].active
        /\ snap[r].active < snap[r].cap
        /\ snap[r].cap \in Nat /\ snap[r].cap <= Limit /\ snap[r].active \in Nat
    <3>1. snap[r].cap \in Caps /\ snap[r].active \in Nat
      BY <2>1 DEF CapInv, CountCovers, InTx, RowInv, TypeOK
    <3>. QED BY <2>1, <3>1, CapsBounded DEF CapInv, CountCovers, InTx
  <2>3. Cardinality(Active(b)) \in Nat
    BY ActiveFinite
  <2>. HIDE DEF b
  <2>. QED BY <2>2, <2>3, ActiveEntriesBound, LimitAssumption
<1>3. Table' = Table \cup {entry}
  <2>1. /\ new \in Ids /\ enr[new] = NoRow /\ enr'[new] = NewRow(r)
        /\ NewRow(r) # NoRow
        /\ \A i \in Ids : i # new => enr'[i] = enr[i]
    BY CommitFresh DEF CapInv
  <2>2. EntryOf(enr'[new]) = entry
    BY <2>1 DEF EntryOf, NewRow
  <2>3. ASSUME NEW e \in Table'
        PROVE  e \in Table \cup {entry}
    <3>1. PICK i \in Ids : enr'[i] # NoRow /\ e = EntryOf(enr'[i])
      BY DEF Table
    <3>. HIDE DEF entry, new
    <3>. QED BY <2>1, <2>2, <3>1 DEF Table
  <2>4. ASSUME NEW e \in Table
        PROVE  e \in Table'
    <3>1. PICK i \in Ids : enr[i] # NoRow /\ e = EntryOf(enr[i])
      BY DEF Table
    <3>2. enr'[i] = enr[i]
      BY <2>1, <3>1
    <3>. QED BY <3>1, <3>2 DEF Table
  <2>5. entry \in Table'
    BY <2>1, <2>2 DEF Table
  <2>. QED BY <2>3, <2>4, <2>5
<1>4. Ledger!Enroll(req[r].student, req[r].batch) <=>
        /\ \A e \in Table : ~(e.student = req[r].student /\ e.batch = req[r].batch)
        /\ Cardinality(Ledger!ActiveEntries(req[r].batch)) < Limit
        /\ Table' = Table \cup
             {[student |-> req[r].student, batch |-> req[r].batch, status |-> "enrolled",
               payment |-> "pending", graded |-> FALSE]}
  BY LedgerCardinality DEF Ledger!Enroll
<1>. QED BY <1>1, <1>2, <1>3, <1>4

\* Ranks tell payments apart.
LEMMA PaymentForward ==
  ASSUME NEW old \in PaymentStatus, NEW new \in PaymentStatus,
         PaymentRank[old] <= PaymentRank[new]
  PROVE  /\ old = "paid" => new = "paid"
         /\ old = "partial" => new # "pending"
BY DEF PaymentStatus, PaymentRank

\* An applied PATCH amends one entry: no other row has the same.
LEMMA PatchAmends ==
  ASSUME SafeInv, NEW u \in Updaters, ApplyPatch(u)
  PROVE  \E old \in Table : Ledger!Amend(old)
<1>. DEFINE i == upd[u].id
            old == EntryOf(enr[i])
            new == EntryOf(enr'[i])
<1>1. PICK body \in Bodies :
        /\ Validate(enr[i], body)
        /\ Patched(enr[i], enr[i], body) \in Row
        /\ enr' = [enr EXCEPT ![i] = Patched(enr[i], enr[i], body)]
  BY ApplyPatchRow DEF SafeInv
<1>2. /\ i \in Ids /\ enr[i] \in Row /\ enr[i] # NoRow
      /\ enr'[i] = Patched(enr[i], enr[i], body)
      /\ enr'[i] \in Row /\ enr'[i] # NoRow
      /\ \A j \in Ids : j # i => enr'[j] = enr[j]
  BY <1>1, ApplyPatchRow, SentinelAssumption DEF SafeInv, RowInv, TypeOK
<1>. HIDE DEF i
<1>3. /\ enr'[i].student = enr[i].student /\ enr'[i].batch = enr[i].batch
      /\ enr[i].status # "enrolled" => enr'[i].status = enr[i].status
      /\ PaymentRank[enr[i].payment] <= PaymentRank[enr'[i].payment]
      /\ enr'[i].graded => enr'[i].status = "completed"
  BY <1>1, <1>2, PatchedForward DEF SafeInv, GradeOnlyOnCompleted
<1>4. /\ enr[i].payment = "paid" => enr'[i].payment = "paid"
      /\ enr[i].payment = "partial" => enr'[i].payment # "pending"
  <2>1. enr[i].payment \in PaymentStatus /\ enr'[i].payment \in PaymentStatus
    BY <1>2 DEF Row
  <2>. QED BY <1>3, <2>1, PaymentForward
<1>5. Ledger!Forward(old, new)
  BY <1>3, <1>4 DEF Ledger!Forward, EntryOf
<1>6. new \in Ledger!Entry
  BY <1>2 DEF EntryOf, Row, Ledger!Entry, Status, PaymentStatus
<1>7. \A j \in Ids : enr[j] # NoRow /\ EntryOf(enr[j]) = old => j = i
  BY <1>2 DEF SafeInv, OnePerPair, EntryOf
<1>8. Table' = (Table \ {old}) \cup {new}
  <2>1. ASSUME NEW e \in Table'
        PROVE  e \in (Table \ {old}) \cup {new}
    <3>1. PICK j \in Ids : enr'[j] # NoRow /\ e = EntryOf(enr'[j])
      BY DEF Table
    <3>2. CASE j = i
      BY <3>1, <3>2
    <3>3. CASE j # i
      <4>1. enr[j] # NoRow /\ e = EntryOf(enr[j])
        BY <1>2, <3>1, <3>3
      <4>2. e # old
        BY <1>7, <3>3, <4>1
      <4>. QED BY <4>1, <4>2 DEF Table
    <3>. QED BY <3>2, <3>3
  <2>2. ASSUME NEW e \in Table, e # old
        PROVE  e \in Table'
    <3>1. PICK j \in Ids : enr[j] # NoRow /\ e = EntryOf(enr[j])
      BY DEF Table
    <3>2. j # i
      BY <2>2, <3>1
    <3>3. enr'[j] # NoRow /\ e = EntryOf(enr'[j])
      BY <1>2, <3>1, <3>2
    <3>. QED BY <3>3 DEF Table
  <2>3. new \in Table'
    BY <1>2 DEF Table
  <2>. QED BY <2>1, <2>2, <2>3
<1>9. old \in Table
  BY <1>2 DEF Table
<1>. QED BY <1>5, <1>6, <1>8, <1>9 DEF Ledger!Amend

\* The concurrent service implements the sequential ledger, for any number of
\* requests, updaters, batches and students: every commit is one enrollment of
\* the ledger and every applied PATCH one amendment.
THEOREM ImplementsLedgerHolds == Spec => ImplementsLedger
<1>0. NoCap \notin Caps
  BY CapsBounded, EnrollmentAssumption
<1>1. Init => Ledger!Init
  BY DEF Init, Ledger!Init, Table
<1>2. SafeInv /\ CapInv /\ [Next]_vars => [Ledger!Next]_Table
  <2> SUFFICES ASSUME SafeInv, CapInv, [Next]_vars PROVE [Ledger!Next]_Table
    OBVIOUS
  <2>1. ASSUME NEW r \in Requests, Commit(r)
        PROVE  Ledger!Next
    <3>1. Ledger!Enroll(req[r].student, req[r].batch)
      BY <1>0, <2>1, CommitEnrolls
    <3>2. req[r].student \in Students /\ req[r].batch \in Batches
      BY DEF SafeInv, RowInv, TypeOK
    <3>. QED BY <3>1, <3>2 DEF Ledger!Next
  <2>2. ASSUME NEW u \in Updaters, ApplyPatch(u)
        PROVE  Ledger!Next
    BY <2>2, PatchAmends DEF Ledger!Next
  <2>3. CASE enr' = enr
    BY <2>3 DEF Table
  <2>. QED BY <2>1, <2>2, <2>3, RowSteps DEF SafeInv, LockRow, AbandonPatch, db
<1>3. Spec => []CapInv
  BY <1>0, CapInvHolds
<1>. QED BY <1>1, <1>2, <1>3, SafeInvHolds, PTL DEF Spec, ImplementsLedger, Ledger!Spec
=============================================================================
