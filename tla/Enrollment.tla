----------------------------- MODULE Enrollment -----------------------------
(***************************************************************************)
(* POST /enrollments and PATCH /enrollments/:id against one PostgreSQL     *)
(* database, with the writers of other modules that touch what they read:  *)
(* batch status transitions, batch deletion and course capacity changes.   *)
(*                                                                         *)
(* A create request is a goroutine that runs a SERIALIZABLE transaction    *)
(* statement by statement and is retried once on SQLSTATE 40001.  The      *)
(* other writers run in READ COMMITTED, so serializability promises        *)
(* nothing between them and an enrollment.                                 *)
(*                                                                         *)
(* What PostgreSQL does is modelled from how the code uses it: the         *)
(* snapshot a serializable transaction keeps from its first statement, the *)
(* advisory lock, the two constraints an INSERT checks, row locks, and     *)
(* which transactions serializable snapshot isolation (SSI) aborts.        *)
(***************************************************************************)
EXTENDS Naturals, FiniteSets

CONSTANTS
  Requests,    \* POST /enrollments requests, each one sent once
  Updaters,    \* goroutines serving PATCH /enrollments/:id, one call at a time
  Admins,      \* goroutines serving PATCH /batches/:id/status
  Students,    \* student ids a client may send
  Registered,  \* the ids that are rows of table students
  Batches,
  Courses,
  CourseOf,    \* CourseOf[b]: batches.course_id
  Keys,
  KeyOf,       \* KeyOf[b]: hashtext(b), which may collide
  Scheduled,   \* batches that rows of table schedules refer to
  Caps,        \* values courses.max_capacity takes, NoCap being NULL
  Bodies,      \* bodies of PATCH /enrollments/:id that clients send
  NoCap, NoOne, NoRow, NoMove, Idle

Unset == "unset"

\* The bodies of PATCH /enrollments/:id that the handler's validation lets through.
PatchBodies == [status  : {Unset, "dropped", "completed"},
                payment : {Unset, "partial", "paid"},
                grade   : {Unset, "null", "value"}]

ASSUME EnrollmentAssumption ==
  /\ IsFiniteSet(Requests)
  /\ Registered \subseteq Students
  /\ CourseOf \in [Batches -> Courses]
  /\ KeyOf \in [Batches -> Keys]
  /\ Scheduled \subseteq Batches
  /\ Caps \subseteq Nat \cup {NoCap}
  /\ NoCap \notin Nat
  /\ Bodies \subseteq PatchBodies
  /\ NoOne \notin Requests

VARIABLES
  batch,     \* batches.status, or "deleted" once the row is gone
  capacity,  \* courses.max_capacity
  enr,       \* table enrollments: the committed row under each id, or NoRow
  lock,      \* holder of the transaction-level advisory lock on each key
  pc,        \* where each create request is
  attempt,   \* 1, then 2 once EnrollmentService.Create retries
  req,       \* the decoded body of each create request
  snap,      \* what the request's transaction sees of its batch
  clash,     \* serializable transactions committed since that snapshot
  resp,      \* the response of a finished request
  move,      \* the validated transition an admin has yet to write
  upd        \* the row an updater holds FOR UPDATE, as it read it

db       == <<batch, capacity, enr>>
create   == <<lock, pc, attempt, req, snap, clash, resp>>
others   == <<move, upd>>
vars     == <<batch, capacity, enr, lock, pc, attempt, req, snap, clash, resp,
              move, upd>>

BatchStatus   == {"upcoming", "ongoing", "completed"}
Status        == {"enrolled", "dropped", "completed"}
PaymentStatus == {"pending", "partial", "paid"}

\* Each call of repo.Create gets a fresh UUIDv7: one id per attempt.
Ids == Requests \X {1, 2}

\* final_grade is told apart only as NULL (FALSE) or not (TRUE).
Row == [student : Students, batch : Batches, course : Courses,
        status : Status, payment : PaymentStatus, graded : BOOLEAN]

\* The sentinels are none of the values they stand in for.
ASSUME SentinelAssumption ==
  /\ NoRow \notin Row
  /\ Idle \notin [id : Ids, cur : Row]
  /\ NoMove \notin [batch : Batches, to : BatchStatus]

NoSnap == [status |-> "deleted", cap |-> NoCap, active |-> 0]

References(b) == {i \in Ids : enr[i] # NoRow /\ enr[i].batch = b}

\* CountActiveEnrollments: status != 'dropped'.
Active(b) == {i \in References(b) : enr[i].status # "dropped"}

InTx == {"waiting", "locked", "counting", "inserting", "committing"}

Answers == {"created", "no_batch", "no_student", "completed", "full",
            "duplicate", "unserializable", "error"}

TypeOK ==
  /\ batch \in [Batches -> BatchStatus \cup {"deleted"}]
  /\ capacity \in [Courses -> Caps]
  /\ enr \in [Ids -> Row \cup {NoRow}]
  /\ lock \in [Keys -> Requests \cup {NoOne}]
  /\ pc \in [Requests -> InTx \cup {"new", "backoff", "done"}]
  /\ attempt \in [Requests -> {1, 2}]
  /\ req \in [Requests -> [student : Students, batch : Batches]]
  /\ snap \in [Requests -> [status : BatchStatus \cup {"deleted"},
                            cap : Caps \cup {NoCap}, active : Nat]]
  /\ clash \in [Requests -> {"none", "rival", "missed"}]
  /\ resp \in [Requests -> Answers \cup {Unset}]
  /\ move \in [Admins -> [batch : Batches, to : BatchStatus] \cup {NoMove}]
  /\ upd \in [Updaters -> [id : Ids, cur : Row] \cup {Idle}]

Init ==
  /\ batch = [b \in Batches |-> "upcoming"]
  /\ capacity \in [Courses -> Caps]
  /\ enr = [i \in Ids |-> NoRow]
  /\ lock = [k \in Keys |-> NoOne]
  /\ pc = [r \in Requests |-> "new"]
  /\ attempt = [r \in Requests |-> 1]
  /\ req \in [Requests -> [student : Students, batch : Batches]]
  /\ snap = [r \in Requests |-> NoSnap]
  /\ clash = [r \in Requests |-> "none"]
  /\ resp = [r \in Requests |-> Unset]
  /\ move = [a \in Admins |-> NoMove]
  /\ upd = [u \in Updaters |-> Idle]

-----------------------------------------------------------------------------
(* PostgreSQL, as the code uses it *)

\* The batch and its enrollments as committed now.
Visible(b) == [status |-> batch[b], cap |-> capacity[CourseOf[b]],
               active |-> Cardinality(Active(b))]

\* Mutant: the transaction takes no advisory lock.
LockNeverTaken(r) == TRUE

LockFree(r) == lock[KeyOf[req[r].batch]] = NoOne

\* Mutant: pg_advisory_lock, which outlives the transaction.
EndTxKeepsLock(r) ==
  /\ lock' = lock
  /\ snap' = [snap EXCEPT ![r] = NoSnap]

\* COMMIT, ROLLBACK or a lost connection: the transaction-level advisory lock
\* and the snapshot go with the transaction.
EndTx(r) ==
  /\ lock' = [k \in Keys |-> IF lock[k] = r THEN NoOne ELSE lock[k]]
  /\ snap' = [snap EXCEPT ![r] = NoSnap]

\* Mutant: pgx.RepeatableRead, snapshots without conflict detection.
MustAbortNever(r) == FALSE

\* A statement that counted the batch and missed an enrollment which another
\* transaction, having counted it too, committed since the snapshot: the two
\* cannot be put in a serial order, and SSI aborts the one still running.
MustAbort(r) == clash[r] = "missed" /\ snap[r].cap # NoCap

\* SSI tracks reads by page and by relation, so that any overlapping commit may
\* make it abort; it aborts nobody when no overlapping transaction committed.
MayAbort(r) == clash[r] # "none"

\* What a commit of r does to the transactions still open.
Overlap(r) ==
  clash' = [q \in Requests |->
    IF q = r THEN "none"
    ELSE IF pc[q] \notin InTx THEN clash[q]
    ELSE IF req[q].batch = req[r].batch /\ snap[r].cap # NoCap THEN "missed"
    ELSE IF clash[q] = "none" THEN "rival"
    ELSE clash[q]]

\* UNIQUE (student_id, batch_id); dropped rows keep their place in the index.
SamePair(r, row) == row.student = req[r].student /\ row.batch = req[r].batch
PairTaken(r) == \E i \in Ids : enr[i] # NoRow /\ SamePair(r, enr[i])

\* An INSERT of the same pair waits for the transaction that inserted it.
PairPending(r) ==
  \E q \in Requests \ {r} : pc[q] = "committing" /\ req[q] = req[r]

-----------------------------------------------------------------------------
(* POST /enrollments *)

Goto(r, label) == pc' = [pc EXCEPT ![r] = label]

Answer(r, a) ==
  /\ Goto(r, "done")
  /\ resp' = [resp EXCEPT ![r] = a]

\* The deferred tx.Rollback of repo.Create on every early return, and the
\* response that service and handler map the error to.
Reject(r, a) ==
  /\ EndTx(r)
  /\ clash' = [clash EXCEPT ![r] = "none"]
  /\ Answer(r, a)
  /\ UNCHANGED <<db, attempt, req, others>>

\* BeginTx, and the statement that asks for the advisory lock: the snapshot is
\* taken when that statement starts, before the lock is granted.
Begin(r) ==
  /\ pc[r] \in {"new", "backoff"}
  /\ Goto(r, "waiting")
  /\ snap' = [snap EXCEPT ![r] = Visible(req[r].batch)]
  /\ UNCHANGED <<db, lock, attempt, req, clash, resp, others>>

AcquireLock(r) ==
  /\ pc[r] = "waiting"
  /\ LockFree(r)
  /\ lock' = [lock EXCEPT ![KeyOf[req[r].batch]] = r]
  /\ Goto(r, "locked")
  /\ UNCHANGED <<db, attempt, req, snap, clash, resp, others>>

\* GetBatchForEnrollment and the checks on its row.
ReadBatch(r) ==
  /\ pc[r] = "locked"
  /\ \/ snap[r].status = "deleted" /\ Reject(r, "no_batch")
     \/ snap[r].status = "completed" /\ Reject(r, "completed")
     \/ /\ snap[r].status \notin {"deleted", "completed"}
        /\ Goto(r, IF snap[r].cap = NoCap THEN "inserting" ELSE "counting")
        /\ UNCHANGED <<db, lock, attempt, req, snap, clash, resp, others>>

HasRoom(r) == snap[r].active < snap[r].cap

Count(r) ==
  /\ pc[r] = "counting"
  /\ \/ ~HasRoom(r) /\ Reject(r, "full")
     \/ /\ HasRoom(r)
        /\ Goto(r, "inserting")
        /\ UNCHANGED <<db, lock, attempt, req, snap, clash, resp, others>>

\* CreateEnrollment.  Its foreign keys and unique index are checked against the
\* committed tables, not the snapshot; a batch deleted since the snapshot is a
\* serialization failure (see SerializationFailure), not a foreign key error.
Insert(r) ==
  /\ pc[r] = "inserting"
  /\ batch[req[r].batch] # "deleted"
  /\ ~PairPending(r)
  /\ \/ PairTaken(r) /\ Reject(r, "duplicate")
     \/ /\ ~PairTaken(r)
        /\ req[r].student \notin Registered
        /\ Reject(r, "no_student")
     \/ /\ ~PairTaken(r)
        /\ req[r].student \in Registered
        /\ ~MustAbort(r)
        /\ Goto(r, "committing")
        /\ UNCHANGED <<db, lock, attempt, req, snap, clash, resp, others>>

\* Mutant: CreateEnrollmentParams with BatchID for CourseID.
NewRowWrongCourse(r) ==
  [student |-> req[r].student, batch |-> req[r].batch,
   course |-> req[r].batch, status |-> "enrolled", payment |-> "pending",
   graded |-> FALSE]

\* The row the INSERT wrote, with the defaults of table enrollments.
NewRow(r) == [student |-> req[r].student, batch |-> req[r].batch,
              course |-> CourseOf[req[r].batch], status |-> "enrolled",
              payment |-> "pending", graded |-> FALSE]

\* Mutant: tx.Commit is left out and the deferred rollback ends it.
CommitForgotten(r) ==
  /\ pc[r] = "committing"
  /\ EndTx(r)
  /\ Answer(r, "created")
  /\ UNCHANGED <<db, attempt, req, clash, others>>

\* Mutant: every error is retried, a lost acknowledgement included.
CommitRetriedOnAnyError(r) ==
  /\ pc[r] = "committing"
  /\ ~MustAbort(r)
  /\ enr' = [enr EXCEPT ![<<r, attempt[r]>>] = NewRow(r)]
  /\ EndTx(r)
  /\ Overlap(r)
  /\ \/ Answer(r, "created") /\ UNCHANGED attempt
     \/ /\ attempt[r] = 1
        /\ attempt' = [attempt EXCEPT ![r] = 2]
        /\ Goto(r, "backoff")
        /\ UNCHANGED resp
  /\ UNCHANGED <<batch, capacity, req, others>>

\* tx.Commit.  The acknowledgement may be lost after the commit took effect.
Commit(r) ==
  /\ pc[r] = "committing"
  /\ ~MustAbort(r)
  /\ enr' = [enr EXCEPT ![<<r, attempt[r]>>] = NewRow(r)]
  /\ EndTx(r)
  /\ Overlap(r)
  /\ \/ Answer(r, "created")
     \/ Answer(r, "error")
  /\ UNCHANGED <<batch, capacity, attempt, req, others>>

BatchGone(r) == pc[r] = "inserting" /\ batch[req[r].batch] = "deleted"

\* Mutant: EnrollmentService.Create does not retry.
SerializationFailureFinal(r) ==
  /\ pc[r] \in InTx \ {"waiting"}
  /\ MayAbort(r) \/ BatchGone(r)
  /\ Reject(r, "unserializable")

\* SQLSTATE 40001 from any statement after the lock: retried once, 50 ms later.
SerializationFailure(r) ==
  /\ pc[r] \in InTx \ {"waiting"}
  /\ MayAbort(r) \/ BatchGone(r)
  /\ IF attempt[r] = 1
     THEN /\ EndTx(r)
          /\ clash' = [clash EXCEPT ![r] = "none"]
          /\ attempt' = [attempt EXCEPT ![r] = 2]
          /\ Goto(r, "backoff")
          /\ UNCHANGED <<db, req, resp, others>>
     ELSE Reject(r, "unserializable")

\* A cancelled request context or a lost connection, at any point.
Fail(r) ==
  /\ pc[r] # "done"
  /\ Reject(r, "error")

CreateStep(r) ==
  \/ Begin(r)
  \/ AcquireLock(r)
  \/ ReadBatch(r)
  \/ Count(r)
  \/ Insert(r)
  \/ Commit(r)
  \/ SerializationFailure(r)

-----------------------------------------------------------------------------
(* PATCH /enrollments/:id *)

\* Mutant: validStatusTransitions lists dropped and completed as sources too.
ValidStatusTransitionFromAny(cur, next) ==
  cur = next \/ next \in {"dropped", "completed"}

ValidStatusTransition(cur, next) ==
  cur = next \/ (cur = "enrolled" /\ next \in {"dropped", "completed"})

ValidPaymentTransition(cur, next) ==
  \/ cur = next
  \/ cur = "pending" /\ next \in {"partial", "paid"}
  \/ cur = "partial" /\ next = "paid"

\* Mutant: the closure forgets that a grade needs a completed enrollment.
ValidateAnyGrade(cur, body) ==
  /\ body.status # Unset => ValidStatusTransition(cur.status, body.status)
  /\ body.payment # Unset => ValidPaymentTransition(cur.payment, body.payment)

\* The closure EnrollmentService.Update hands to the repository.
Validate(cur, body) ==
  /\ body.grade = "value" => cur.status = "completed"
  /\ body.status # Unset => ValidStatusTransition(cur.status, body.status)
  /\ body.payment # Unset => ValidPaymentTransition(cur.payment, body.payment)

Coalesce(v, old) == IF v = Unset THEN old ELSE v

\* The UPDATE: status and payment_status default to the row's own values,
\* final_grade to the value read under the lock.
Patched(row, cur, body) ==
  [row EXCEPT !.status  = Coalesce(body.status, row.status),
              !.payment = Coalesce(body.payment, row.payment),
              !.graded  = IF body.grade = Unset THEN cur.graded
                          ELSE body.grade = "value"]

\* Mutant: txGetCurrent selects without FOR UPDATE.
RowNeverLocked(i) == TRUE

RowFree(i) == \A u \in Updaters : upd[u] # Idle => upd[u].id # i

\* SELECT ... FOR UPDATE NOWAIT: a row that is locked fails the call at once.
LockRow(u) ==
  /\ upd[u] = Idle
  /\ \E i \in Ids :
       /\ enr[i] # NoRow
       /\ RowFree(i)
       /\ upd' = [upd EXCEPT ![u] = [id |-> i, cur |-> enr[i]]]
  /\ UNCHANGED <<db, create, move>>

\* Validate, UPDATE and COMMIT, all under the row lock.
ApplyPatch(u) ==
  /\ upd[u] # Idle
  /\ \E body \in Bodies :
       /\ Validate(upd[u].cur, body)
       /\ enr' = [enr EXCEPT ![upd[u].id] = Patched(@, upd[u].cur, body)]
  /\ upd' = [upd EXCEPT ![u] = Idle]
  /\ UNCHANGED <<batch, capacity, create, move>>

\* A failed validation, a lost connection or a cancelled context: rollback.
AbandonPatch(u) ==
  /\ upd[u] # Idle
  /\ upd' = [upd EXCEPT ![u] = Idle]
  /\ UNCHANGED <<db, create, move>>

-----------------------------------------------------------------------------
(* The other writers *)

ValidateBatchTransition(cur, next) ==
  <<cur, next>> \in {<<"upcoming", "ongoing">>, <<"ongoing", "completed">>}

\* BatchService.TransitionStatus reads and validates in one statement ...
ReadTransition(a) ==
  /\ move[a] = NoMove
  /\ \E b \in Batches, to \in BatchStatus :
       /\ ValidateBatchTransition(batch[b], to)
       /\ move' = [move EXCEPT ![a] = [batch |-> b, to |-> to]]
  /\ UNCHANGED <<db, create, upd>>

\* ... and writes in another, whatever the status has become.
WriteTransition(a) ==
  /\ move[a] # NoMove
  /\ batch' = IF batch[move[a].batch] = "deleted" THEN batch
              ELSE [batch EXCEPT ![move[a].batch] = move[a].to]
  /\ move' = [move EXCEPT ![a] = NoMove]
  /\ UNCHANGED <<capacity, enr, create, upd>>

\* The request fails between the two.
AbandonTransition(a) ==
  /\ move[a] # NoMove
  /\ move' = [move EXCEPT ![a] = NoMove]
  /\ UNCHANGED <<db, create, upd>>

\* Mutant: enrollments.batch_id without REFERENCES batches.
DeleteBatchNoForeignKey(b) ==
  /\ batch[b] # "deleted"
  /\ Active(b) = {}
  /\ b \notin Scheduled
  /\ batch' = [batch EXCEPT ![b] = "deleted"]
  /\ UNCHANGED <<capacity, enr, create, others>>

\* DeleteBatchIfEmpty: no active enrollment, and no row of any kind that the
\* foreign keys of enrollments and schedules still point to it from.  It waits
\* for an uncommitted INSERT, whose foreign key check locks the batch row.
DeleteBatch(b) ==
  /\ batch[b] # "deleted"
  /\ Active(b) = {}
  /\ References(b) = {}
  /\ b \notin Scheduled
  /\ \A r \in Requests : pc[r] = "committing" => req[r].batch # b
  /\ batch' = [batch EXCEPT ![b] = "deleted"]
  /\ UNCHANGED <<capacity, enr, create, others>>

\* PATCH /courses/:id with a max_capacity, null included.
SetCapacity(c) ==
  /\ \E v \in Caps : capacity' = [capacity EXCEPT ![c] = v]
  /\ UNCHANGED <<batch, enr, create, others>>

-----------------------------------------------------------------------------

Next ==
  \/ \E r \in Requests : CreateStep(r) \/ Fail(r)
  \/ \E u \in Updaters : LockRow(u) \/ ApplyPatch(u) \/ AbandonPatch(u)
  \/ \E a \in Admins :
       ReadTransition(a) \/ WriteTransition(a) \/ AbandonTransition(a)
  \/ \E b \in Batches : DeleteBatch(b)
  \/ \E c \in Courses : SetCapacity(c)

Spec == Init /\ [][Next]_vars

\* Every request is served by a goroutine that runs on until it answers.
\* Nothing forces admins, updaters or failures to act.
Fairness == \A r \in Requests : WF_vars(CreateStep(r))

FairSpec == Spec /\ Fairness

-----------------------------------------------------------------------------
(* Properties *)

Written(r) == {i \in Ids : enr[i] # NoRow /\ i[1] = r}

Commits(r) == Written(r) = {} /\ Written(r)' # {}

\* An enrollment that read a capacity never leaves its batch with more active
\* rows than that capacity, whatever committed while it ran: the check and the
\* INSERT of repo.Create are one atomic step to everybody who counts.
CapacityHonoured ==
  [][\A r \in Requests :
       Commits(r) /\ snap[r].cap # NoCap
         => Cardinality(Active(req[r].batch)') <= snap[r].cap]_vars

\* However the retry, the unique index and other requests interleave, a student
\* has one row per batch: neither two requests nor the two attempts of one
\* request both insert.  A dropped row counts, so that who left cannot come back;
\* docs/functional-requirement-diagram.md:744 wants "New enrollment after drop =
\* new record".
OnePerPair ==
  \A i, j \in Ids :
    /\ enr[i] # NoRow
    /\ enr[j] # NoRow
    /\ enr[i].student = enr[j].student
    /\ enr[i].batch = enr[j].batch
    => i = j

\* Deleting a batch never races with an enrollment so as to leave a row whose
\* batch is gone.
NoOrphan ==
  \A i \in Ids : enr[i] # NoRow => batch[enr[i].batch] # "deleted"

\* What the client is told is what the ledger holds: a 201 stands for one row,
\* and a refusal, on either attempt, leaves nothing behind.  Only a 500 is
\* ambiguous, when the acknowledgement of the commit was lost.
AnswerMatchesLedger ==
  \A r \in Requests :
    /\ resp[r] = "created" => Cardinality(Written(r)) = 1
    /\ resp[r] \notin {"created", "error"} => Written(r) = {}

\* A 409 is never the request's own doing: the retry after a serialization
\* failure does not collide with a row of the first attempt.
DuplicateIsAnothers ==
  \A r \in Requests :
    resp[r] = "duplicate" =>
      \E i \in Ids : enr[i] # NoRow /\ i[1] # r /\ SamePair(r, enr[i])

\* A final grade is set only on an enrollment that is completed, and stays so:
\* concurrent PATCHes of one row cannot combine into anything else.
GradeOnlyOnCompleted ==
  \A i \in Ids : enr[i] # NoRow /\ enr[i].graded => enr[i].status = "completed"

PaymentRank == [pending |-> 0, partial |-> 1, paid |-> 2]

\* An enrollment is never removed, never leaves "dropped" or "completed", and
\* its payment never goes back, whatever stale state a PATCH validated.
LedgerHistory ==
  [][\A i \in Ids :
       enr[i] # NoRow =>
         /\ enr'[i] # NoRow
         /\ enr[i].status # "enrolled" => enr'[i].status = enr[i].status
         /\ PaymentRank[enr[i].payment] <= PaymentRank[enr'[i].payment]]_vars

\* What the advisory lock buys: once a request holds it with a snapshot that
\* misses no enrollment of its batch, none will come, and SSI need not abort it
\* for its own batch.
HolderStaysFresh ==
  [][\A r \in Requests :
       pc[r] \in InTx \ {"waiting"} /\ clash[r] # "missed"
         => clash'[r] # "missed"]_vars

\* Every enrollment request is answered: the advisory lock is released on every
\* path out of the transaction, and the retry happens once.
Answered == \A r \in Requests : <>(pc[r] = "done")

-----------------------------------------------------------------------------
(* What a document says and the code keeps only while two contend. *)

\* docs/functional-requirement-diagram.md:814 "Advisory lock ... serializes;
\* second request gets 422": contention alone never answers a 500.
ContentionGetsAVerdict ==
  \A r \in Requests : resp[r] # "unserializable"
=============================================================================
