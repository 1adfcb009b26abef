------------------------ MODULE EnrollmentRefinement ------------------------
(* The concurrent enrollment service implements the sequential ledger. *)
EXTENDS Enrollment

CONSTANT Limit  \* no course is ever given a larger capacity, and none has none

ASSUME LimitAssumption == Limit \in Nat /\ Caps \subseteq 0..Limit

\* What table enrollments says, without row ids and the derived course_id.
EntryOf(row) == [student |-> row.student, batch |-> row.batch,
                 status |-> row.status, payment |-> row.payment,
                 graded |-> row.graded]

Table == {EntryOf(enr[i]) : i \in {j \in Ids : enr[j] # NoRow}}

Ledger == INSTANCE EnrollmentLedger WITH ledger <- Table

\* Every behaviour of the transactional service, with its stale snapshots,
\* retries, lost acknowledgements and concurrent PATCHes, is a behaviour of the
\* atomic ledger: a commit is one Enroll, an applied PATCH one Amend.
ImplementsLedger == Ledger!Spec
=============================================================================
