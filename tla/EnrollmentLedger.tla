-------------------------- MODULE EnrollmentLedger --------------------------
(***************************************************************************)
(* What enrollment promises, with no transactions, locks or retries: a     *)
(* ledger of enrollments that grows by one row at a time, holds one row    *)
(* per student and batch and at most Limit active rows per batch, and      *)
(* whose rows only move forward.                                           *)
(***************************************************************************)
EXTENDS Naturals, FiniteSets

CONSTANTS Students, Batches, Limit

VARIABLE ledger

Entry == [student : Students, batch : Batches,
          status  : {"enrolled", "dropped", "completed"},
          payment : {"pending", "partial", "paid"}, graded : BOOLEAN]

ActiveEntries(b) == {e \in ledger : e.batch = b /\ e.status # "dropped"}

Init == ledger = {}

Enroll(s, b) ==
  /\ \A e \in ledger : ~(e.student = s /\ e.batch = b)
  /\ Cardinality(ActiveEntries(b)) < Limit
  /\ ledger' = ledger \cup {[student |-> s, batch |-> b, status |-> "enrolled",
                             payment |-> "pending", graded |-> FALSE]}

\* A row may be settled once, paid further, and graded once it is completed.
Forward(old, new) ==
  /\ new.student = old.student /\ new.batch = old.batch
  /\ old.status # "enrolled" => new.status = old.status
  /\ old.payment = "paid" => new.payment = "paid"
  /\ old.payment = "partial" => new.payment # "pending"
  /\ new.graded => new.status = "completed"

Amend(old) ==
  \E new \in Entry :
    /\ Forward(old, new)
    /\ ledger' = (ledger \ {old}) \cup {new}

Next ==
  \/ \E s \in Students, b \in Batches : Enroll(s, b)
  \/ \E old \in ledger : Amend(old)

Spec == Init /\ [][Next]_ledger
=============================================================================
