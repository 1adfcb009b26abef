---------------------------- MODULE MCEnrollment ----------------------------
(* Instances of Enrollment for TLC. *)
EXTENDS Enrollment, TLC

CONSTANTS r1, r2, r3, s1, s2, s3, b1, b2, c1, k1

OneCourse == [b \in Batches |-> c1]
OneKey    == [b \in Batches |-> k1]

\* The bodies that set only the status, and every body.
StatusBodies == {[status |-> st, payment |-> Unset, grade |-> Unset] :
                   st \in {"dropped", "completed"}}
AllBodies    == PatchBodies

CreateSymmetry == Permutations(Requests) \cup Permutations(Students)
=============================================================================
