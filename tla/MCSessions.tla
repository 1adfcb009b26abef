----------------------------- MODULE MCSessions -----------------------------
(* Instances of Sessions for TLC. *)
EXTENDS Sessions, TLC

CONSTANTS l1, l2, r1, r2, o1, f1, p1, a1

MCKindOf ==
  [r \in Requests |->
     CASE r \in {l1, l2} -> "login"
       [] r \in {r1, r2} -> "refresh"
       [] r = o1 -> "logout"
       [] r = f1 -> "forgot"
       [] r = p1 -> "reset"
       [] r = a1 -> "update"]

\* Logins, and refreshes, differ in nothing but their names.
Alike == Permutations({l1, l2}) \cup Permutations({r1, r2})

\* a1 deactivates the user.
Patches == [a \in Of("update") |-> [role |-> Unset, status |-> "inactive"]]
=============================================================================
