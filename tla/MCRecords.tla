----------------------------- MODULE MCRecords -----------------------------
(* Instances of Records for TLC. *)
EXTENDS Records, TLC

CONSTANTS r1, r2, r3, u1, s1, c1, b1, k1, k2, n1, n2

R(kind, status, who) ==
  [kind |-> kind, key |-> k1, note |-> n1, status |-> status, who |-> who]

\* A teacher, a student, a course and its batch.
OneOfEach ==
  u1 :> R("user", "active", "teacher") @@ s1 :> R("student", "active", Nobody) @@
  c1 :> R("course", "active", Nobody)  @@ b1 :> R("batch", "upcoming", u1)

B(key, note, status, who) == [key |-> key, note |-> note, status |-> status, who |-> who]
Nothing == B(Unset, Unset, Unset, Unset)

New(kind, who)        == [op |-> "create", kind |-> kind, target |-> NoRow,
                          body |-> B(k2, Unset, Unset, who)]
On(op, x, body)       == [op |-> op, kind |-> OneOfEach[x].kind, target |-> x, body |-> body]
Become(x, status)     == On("transition", x, B(Unset, Unset, status, Unset))

Creations == {New("user", "teacher"), New("student", Nobody), New("course", Nobody),
              New("batch", u1)}
Patches ==
  {On("patch", x, B(k2, Unset, Unset, Unset)) : x \in {u1, s1, c1, b1}} \cup
  {On("patch", x, B(Unset, n2, Unset, Unset)) : x \in {u1, c1}} \cup
  {On("patch", c1, B(Unset, Null, Unset, Unset)),
   On("patch", u1, B(Unset, Unset, "inactive", Unset)),
   On("patch", b1, B(Unset, n2, Unset, u1))}
Lifecycle == {Become(b1, "ongoing"), Become(b1, "completed"),
              On("archive", c1, Nothing), On("delete", b1, Nothing)}

AllCalls == Creations \cup Patches \cup Lifecycle

Symmetry == Permutations(Requests)
=============================================================================
