---------------------------- MODULE MCTimetable ----------------------------
(* Instances of Timetable for TLC: two weeks, the batch meets on Mondays. *)
EXTENDS Timetable, TLC

CONSTANTS r1, r2, r3, s1, o1

Mondays0 == s1 :> [day |-> 0, recurrence |-> "weekly", from |-> 0, until |-> 13]

\* The first Monday was moved to the second Wednesday.
Moved0 == o1 :> [slot |-> s1, date |-> 0, type |-> "reschedule", newDate |-> 9, newTime |-> Null]

S(day, recurrence, from, until) ==
  [day |-> day, recurrence |-> recurrence, from |-> from, until |-> until]
O(date, type, newDate, newTime) ==
  [date |-> date, type |-> type, newDate |-> newDate, newTime |-> newTime]

Slots(targets, bodies) == [op : {"patchSlot"}, target : targets, body : bodies]
Exceptions(op, targets, bodies, callers) ==
  [op : {op}, target : targets, body : bodies, caller : callers]

SlotCalls ==
  [op : {"createSlot"}, body :
    {S(2, "weekly", 0, 13), S(3, "one-time", 3, Null), S(4, "weekly", 7, Null)}]
  \cup Slots({s1},
    {S(1, Null, Null, Null), S(Null, Null, Null, 6), S(Null, Null, 7, Null), S(0, "one-time", Null, Null)})
  \cup Slots(Requests, {S(Null, Null, Null, 13)})
  \cup [op : {"deleteSlot"}, target : {s1} \cup Requests]

OverrideCalls ==
  Exceptions("createOverride", {s1},
    {O(0, "reschedule", 2, Null), O(0, "instructor_change", Null, Null), O(7, "reschedule", 1, "later"),
     O(7, "reschedule", Null, Null)}, {"staff"})
  \cup Exceptions("createOverride", {s1}, {O(7, "instructor_change", Null, Null)}, {"teacher"})
  \cup Exceptions("createOverride", Requests, {O(2, "reschedule", 10, Null)}, {"staff"})
  \cup Exceptions("patchOverride", {o1} \cup Requests, {O(Null, Null, 3, Null)}, {"staff"})
  \cup Exceptions("patchOverride", {o1} \cup Requests, {O(Null, Null, Null, "later")}, {"instructor", "teacher"})
  \cup [op : {"deleteOverride"}, target : {o1}]

\* Without week_start, on the Wednesday of the second week.
Now == [day |-> 9, zone |-> "Local"]

AllCalls == SlotCalls \cup OverrideCalls \cup [op : {"weekly"}, start : {UTC(3), UTC(9), Now}]

Symmetry == Permutations(Requests)
=============================================================================
