----------------------------- MODULE Timetable -----------------------------
(***************************************************************************)
(* The schedule slots of a batch, their overrides and the weekly calendar. *)
(*                                                                         *)
(* Every handler reads, checks and writes in READ COMMITTED, statement by  *)
(* statement, without a transaction and without a lock.  A step is one     *)
(* statement and what the service does with its result.  Dates are         *)
(* numbers, and date 0 is a Monday; what the calendar compares are instants *)
(* of Go, a date in a location.  A slot has its weekday, recurrence        *)
(* and range, an override its slot, date, type, new date and new time;     *)
(* rooms, reasons and instructors are left out.  The batch may be deleted  *)
(* by its own handler; the session count of its course does not change.    *)
(***************************************************************************)
EXTENDS Integers, FiniteSetsExt

CONSTANTS
  Requests,
  Calls,       \* what clients may send
  Slots0,      \* the slots there are at first, by id
  Overrides0,  \* the overrides there are at first, by id
  SessionCount,\* of the course; 0 is no limit
  MaxDay,      \* bound: the last date
  Offset,      \* half days that the server's time zone is ahead of UTC
  Null,        \* SQL NULL, a field that a body leaves out
  NoRow, NoCall, NoView

Days      == 0 .. MaxDay
Weekdays  == 0 .. 6
Weekday(d) == d % 7
Mondays   == {d \in Days : Weekday(d) = 0}

\* A time.Time at midnight.  What was parsed or read from a DATE is in UTC,
\* time.Now() in Local, a location of its own even where it is not ahead.
Time      == [day : Days, zone : {"UTC", "Local"}]
UTC(d)    == [day |-> d, zone |-> "UTC"]
Instant(t) == 2 * t.day - (IF t.zone = "Local" THEN Offset ELSE 0)

\* A new row has a fresh id, named for the request that creates it.
SlotIds     == DOMAIN Slots0 \cup Requests
OverrideIds == DOMAIN Overrides0 \cup Requests

Types == {"reschedule", "instructor_change"}

Slot     == [day : Weekdays, recurrence : {"weekly", "one-time"},
             from : Days, until : Days \cup {Null}]
Override == [slot : SlotIds, date : Days, type : Types,
             newDate : Days \cup {Null}, newTime : {"later", Null}]

\* createScheduleReq, updateScheduleReq, createOverrideReq, updateOverrideReq.
SlotBody  == [day : Weekdays \cup {Null}, recurrence : {"weekly", "one-time", Null},
              from : Days \cup {Null}, until : Days \cup {Null}]
OverrideBody == [date : Days \cup {Null}, type : Types \cup {Null},
                 newDate : Days \cup {Null}, newTime : {"later", Null}]

\* A caller is of the staff, teaches the batch, or teaches another one.
Callers == {"staff", "instructor", "teacher"}

SlotCall ==
  [op : {"createSlot"}, body : SlotBody] \cup
  [op : {"patchSlot"}, target : SlotIds, body : SlotBody]
OverrideCall ==
  [op : {"createOverride"}, target : SlotIds, body : OverrideBody, caller : Callers] \cup
  [op : {"patchOverride"}, target : OverrideIds, body : OverrideBody, caller : Callers]
PlainCall ==
  [op : {"deleteSlot"}, target : SlotIds] \cup
  [op : {"deleteOverride"}, target : OverrideIds] \cup
  [op : {"weekly"}, start : Time]

Call == SlotCall \cup OverrideCall \cup PlainCall

\* What createSchedule and createOverride demand of a body; a PATCH may leave
\* out any field.
WellFormedSlot(c) ==
  c.op = "createSlot" => Null \notin {c.body.day, c.body.recurrence, c.body.from}
WellFormedOverride(c) == c.op = "createOverride" => Null \notin {c.body.date, c.body.type}

\* validateOverrideType.
FitsType(type, newDate, newTime) ==
  /\ type = "reschedule" => newDate # Null
  /\ type = "instructor_change" => newDate = Null /\ newTime = Null

Fits(o) == FitsType(o.type, o.newDate, o.newTime)

ASSUME TimetableAssumption ==
  /\ MaxDay \in Nat /\ Weekday(MaxDay) = 6
  /\ IsFiniteSet(SlotIds)
  /\ SessionCount \in Nat
  /\ Offset \in {-1, 0, 1}
  /\ Slots0 \in [DOMAIN Slots0 -> Slot]
  /\ Overrides0 \in [DOMAIN Overrides0 -> Override]
  /\ Requests \cap (DOMAIN Slots0 \cup DOMAIN Overrides0) = {}
  /\ \A o \in DOMAIN Overrides0 :
       Overrides0[o].slot \in DOMAIN Slots0 /\ Fits(Overrides0[o])
  /\ \A o, p \in DOMAIN Overrides0 :
       /\ Overrides0[o].slot = Overrides0[p].slot
       /\ Overrides0[o].date = Overrides0[p].date
       => o = p
  /\ \A c \in Calls : c \in Call /\ WellFormedSlot(c) /\ WellFormedOverride(c)
  /\ NoCall \notin Call
  /\ NoRow \notin Slot \cup Override
  /\ NoView \notin [SlotIds -> Slot \cup {NoRow}]
  /\ Null \notin Days \cup Weekdays
  /\ Null \notin Types \cup {"weekly", "one-time", "later"}

VARIABLES
  batch,     \* is the batch there
  slot,      \* the table schedules
  override,  \* the table schedule_overrides
  call,      \* what each request asks for
  pc,        \* where it is
  saw,       \* the slot as a PATCH read it, or the one an override is checked with
  sawOver,   \* the override as a PATCH read it
  view,      \* the slots as a calendar read them
  alone,     \* history: nobody wrote a slot since the request counted
  resp       \* its response

vars == <<batch, slot, override, call, pc, saw, sawOver, view, alone, resp>>

Labels  == {"new", "batch", "slot", "count", "write", "overrides", "done"}
Answers == {"ok", "missing", "forbidden", "invalid", "error"}

TypeOK ==
  /\ batch \in BOOLEAN
  /\ slot \in [SlotIds -> Slot \cup {NoRow}]
  /\ override \in [OverrideIds -> Override \cup {NoRow}]
  /\ call \in [Requests -> Calls \cup {NoCall}]
  /\ pc \in [Requests -> Labels]
  /\ saw \in [Requests -> Slot \cup {NoRow}]
  /\ sawOver \in [Requests -> Override \cup {NoRow}]
  /\ view \in [Requests -> [SlotIds -> Slot \cup {NoRow}] \cup {NoView}]
  /\ alone \in [Requests -> BOOLEAN]
  /\ resp \in [Requests -> Answers \cup {"none"}]

Init ==
  /\ batch = TRUE
  /\ slot = [s \in SlotIds |-> IF s \in DOMAIN Slots0 THEN Slots0[s] ELSE NoRow]
  /\ override = [o \in OverrideIds |->
                   IF o \in DOMAIN Overrides0 THEN Overrides0[o] ELSE NoRow]
  /\ call = [r \in Requests |-> NoCall]
  /\ pc = [r \in Requests |-> "new"]
  /\ saw = [r \in Requests |-> NoRow]
  /\ sawOver = [r \in Requests |-> NoRow]
  /\ view = [r \in Requests |-> NoView]
  /\ alone = [r \in Requests |-> FALSE]
  /\ resp = [r \in Requests |-> "none"]

-----------------------------------------------------------------------------
(* Requests *)

Op(r)     == IF call[r] = NoCall THEN "none" ELSE call[r].op
Target(r) == call[r].target
BodyOf(r) == call[r].body

At(r, op, label) == pc[r] = label /\ Op(r) = op

Receive(r, op, c) ==
  /\ pc[r] = "new"
  /\ c \in Calls /\ c.op = op
  /\ call' = [call EXCEPT ![r] = c]

Goto(r, label) ==
  /\ pc' = [pc EXCEPT ![r] = label]
  /\ UNCHANGED resp

Answer(r, a) ==
  /\ pc' = [pc EXCEPT ![r] = "done"]
  /\ resp' = [resp EXCEPT ![r] = a]

\* A statement that wrote is answered, or its answer is lost.
Written(r) == Answer(r, "ok") \/ Answer(r, "error")

SlotThere(s)     == slot[s] # NoRow
OverrideThere(o) == override[o] # NoRow

-----------------------------------------------------------------------------
(* Counting sessions against the session count of the course *)

\* The dates on which a slot meets, as validateOriginalDate has them.
InRange(s, d) == s.from <= d /\ (s.until # Null => d <= s.until)
Meets(s, d)   == InRange(s, d) /\ Weekday(d) = s.day

CountExpandedSessions(s) ==
  IF s.until = Null THEN 0
  ELSE IF s.recurrence = "one-time" THEN 1
  ELSE Cardinality({d \in Days : Meets(s, d)})

\* Mutant: a PATCH is not counted, or only as the slot was.
TotalUnchanged(table, s, new) ==
  LET count(t) == IF table[t] = NoRow THEN 0 ELSE CountExpandedSessions(table[t])
  IN MapThenSumSet(count, DOMAIN table)

\* The sessions of the batch if slot s were as new says.
TotalWith(table, s, new) ==
  LET count(t) == IF table[t] = NoRow THEN 0 ELSE CountExpandedSessions(table[t])
  IN CountExpandedSessions(new) + MapThenSumSet(count, DOMAIN table \ {s})

\* Only a slot with an end is counted, and only against a positive limit.
Counts(new) == new.until # Null /\ SessionCount > 0

-----------------------------------------------------------------------------
(* POST /batches/:id/schedules, PATCH and DELETE /schedules/:id *)

\* A one-time slot without an end ends on its first day.
NewSlot(body) ==
  [body EXCEPT !.until = IF body.recurrence = "one-time" /\ @ = Null THEN body.from ELSE @]

\* Mutant: what a body leaves out is written as it is.
ValueOrRaw(field, existing) == field

ValueOr(field, existing) == IF field = Null THEN existing ELSE field

\* mergeScheduleUpdate; null never clears the end, sent or not.
MergedSlot(existing, body) ==
  [day        |-> ValueOr(body.day, existing.day),
   recurrence |-> ValueOr(body.recurrence, existing.recurrence),
   from       |-> ValueOr(body.from, existing.from),
   until      |-> ValueOr(body.until, existing.until)]

\* The slot that a request is about to write, and where.
SlotOf(r) ==
  IF Op(r) = "createSlot" THEN NewSlot(BodyOf(r)) ELSE MergedSlot(saw[r], BodyOf(r))
PlaceOf(r) == IF Op(r) = "createSlot" THEN r ELSE Target(r)

\* GetBatchForSchedule comes first.
FindBatch(r) ==
  \E c \in Calls :
    /\ Receive(r, "createSlot", c)
    /\ \/ ~batch /\ Answer(r, "missing")
       \/ batch /\ Goto(r, IF Counts(NewSlot(c.body)) THEN "count" ELSE "write")
    /\ UNCHANGED <<batch, slot, override, saw, sawOver, view, alone>>

ReadSlot(r) ==
  \E c \in Calls :
    /\ Receive(r, "patchSlot", c)
    /\ \/ ~SlotThere(c.target) /\ Answer(r, "missing") /\ UNCHANGED saw
       \/ /\ SlotThere(c.target)
          /\ saw' = [saw EXCEPT ![r] = slot[c.target]]
          /\ Goto(r, IF MergedSlot(slot[c.target], c.body).until # Null
                     THEN "batch" ELSE "write")
    /\ UNCHANGED <<batch, slot, override, sawOver, view, alone>>

\* The batch of a PATCH that has an end; that it is gone is an internal error.
FindBatchOfSlot(r) ==
  /\ At(r, "patchSlot", "batch")
  /\ \/ ~batch /\ Answer(r, "error")
     \/ batch /\ Goto(r, IF Counts(SlotOf(r)) THEN "count" ELSE "write")
  /\ UNCHANGED <<batch, slot, override, call, saw, sawOver, view, alone>>

\* ListSchedulesByBatchForCount and the comparison.
CountSlots(r) ==
  /\ Op(r) \in {"createSlot", "patchSlot"} /\ pc[r] = "count"
  /\ IF TotalWith(slot, PlaceOf(r), SlotOf(r)) > SessionCount
     THEN Answer(r, "invalid") ELSE Goto(r, "write")
  /\ alone' = [alone EXCEPT ![r] = TRUE]
  /\ UNCHANGED <<batch, slot, override, call, saw, sawOver, view>>

\* A slot was written: whoever has counted before is no longer alone.
StoreSlot(r) ==
  /\ slot' = [slot EXCEPT ![PlaceOf(r)] = SlotOf(r)]
  /\ alone' = [q \in Requests |-> FALSE]
  /\ Written(r)

\* INSERT; the foreign key demands the batch.
InsertSlot(r) ==
  /\ At(r, "createSlot", "write")
  /\ \/ ~batch /\ Answer(r, "error") /\ UNCHANGED <<slot, alone>>
     \/ batch /\ StoreSlot(r)
  /\ UNCHANGED <<batch, override, call, saw, sawOver, view>>

\* UPDATE of all columns as merged.
WriteSlot(r) ==
  /\ At(r, "patchSlot", "write")
  /\ \/ ~SlotThere(Target(r)) /\ Answer(r, "missing") /\ UNCHANGED <<slot, alone>>
     \/ SlotThere(Target(r)) /\ StoreSlot(r)
  /\ UNCHANGED <<batch, override, call, saw, sawOver, view>>

\* Mutant: the foreign key of the overrides does not cascade.
DeleteSlotAlone(r) ==
  \E c \in Calls :
    /\ Receive(r, "deleteSlot", c)
    /\ slot' = [slot EXCEPT ![c.target] = NoRow]
    /\ Written(r)
    /\ UNCHANGED <<batch, override, saw, sawOver, view, alone>>

\* DELETE with its cascade; it reports no row that was not there.
DeleteSlot(r) ==
  \E c \in Calls :
    /\ Receive(r, "deleteSlot", c)
    /\ slot' = [slot EXCEPT ![c.target] = NoRow]
    /\ override' = [o \in OverrideIds |->
                      IF OverrideThere(o) /\ override[o].slot = c.target
                      THEN NoRow ELSE override[o]]
    /\ Written(r)
    /\ UNCHANGED <<batch, saw, sawOver, view, alone>>

-----------------------------------------------------------------------------
(* POST /schedules/:id/overrides, PATCH and DELETE /schedule-overrides/:id *)

\* A teacher may only touch the overrides of the batches that are theirs.
Allowed(r) == call[r].caller # "teacher"

\* GetScheduleByID.
LookUpSlot(r, s) ==
  \/ ~SlotThere(s) /\ Answer(r, "missing") /\ UNCHANGED saw
  \/ SlotThere(s) /\ saw' = [saw EXCEPT ![r] = slot[s]] /\ Goto(r, "batch")

FindSlot(r) ==
  \E c \in Calls :
    /\ Receive(r, "createOverride", c)
    /\ LookUpSlot(r, c.target)
    /\ UNCHANGED <<batch, slot, override, sawOver, view, alone>>

\* The batch, the permission, the date and the fields, in this order.
CheckOverride(r) ==
  /\ At(r, "createOverride", "batch")
  /\ LET b == BodyOf(r)
         valid == Meets(saw[r], b.date) /\ FitsType(b.type, b.newDate, b.newTime)
     IN \/ ~batch /\ Answer(r, "error")
        \/ batch /\ ~Allowed(r) /\ Answer(r, "forbidden")
        \/ batch /\ Allowed(r) /\ ~valid /\ Answer(r, "invalid")
        \/ batch /\ Allowed(r) /\ valid /\ Goto(r, "write")
  /\ UNCHANGED <<batch, slot, override, call, saw, sawOver, view, alone>>

\* The override of a slot on a date.
IsFor(o, s, d) == OverrideThere(o) /\ override[o].slot = s /\ override[o].date = d

Stored(o, fields) ==
  [override EXCEPT ![o] = [slot |-> @.slot, date |-> @.date, type |-> @.type,
                           newDate |-> fields.newDate, newTime |-> fields.newTime]]

\* Mutant: the upsert inserts whether or not there is a conflict.
UpsertBlind(r) ==
  /\ At(r, "createOverride", "write")
  /\ SlotThere(Target(r))
  /\ override' = [override EXCEPT ![r] =
       [slot |-> Target(r), date |-> BodyOf(r).date, type |-> BodyOf(r).type,
        newDate |-> BodyOf(r).newDate, newTime |-> BodyOf(r).newTime]]
  /\ Written(r)
  /\ UNCHANGED <<batch, slot, call, saw, sawOver, view, alone>>

\* INSERT ... ON CONFLICT (schedule_id, original_date) DO UPDATE, which keeps the
\* id and the type of the row; the foreign key demands the slot.
UpsertOverride(r) ==
  /\ At(r, "createOverride", "write")
  /\ LET b == BodyOf(r) IN
     \/ ~SlotThere(Target(r)) /\ Answer(r, "error") /\ UNCHANGED override
     \/ /\ SlotThere(Target(r))
        /\ \/ \E o \in OverrideIds :
                IsFor(o, Target(r), b.date) /\ override' = Stored(o, b)
           \/ /\ \A o \in OverrideIds : ~IsFor(o, Target(r), b.date)
              /\ override' = [override EXCEPT ![r] =
                   [slot |-> Target(r), date |-> b.date, type |-> b.type,
                    newDate |-> b.newDate, newTime |-> b.newTime]]
        /\ Written(r)
  /\ UNCHANGED <<batch, slot, call, saw, sawOver, view, alone>>

ReadOverride(r) ==
  \E c \in Calls :
    /\ Receive(r, "patchOverride", c)
    /\ \/ ~OverrideThere(c.target) /\ Answer(r, "missing") /\ UNCHANGED sawOver
       \/ /\ OverrideThere(c.target)
          /\ sawOver' = [sawOver EXCEPT ![r] = override[c.target]]
          /\ Goto(r, "slot")
    /\ UNCHANGED <<batch, slot, override, saw, view, alone>>

FindSlotOfOverride(r) ==
  /\ At(r, "patchOverride", "slot")
  /\ LookUpSlot(r, sawOver[r].slot)
  /\ UNCHANGED <<batch, slot, override, call, sawOver, view, alone>>

\* mergeOverrideUpdate.
MergedOverride(existing, body) ==
  [newDate |-> ValueOr(body.newDate, existing.newDate),
   newTime |-> ValueOr(body.newTime, existing.newTime)]

\* Mutant: the body is validated and not what it is merged into.
CheckMergeBody(r) ==
  /\ At(r, "patchOverride", "batch")
  /\ batch /\ Allowed(r)
  /\ FitsType(sawOver[r].type, sawOver[r].newDate, BodyOf(r).newTime)
  /\ Goto(r, "write")
  /\ UNCHANGED <<batch, slot, override, call, saw, sawOver, view, alone>>

CheckMerge(r) ==
  /\ At(r, "patchOverride", "batch")
  /\ LET m == MergedOverride(sawOver[r], BodyOf(r))
         valid == FitsType(sawOver[r].type, m.newDate, m.newTime)
     IN \/ ~batch /\ Answer(r, "error")
        \/ batch /\ ~Allowed(r) /\ Answer(r, "forbidden")
        \/ batch /\ Allowed(r) /\ ~valid /\ Answer(r, "invalid")
        \/ batch /\ Allowed(r) /\ valid /\ Goto(r, "write")
  /\ UNCHANGED <<batch, slot, override, call, saw, sawOver, view, alone>>

\* UPDATE of all columns as merged, but the type and the date.
WriteOverride(r) ==
  /\ At(r, "patchOverride", "write")
  /\ \/ ~OverrideThere(Target(r)) /\ Answer(r, "missing") /\ UNCHANGED override
     \/ /\ OverrideThere(Target(r))
        /\ override' = Stored(Target(r), MergedOverride(sawOver[r], BodyOf(r)))
        /\ Written(r)
  /\ UNCHANGED <<batch, slot, call, saw, sawOver, view, alone>>

DeleteOverride(r) ==
  \E c \in Calls :
    /\ Receive(r, "deleteOverride", c)
    /\ override' = [override EXCEPT ![c.target] = NoRow]
    /\ Written(r)
    /\ UNCHANGED <<batch, slot, saw, sawOver, view, alone>>

-----------------------------------------------------------------------------
(* GET /schedules/weekly *)

\* It keeps the location, and so do the days that are counted from it.
truncateToMonday(t) == [t EXCEPT !.day = @ - Weekday(@)]
AddDays(t, n)       == [t EXCEPT !.day = @ + n]

\* The days of a week that begins at a Monday, and the dates of it that a
\* statement is given.
DaysOf(monday) == {AddDays(monday, n) : n \in 0..6}
Week(m)        == m .. m + 6

\* Is a date of a row in the week?
inWeek(d, monday) ==
  /\ d # Null
  /\ Instant(UTC(d)) >= Instant(monday)
  /\ Instant(UTC(d)) <= Instant(AddDays(monday, 6))

\* ListSchedulesForWeek.
Visible(table, m) ==
  {s \in SlotIds :
     /\ table[s] # NoRow
     /\ table[s].from <= m + 6
     /\ table[s].until # Null => table[s].until >= m}

\* GetOverridesByScheduleIDs.
OverridesForWeek(slots, m) ==
  {o \in OverrideIds :
     /\ OverrideThere(o) /\ override[o].slot \in slots
     /\ \/ override[o].date \in Week(m)
        \/ override[o].type = "reschedule" /\ override[o].newDate \in Week(m)}

Session(s, original, date) == [slot |-> s, original |-> original, date |-> date]

\* ExpandWeek: does the slot meet on a day of the week?
MeetsOn(s, t) ==
  /\ Instant(t) >= Instant(UTC(s.from))
  /\ s.until # Null => Instant(t) <= Instant(UTC(s.until))
  /\ Weekday(t.day) = s.day

\* What overrideMap has for the meeting, if it moves it.  Keys are compared with
\* their locations.
Moving(overrides, s, t) ==
  {o \in overrides :
     override[o].slot = s /\ UTC(override[o].date) = t /\ override[o].type = "reschedule"}

\* The date of a meeting, as the override of it has it.
DateOf(overrides, s, t) ==
  IF Moving(overrides, s, t) = {} THEN t.day
  ELSE override[CHOOSE o \in Moving(overrides, s, t) : TRUE].newDate

\* The meetings in the week, unless they were moved out of it ...
Own(table, overrides, monday) ==
  LET meetings == {y \in Visible(table, monday.day) \X DaysOf(monday) :
                     MeetsOn(table[y[1]], y[2])}
      staying  == {y \in meetings : \A o \in Moving(overrides, y[1], y[2]) :
                                     inWeek(override[o].newDate, monday)}
  IN {Session(y[1], y[2].day, DateOf(overrides, y[1], y[2])) : y \in staying}

\* Mutant: what moves within the week is taken for incoming as well.
IncomingAll(overrides, monday) ==
  {Session(override[o].slot, override[o].date, override[o].newDate) :
     o \in {p \in overrides :
              override[p].type = "reschedule" /\ inWeek(override[p].newDate, monday)}}

\* ... and what was moved into it from another week.
Incoming(overrides, monday) ==
  {Session(override[o].slot, override[o].date, override[o].newDate) :
     o \in {p \in overrides :
              /\ override[p].type = "reschedule" /\ inWeek(override[p].newDate, monday)
              /\ ~inWeek(override[p].date, monday)}}

\* The sessions of a week, told apart by where ExpandWeek takes them from.
ExpandWeek(table, monday) ==
  LET overrides == OverridesForWeek(Visible(table, monday.day), monday.day) IN
  ({"own"} \X Own(table, overrides, monday)) \cup
  ({"incoming"} \X Incoming(overrides, monday))

ReadWeek(r) ==
  \E c \in Calls :
    /\ Receive(r, "weekly", c)
    /\ view' = [view EXCEPT ![r] = slot]
    /\ IF Visible(slot, truncateToMonday(c.start).day) = {}
       THEN Answer(r, "ok") ELSE Goto(r, "overrides")
    /\ UNCHANGED <<batch, slot, override, saw, sawOver, alone>>

ReadOverrides(r) ==
  /\ At(r, "weekly", "overrides")
  /\ Answer(r, "ok")
  /\ UNCHANGED <<batch, slot, override, call, saw, sawOver, view, alone>>

-----------------------------------------------------------------------------

\* A statement fails, or the client leaves.
Fail(r) ==
  /\ pc[r] # "done"
  /\ Answer(r, "error")
  /\ UNCHANGED <<batch, slot, override, call, saw, sawOver, view, alone>>

\* DeleteBatchIfEmpty: the slots of a batch forbid it, by their foreign key.
DeleteBatch ==
  /\ batch /\ \A s \in SlotIds : ~SlotThere(s)
  /\ batch' = FALSE
  /\ UNCHANGED <<slot, override, call, pc, saw, sawOver, view, alone, resp>>

Step(r) ==
  \/ FindBatch(r) \/ ReadSlot(r) \/ FindBatchOfSlot(r) \/ CountSlots(r)
  \/ InsertSlot(r) \/ WriteSlot(r) \/ DeleteSlot(r)
  \/ FindSlot(r) \/ CheckOverride(r) \/ UpsertOverride(r)
  \/ ReadOverride(r) \/ FindSlotOfOverride(r) \/ CheckMerge(r) \/ WriteOverride(r)
  \/ DeleteOverride(r)
  \/ ReadWeek(r) \/ ReadOverrides(r)
  \/ Fail(r)

Next == DeleteBatch \/ \E r \in Requests : Step(r)

Spec == Init /\ [][Next]_vars

-----------------------------------------------------------------------------
(* Properties *)

\* No override outlives its slot and no slot its batch, although each is looked
\* up long before the row that refers to it is inserted.
NoDangling ==
  /\ \A o \in OverrideIds : OverrideThere(o) => SlotThere(override[o].slot)
  /\ \A s \in SlotIds : SlotThere(s) => batch

\* A meeting of a slot on a date has one override at most, however many requests
\* create one at the same time.
OverrideOnce ==
  \A o, p \in OverrideIds :
    OverrideThere(o) /\ IsFor(p, override[o].slot, override[o].date) => o = p

\* Moved to a week that the slot does not reach, or moved without a date: the
\* calendar shows such a meeting nowhere.
Vanished(s, d) ==
  \E o \in OverrideIds :
    /\ IsFor(o, s, d) /\ override[o].type = "reschedule"
    /\ \/ override[o].newDate = Null
       \/ s \notin Visible(slot, truncateToMonday(UTC(override[o].newDate)).day)

Shown(sessions, s, d) == Cardinality({x \in sessions : x[2].slot = s /\ x[2].original = d})

\* A calendar about to be answered, and its week.
Expanding(r) == At(r, "weekly", "overrides")
MondayOf(r)  == truncateToMonday(call[r].start)

\* For who asks for the weeks by their dates, the calendar shows every meeting
\* once over all weeks, wherever it was moved, and none twice; nor does a single
\* answer whose two reads differ.
ShownOnce ==
  LET all == UNION {{m} \X ExpandWeek(slot, UTC(m)) : m \in Mondays} IN
  /\ \A s \in SlotIds, d \in Days :
       LET shown == Cardinality({x \in all : x[2][2].slot = s /\ x[2][2].original = d}) IN
       /\ shown <= 1
       /\ SlotThere(s) /\ Meets(slot[s], d) /\ ~Vanished(s, d) => shown = 1
  /\ \A r \in Requests : Expanding(r) /\ call[r].start.zone = "UTC" =>
       \A s \in SlotIds, d \in Days : Shown(ExpandWeek(view[r], MondayOf(r)), s, d) <= 1

\* docs/openapi.yml:1306 "Monday of the target week (defaults to current week).":
\* without week_start the answer is the one for the Monday of that week.
DefaultsToCurrentWeek ==
  \A r \in Requests : Expanding(r) =>
    ExpandWeek(view[r], MondayOf(r)) = ExpandWeek(view[r], UTC(MondayOf(r).day))

\* docs/openapi.yml:1376 "Session count cap is re-enforced": a slot with an end
\* that nobody else wrote beside keeps the batch within the session count.
CapWhenAlone ==
  [][\A r \in Requests :
       /\ pc[r] = "write" /\ alone[r]
       /\ slot'[PlaceOf(r)] # slot[PlaceOf(r)]
       /\ resp'[r] # resp[r]
       => TotalWith(slot', PlaceOf(r), slot'[PlaceOf(r)]) <= SessionCount]_vars

\* An override that fits its type goes on fitting it, whatever PATCHes merge
\* into what they read before: only the upsert of another type breaks it.
FitsStays ==
  [][\A o \in OverrideIds :
       /\ OverrideThere(o) /\ Fits(override[o])
       /\ override'[o] # NoRow /\ ~Fits(override'[o])
       => \E r \in Requests :
            /\ At(r, "createOverride", "write") /\ resp'[r] # resp[r]
            /\ BodyOf(r).type # override[o].type]_vars
=============================================================================
