-------------------------- MODULE TimetableProofs --------------------------
(***************************************************************************)
(* For every set of requests, every catalogue of well-formed calls, every  *)
(* timetable at first and every calendar: no override outlives its slot    *)
(* and no slot its batch, a meeting has one override, and only an upsert   *)
(* of another type takes an override out of the shape of its type.  The    *)
(* calendar shows a meeting once, and who counts and writes alone keeps    *)
(* the session count.                                                      *)
(*                                                                         *)
(* The argument: an override keeps its slot, its date and its type for     *)
(* life, so the type that a PATCH validated its merge against is still the *)
(* type of the row when it writes; the constraints of the tables do the    *)
(* rest, whatever was looked up before.                                    *)
(***************************************************************************)
EXTENDS Timetable, FiniteSetTheorems, WellFoundedInduction, TLAPS

Working(r) == pc[r] \notin {"new", "done"}

\* A request that is under way has been received, and a PATCH has read its row.
Reads ==
  \A r \in Requests : Working(r) =>
    /\ call[r] \in Calls
    /\ Op(r) = "patchSlot" => saw[r] \in Slot
    /\ Op(r) = "patchOverride" => sawOver[r] \in Override

\* There is no answer before the end.
AnswerAtEnd == \A r \in Requests : pc[r] # "done" => resp[r] = "none"

\* A request inserts once, at its end.
NotYet == \A r \in Requests : pc[r] # "done" => override[r] = NoRow

\* An override that a PATCH read is not inserted again under it ...
ReadDone ==
  \A r \in Requests : Working(r) /\ Op(r) = "patchOverride" /\ Target(r) \in Requests =>
    pc[Target(r)] = "done"

\* ... and has the type that the PATCH read.
SameType ==
  \A r \in Requests : Working(r) /\ Op(r) = "patchOverride" /\ OverrideThere(Target(r)) =>
    override[Target(r)].type = sawOver[r].type

\* What is about to be written was validated.
Validated ==
  \A r \in Requests : pc[r] = "write" =>
    /\ Op(r) = "createOverride" =>
         FitsType(BodyOf(r).type, BodyOf(r).newDate, BodyOf(r).newTime)
    /\ Op(r) = "patchOverride" =>
         LET m == MergedOverride(sawOver[r], BodyOf(r))
         IN FitsType(sawOver[r].type, m.newDate, m.newTime)

TimetableInv ==
  /\ TypeOK
  /\ Reads
  /\ AnswerAtEnd
  /\ NotYet
  /\ ReadDone
  /\ SameType
  /\ Validated
  /\ NoDangling
  /\ OverrideOnce

-----------------------------------------------------------------------------
(* Names and calls *)

LEMMA Names ==
  /\ Requests \subseteq SlotIds /\ Requests \subseteq OverrideIds
  /\ \A o \in DOMAIN Overrides0 : o \in OverrideIds /\ o \notin Requests
  /\ \A s \in DOMAIN Slots0 : s \in SlotIds /\ s \notin Requests
  /\ NoRow \notin Slot /\ NoRow \notin Override
  /\ NoCall \notin Calls
  /\ \A c \in Calls : c \in Call /\ WellFormedSlot(c) /\ WellFormedOverride(c)
BY TimetableAssumption DEF SlotIds, OverrideIds

LEMMA CallShape ==
  ASSUME NEW c \in Calls
  PROVE  /\ c # NoCall
         /\ c.op \in {"createSlot", "patchSlot", "createOverride", "patchOverride",
                      "deleteSlot", "deleteOverride", "weekly"}
         /\ c.op \in {"createSlot", "patchSlot"} => c.body \in SlotBody
         /\ c.op \in {"createOverride", "patchOverride"} => c.body \in OverrideBody
         /\ c.op \in {"patchSlot", "createOverride", "deleteSlot"} => c.target \in SlotIds
         /\ c.op \in {"patchOverride", "deleteOverride"} => c.target \in OverrideIds
         /\ c.op = "createSlot" =>
              c.body.day # Null /\ c.body.recurrence # Null /\ c.body.from # Null
         /\ c.op = "createOverride" => c.body.date # Null /\ c.body.type # Null
<1>1. c \in Call /\ WellFormedSlot(c) /\ WellFormedOverride(c) /\ c # NoCall
  BY Names
<1>2. CASE c \in SlotCall
  BY <1>1, <1>2 DEF SlotCall, WellFormedSlot
<1>3. CASE c \in OverrideCall
  BY <1>1, <1>3 DEF OverrideCall, WellFormedOverride
<1>4. CASE c \in PlainCall
  BY <1>1, <1>4 DEF PlainCall
<1>. QED BY <1>1, <1>2, <1>3, <1>4 DEF Call

LEMMA NewSlotShape ==
  ASSUME NEW body \in SlotBody, body.day # Null, body.recurrence # Null, body.from # Null
  PROVE  NewSlot(body) \in Slot
<1>1. /\ body.day \in Weekdays /\ body.recurrence \in {"weekly", "one-time"}
      /\ body.from \in Days /\ body.until \in Days \cup {Null}
  BY DEF SlotBody
<1>2. NewSlot(body) =
        [day |-> body.day, recurrence |-> body.recurrence, from |-> body.from,
         until |-> IF body.recurrence = "one-time" /\ body.until = Null
                   THEN body.from ELSE body.until]
  BY DEF NewSlot, SlotBody
<1>. QED BY <1>1, <1>2 DEF Slot

LEMMA MergedSlotShape ==
  ASSUME NEW existing \in Slot, NEW body \in SlotBody
  PROVE  MergedSlot(existing, body) \in Slot
<1>1. /\ existing.day \in Weekdays /\ existing.recurrence \in {"weekly", "one-time"}
      /\ existing.from \in Days /\ existing.until \in Days \cup {Null}
  BY DEF Slot
<1>2. /\ body.day \in Weekdays \cup {Null}
      /\ body.recurrence \in {"weekly", "one-time", Null}
      /\ body.from \in Days \cup {Null} /\ body.until \in Days \cup {Null}
  BY DEF SlotBody
<1>. QED BY <1>1, <1>2 DEF MergedSlot, ValueOr, Slot

\* The slot that a request writes is one.
LEMMA SlotOfShape ==
  ASSUME NEW r \in Requests, call[r] \in Calls,
         \/ Op(r) = "createSlot"
         \/ Op(r) = "patchSlot" /\ saw[r] \in Slot
  PROVE  SlotOf(r) \in Slot /\ PlaceOf(r) \in SlotIds
<1>1. call[r] # NoCall /\ Op(r) = call[r].op
  BY Names DEF Op
<1>2. CASE Op(r) = "createSlot"
  BY <1>1, <1>2, Names, CallShape, NewSlotShape DEF SlotOf, PlaceOf, BodyOf
<1>3. CASE Op(r) = "patchSlot" /\ saw[r] \in Slot
  BY <1>1, <1>3, CallShape, MergedSlotShape DEF SlotOf, PlaceOf, BodyOf, Target
<1>. QED BY <1>2, <1>3

LEMMA MergedOverrideShape ==
  ASSUME NEW existing \in Override, NEW body \in OverrideBody
  PROVE  /\ MergedOverride(existing, body).newDate \in Days \cup {Null}
         /\ MergedOverride(existing, body).newTime \in {"later", Null}
<1>1. /\ existing.newDate \in Days \cup {Null} /\ existing.newTime \in {"later", Null}
      /\ body.newDate \in Days \cup {Null} /\ body.newTime \in {"later", Null}
  BY DEF Override, OverrideBody
<1>. QED BY <1>1 DEF MergedOverride, ValueOr

\* What an UPDATE of an override leaves alone.
LEMMA StoredShape ==
  ASSUME TypeOK, NEW o \in OverrideIds, override[o] # NoRow, NEW fields,
         fields.newDate \in Days \cup {Null}, fields.newTime \in {"later", Null}
  PROVE  /\ Stored(o, fields) \in [OverrideIds -> Override \cup {NoRow}]
         /\ \A p \in OverrideIds \ {o} : Stored(o, fields)[p] = override[p]
         /\ Stored(o, fields)[o] \in Override
         /\ Stored(o, fields)[o].slot = override[o].slot
         /\ Stored(o, fields)[o].date = override[o].date
         /\ Stored(o, fields)[o].type = override[o].type
         /\ Stored(o, fields)[o].newDate = fields.newDate
         /\ Stored(o, fields)[o].newTime = fields.newTime
<1>. DEFINE old == override[o]
            new == [slot |-> old.slot, date |-> old.date, type |-> old.type,
                    newDate |-> fields.newDate, newTime |-> fields.newTime]
<1>1. /\ old \in Override
      /\ old.slot \in SlotIds /\ old.date \in Days /\ old.type \in Types
  BY DEF TypeOK, Override
<1>2. new \in Override
  BY <1>1 DEF Override
<1>3. Stored(o, fields) = [override EXCEPT ![o] = new]
  BY DEF Stored
<1>. QED BY <1>2, <1>3 DEF TypeOK

-----------------------------------------------------------------------------
(* One step *)

\* A step of r is about r, and of the others it touches at most alone.
LEMMA OthersKeep ==
  ASSUME TypeOK, NEW r \in Requests, Step(r)
  PROVE  /\ \A q \in Requests \ {r} :
              /\ pc'[q] = pc[q] /\ call'[q] = call[q] /\ resp'[q] = resp[q]
              /\ saw'[q] = saw[q] /\ sawOver'[q] = sawOver[q]
         /\ batch' = batch
         /\ pc[r] # "new" => call'[r] = call[r]
         /\ pc[r] # "done" /\ pc'[r] # "new"
         /\ pc'[r] # "done" => resp'[r] = resp[r]
         /\ pc' \in [Requests -> Labels]
         /\ resp' \in [Requests -> Answers \cup {"none"}]
         /\ call' \in [Requests -> Calls \cup {NoCall}]
         /\ alone' \in [Requests -> BOOLEAN]
<1>. USE DEF TypeOK, Labels, Answers, Goto, Answer, Receive, Written, At
<1>1. CASE FindBatch(r) BY <1>1 DEF FindBatch
<1>2. CASE ReadSlot(r) BY <1>2 DEF ReadSlot
<1>3. CASE FindBatchOfSlot(r) BY <1>3 DEF FindBatchOfSlot
<1>4. CASE CountSlots(r) BY <1>4 DEF CountSlots
<1>5. CASE InsertSlot(r) BY <1>5 DEF InsertSlot, StoreSlot
<1>6. CASE WriteSlot(r) BY <1>6 DEF WriteSlot, StoreSlot
<1>7. CASE DeleteSlot(r) BY <1>7 DEF DeleteSlot
<1>8. CASE FindSlot(r) BY <1>8 DEF FindSlot, LookUpSlot
<1>9. CASE CheckOverride(r) BY <1>9 DEF CheckOverride
<1>10. CASE UpsertOverride(r) BY <1>10 DEF UpsertOverride
<1>11. CASE ReadOverride(r) BY <1>11 DEF ReadOverride
<1>12. CASE FindSlotOfOverride(r) BY <1>12 DEF FindSlotOfOverride, LookUpSlot
<1>13. CASE CheckMerge(r) BY <1>13 DEF CheckMerge
<1>14. CASE WriteOverride(r) BY <1>14 DEF WriteOverride
<1>15. CASE DeleteOverride(r) BY <1>15 DEF DeleteOverride
<1>16. CASE ReadWeek(r) BY <1>16 DEF ReadWeek
<1>17. CASE ReadOverrides(r) BY <1>17 DEF ReadOverrides
<1>18. CASE Fail(r) BY <1>18 DEF Fail
<1>. QED BY <1>1, <1>2, <1>3, <1>4, <1>5, <1>6, <1>7, <1>8, <1>9,
           <1>10, <1>11, <1>12, <1>13, <1>14, <1>15, <1>16, <1>17, <1>18 DEF Step

\* What r knows after its step.
LEMMA OwnStep ==
  ASSUME TypeOK, Reads, NEW r \in Requests, Step(r), pc'[r] # "done"
  PROVE  /\ call'[r] \in Calls
         /\ Op(r)' = call'[r].op
         /\ Op(r)' = "patchSlot" => saw'[r] \in Slot
         /\ Op(r)' = "patchOverride" => sawOver'[r] \in Override
<1>. USE Names, CallShape DEF TypeOK, Reads, Working, Labels, Goto, Answer, Receive, Written, At,
         Op, SlotThere, OverrideThere
<1>1. CASE FindBatch(r) BY <1>1 DEF FindBatch
<1>2. CASE ReadSlot(r) BY <1>2 DEF ReadSlot
<1>3. CASE FindBatchOfSlot(r) BY <1>3 DEF FindBatchOfSlot
<1>4. CASE CountSlots(r) BY <1>4 DEF CountSlots
<1>5. CASE InsertSlot(r) BY <1>5 DEF InsertSlot, StoreSlot
<1>6. CASE WriteSlot(r) BY <1>6 DEF WriteSlot, StoreSlot
<1>7. CASE DeleteSlot(r) BY <1>7 DEF DeleteSlot
<1>8. CASE FindSlot(r) BY <1>8 DEF FindSlot, LookUpSlot
<1>9. CASE CheckOverride(r) BY <1>9 DEF CheckOverride
<1>10. CASE UpsertOverride(r) BY <1>10 DEF UpsertOverride
<1>11. CASE ReadOverride(r) BY <1>11 DEF ReadOverride
<1>12. CASE FindSlotOfOverride(r) BY <1>12 DEF FindSlotOfOverride, LookUpSlot
<1>13. CASE CheckMerge(r) BY <1>13 DEF CheckMerge
<1>14. CASE WriteOverride(r) BY <1>14 DEF WriteOverride
<1>15. CASE DeleteOverride(r) BY <1>15 DEF DeleteOverride
<1>16. CASE ReadWeek(r) BY <1>16 DEF ReadWeek
<1>17. CASE ReadOverrides(r) BY <1>17 DEF ReadOverrides
<1>18. CASE Fail(r) BY <1>18 DEF Fail
<1>. QED BY <1>1, <1>2, <1>3, <1>4, <1>5, <1>6, <1>7, <1>8, <1>9,
           <1>10, <1>11, <1>12, <1>13, <1>14, <1>15, <1>16, <1>17, <1>18 DEF Step

LEMMA SawTypes ==
  ASSUME TypeOK, Reads, NEW r \in Requests, Step(r)
  PROVE  /\ saw' \in [Requests -> Slot \cup {NoRow}]
         /\ sawOver' \in [Requests -> Override \cup {NoRow}]
         /\ view' \in [Requests -> [SlotIds -> Slot \cup {NoRow}] \cup {NoView}]
<1>. USE CallShape DEF TypeOK, Receive, SlotThere, OverrideThere
<1>1. CASE FindBatch(r) BY <1>1 DEF FindBatch
<1>2. CASE ReadSlot(r) BY <1>2 DEF ReadSlot
<1>3. CASE FindBatchOfSlot(r) BY <1>3 DEF FindBatchOfSlot
<1>4. CASE CountSlots(r) BY <1>4 DEF CountSlots
<1>5. CASE InsertSlot(r) BY <1>5 DEF InsertSlot, StoreSlot
<1>6. CASE WriteSlot(r) BY <1>6 DEF WriteSlot, StoreSlot
<1>7. CASE DeleteSlot(r) BY <1>7 DEF DeleteSlot
<1>8. CASE FindSlot(r) BY <1>8 DEF FindSlot, LookUpSlot
<1>9. CASE CheckOverride(r) BY <1>9 DEF CheckOverride
<1>10. CASE UpsertOverride(r) BY <1>10 DEF UpsertOverride
<1>11. CASE ReadOverride(r) BY <1>11 DEF ReadOverride
<1>12. CASE FindSlotOfOverride(r)
  <2>1. sawOver[r] \in Override
    BY <1>12 DEF FindSlotOfOverride, At, Reads, Working
  <2>2. sawOver[r].slot \in SlotIds
    BY <2>1 DEF Override
  <2>. QED BY <1>12, <2>2 DEF FindSlotOfOverride, LookUpSlot
<1>13. CASE CheckMerge(r) BY <1>13 DEF CheckMerge
<1>14. CASE WriteOverride(r) BY <1>14 DEF WriteOverride
<1>15. CASE DeleteOverride(r) BY <1>15 DEF DeleteOverride
<1>16. CASE ReadWeek(r) BY <1>16 DEF ReadWeek
<1>17. CASE ReadOverrides(r) BY <1>17 DEF ReadOverrides
<1>18. CASE Fail(r) BY <1>18 DEF Fail
<1>. QED BY <1>1, <1>2, <1>3, <1>4, <1>5, <1>6, <1>7, <1>8, <1>9,
           <1>10, <1>11, <1>12, <1>13, <1>14, <1>15, <1>16, <1>17, <1>18 DEF Step

\* The steps that write slots, and those that write overrides.
LEMMA WhoWrites ==
  ASSUME NEW r \in Requests, Step(r)
  PROVE  /\ slot' = slot \/ InsertSlot(r) \/ WriteSlot(r) \/ DeleteSlot(r)
         /\ override' = override \/ UpsertOverride(r) \/ WriteOverride(r)
              \/ DeleteOverride(r) \/ DeleteSlot(r)
<1>1. slot' = slot \/ InsertSlot(r) \/ WriteSlot(r) \/ DeleteSlot(r)
  BY DEF Step, FindBatch, ReadSlot, FindBatchOfSlot, CountSlots, FindSlot, CheckOverride,
         UpsertOverride, ReadOverride, FindSlotOfOverride, CheckMerge, WriteOverride,
         DeleteOverride, ReadWeek, ReadOverrides, Fail
<1>2. override' = override \/ UpsertOverride(r) \/ WriteOverride(r)
        \/ DeleteOverride(r) \/ DeleteSlot(r)
  BY DEF Step, FindBatch, ReadSlot, FindBatchOfSlot, CountSlots, FindSlot, CheckOverride,
         InsertSlot, WriteSlot, ReadOverride, FindSlotOfOverride, CheckMerge,
         ReadWeek, ReadOverrides, Fail
<1>. QED BY <1>1, <1>2

\* Slots appear only in a batch, and disappear with their overrides.
LEMMA SlotStep ==
  ASSUME TypeOK, Reads, NEW r \in Requests, Step(r)
  PROVE  /\ slot' \in [SlotIds -> Slot \cup {NoRow}]
         /\ \A s \in SlotIds : slot'[s] # NoRow => batch \/ slot[s] # NoRow
         /\ \A s \in SlotIds : slot[s] # NoRow /\ slot'[s] = NoRow =>
              \A o \in OverrideIds : override'[o] # NoRow =>
                override'[o] = override[o] /\ override[o].slot # s
<1>1. CASE slot' = slot
  BY <1>1 DEF TypeOK
<1>2. CASE InsertSlot(r) \/ WriteSlot(r)
  <2>1. pc[r] = "write" /\ call[r] \in Calls
    BY <1>2 DEF InsertSlot, WriteSlot, At, Reads, Working
  <2>2. \/ Op(r) = "createSlot"
        \/ Op(r) = "patchSlot" /\ saw[r] \in Slot
    <3>1. Op(r) \in {"createSlot", "patchSlot"}
      BY <1>2 DEF InsertSlot, WriteSlot, At
    <3>2. Op(r) = "patchSlot" => saw[r] \in Slot
      BY <2>1 DEF Reads, Working
    <3>. QED BY <3>1, <3>2
  <2>3. SlotOf(r) \in Slot /\ PlaceOf(r) \in SlotIds
    BY <2>1, <2>2, SlotOfShape
  <2>4. \/ slot' = slot
        \/ slot' = [slot EXCEPT ![PlaceOf(r)] = SlotOf(r)]
    BY <1>2 DEF InsertSlot, WriteSlot, StoreSlot
  <2>5. CASE slot' # slot
    <3>1. batch \/ slot[PlaceOf(r)] # NoRow
      BY <1>2, <2>5 DEF InsertSlot, WriteSlot, StoreSlot, At, PlaceOf, SlotThere
    <3>. QED BY <2>3, <2>4, <2>5, <3>1, Names DEF TypeOK
  <2>. QED BY <1>1, <2>5
<1>3. CASE DeleteSlot(r)
  <2>1. PICK c \in Calls : c.op = "deleteSlot" /\ slot' = [slot EXCEPT ![c.target] = NoRow]
                           /\ override' = [o \in OverrideIds |->
                                IF OverrideThere(o) /\ override[o].slot = c.target
                                THEN NoRow ELSE override[o]]
    BY <1>3 DEF DeleteSlot, Receive
  <2>2. c.target \in SlotIds
    BY <2>1, CallShape
  <2>3. \A s \in SlotIds : slot'[s] = IF s = c.target THEN NoRow ELSE slot[s]
    BY <2>1, <2>2 DEF TypeOK
  <2>4. slot' \in [SlotIds -> Slot \cup {NoRow}]
    BY <2>1 DEF TypeOK
  <2>. QED BY <2>1, <2>3, <2>4 DEF OverrideThere
<1>. QED BY <1>1, <1>2, <1>3, WhoWrites

\* What may happen to the override at x in a step of r.
Keeps(x) ==
  override'[x] # NoRow =>
    /\ override[x] # NoRow
    /\ override'[x].slot = override[x].slot
    /\ override'[x].date = override[x].date
    /\ override'[x].type = override[x].type

Inserts(r) ==
  /\ At(r, "createOverride", "write")
  /\ SlotThere(Target(r)) /\ slot' = slot
  /\ pc' = [pc EXCEPT ![r] = "done"]
  /\ \A o \in OverrideIds : ~IsFor(o, Target(r), BodyOf(r).date)
  /\ \A x \in OverrideIds \ {r} : override'[x] = override[x]
  /\ override'[r] # NoRow
  /\ override'[r].slot = Target(r)
  /\ override'[r].date = BodyOf(r).date

LEMMA UpsertStep ==
  ASSUME TypeOK, Reads, NEW r \in Requests, UpsertOverride(r)
  PROVE  /\ override' \in [OverrideIds -> Override \cup {NoRow}]
         /\ (\A x \in OverrideIds : Keeps(x)) \/ Inserts(r)
         /\ \A x \in OverrideIds :
              override[x] # NoRow /\ override'[x] # NoRow /\ override'[x] # override[x] =>
                \/ x = r
                \/ /\ override'[x].type = override[x].type
                   /\ override'[x].newDate = BodyOf(r).newDate
                   /\ override'[x].newTime = BodyOf(r).newTime
<1>. DEFINE b == BodyOf(r)
            s == Target(r)
            new == [slot |-> s, date |-> b.date, type |-> b.type,
                    newDate |-> b.newDate, newTime |-> b.newTime]
<1>1. /\ b \in OverrideBody /\ s \in SlotIds
      /\ b.date # Null /\ b.type # Null
  BY CallShape DEF UpsertOverride, At, Reads, Working, Op, BodyOf, Target
<1>2. /\ b.date \in Days /\ b.type \in Types
      /\ b.newDate \in Days \cup {Null} /\ b.newTime \in {"later", Null}
  BY <1>1 DEF OverrideBody
<1>3. CASE override' = override
  BY <1>3 DEF Keeps, TypeOK
<1>4. ASSUME NEW o \in OverrideIds, IsFor(o, s, b.date), override' = Stored(o, b)
      PROVE  /\ override' \in [OverrideIds -> Override \cup {NoRow}]
             /\ \A x \in OverrideIds : Keeps(x)
             /\ \A x \in OverrideIds : override'[x] # override[x] =>
                  /\ override'[x].type = override[x].type
                  /\ override'[x].newDate = b.newDate
                  /\ override'[x].newTime = b.newTime
  <2>1. override[o] # NoRow
    BY <1>4 DEF IsFor, OverrideThere
  <2>2. /\ override' \in [OverrideIds -> Override \cup {NoRow}]
        /\ \A p \in OverrideIds \ {o} : override'[p] = override[p]
        /\ override'[o].slot = override[o].slot
        /\ override'[o].date = override[o].date
        /\ override'[o].type = override[o].type
        /\ override'[o].newDate = b.newDate
        /\ override'[o].newTime = b.newTime
    BY <1>2, <1>4, <2>1, StoredShape
  <2>. QED BY <2>1, <2>2 DEF Keeps
<1>5. ASSUME \A o \in OverrideIds : ~IsFor(o, s, b.date), SlotThere(s),
             override' = [override EXCEPT ![r] = new]
      PROVE  /\ override' \in [OverrideIds -> Override \cup {NoRow}]
             /\ Inserts(r)
             /\ \A x \in OverrideIds \ {r} : override'[x] = override[x]
  <2>1. new \in Override
    BY <1>1, <1>2 DEF Override
  <2>2. r \in OverrideIds /\ new # NoRow
    BY <2>1, Names
  <2>3. /\ override' \in [OverrideIds -> Override \cup {NoRow}]
        /\ override'[r] = new
        /\ \A x \in OverrideIds \ {r} : override'[x] = override[x]
    BY <1>5, <2>1, <2>2 DEF TypeOK
  <2>4. slot' = slot /\ At(r, "createOverride", "write")
    BY DEF UpsertOverride
  <2>5. pc' = [pc EXCEPT ![r] = "done"]
    BY DEF UpsertOverride, Written, Answer
  <2>6. new.slot = s /\ new.date = b.date
    OBVIOUS
  <2>. HIDE DEF new
  <2>. QED BY <1>5, <2>2, <2>3, <2>4, <2>5, <2>6 DEF Inserts
<1>6. \/ override' = override
      \/ \E o \in OverrideIds : IsFor(o, s, b.date) /\ override' = Stored(o, b)
      \/ /\ \A o \in OverrideIds : ~IsFor(o, s, b.date)
         /\ SlotThere(s) /\ override' = [override EXCEPT ![r] = new]
  BY DEF UpsertOverride
<1>. HIDE DEF b, s, new
<1>7. CASE \E o \in OverrideIds : IsFor(o, s, b.date) /\ override' = Stored(o, b)
  BY <1>4, <1>7 DEF b
<1>. QED BY <1>3, <1>5, <1>6, <1>7

LEMMA WriteOverrideStep ==
  ASSUME TypeOK, Reads, NEW r \in Requests, WriteOverride(r)
  PROVE  /\ override' \in [OverrideIds -> Override \cup {NoRow}]
         /\ \A x \in OverrideIds : Keeps(x)
         /\ \A x \in OverrideIds : override'[x] # override[x] =>
              LET m == MergedOverride(sawOver[r], BodyOf(r)) IN
              /\ x = Target(r)
              /\ override'[x].type = override[x].type
              /\ override'[x].newDate = m.newDate
              /\ override'[x].newTime = m.newTime
<1>. DEFINE o == Target(r)
            m == MergedOverride(sawOver[r], BodyOf(r))
<1>0. Op(r) = "patchOverride" /\ pc[r] = "write"
  BY DEF WriteOverride, At
<1>1. call[r] \in Calls /\ Op(r) = call[r].op /\ sawOver[r] \in Override
  BY <1>0, Names DEF Reads, Working, Op
<1>2. BodyOf(r) \in OverrideBody /\ o \in OverrideIds
  BY <1>0, <1>1, CallShape DEF BodyOf, Target
<1>3. m.newDate \in Days \cup {Null} /\ m.newTime \in {"later", Null}
  BY <1>1, <1>2, MergedOverrideShape
<1>4. override' = override \/ (override[o] # NoRow /\ override' = Stored(o, m))
  BY DEF WriteOverride, OverrideThere
<1>. HIDE DEF o, m
<1>5. CASE override' = override
  BY <1>5 DEF Keeps, TypeOK
<1>6. CASE override[o] # NoRow /\ override' = Stored(o, m)
  <2>1. /\ override' \in [OverrideIds -> Override \cup {NoRow}]
        /\ \A p \in OverrideIds \ {o} : override'[p] = override[p]
        /\ override'[o].slot = override[o].slot
        /\ override'[o].date = override[o].date
        /\ override'[o].type = override[o].type
        /\ override'[o].newDate = m.newDate
        /\ override'[o].newTime = m.newTime
    BY <1>2, <1>3, <1>6, StoredShape
  <2>. QED BY <1>6, <2>1 DEF Keeps, o, m
<1>. QED BY <1>4, <1>5, <1>6

\* Overrides keep slot, date and type; they change in an upsert or in an UPDATE.
LEMMA OverrideStep ==
  ASSUME TypeOK, Reads, NEW r \in Requests, Step(r)
  PROVE  /\ override' \in [OverrideIds -> Override \cup {NoRow}]
         /\ (\A x \in OverrideIds : Keeps(x)) \/ Inserts(r)
         /\ \A x \in OverrideIds :
              override'[x] # NoRow /\ override'[x] # override[x] =>
                UpsertOverride(r) \/ WriteOverride(r)
<1>1. CASE override' = override
  BY <1>1 DEF TypeOK, Keeps
<1>2. CASE UpsertOverride(r)
  BY <1>2, UpsertStep
<1>3. CASE WriteOverride(r)
  BY <1>3, WriteOverrideStep
<1>4. CASE DeleteOverride(r)
  <2>1. PICK c \in Calls : override' = [override EXCEPT ![c.target] = NoRow]
    BY <1>4 DEF DeleteOverride
  <2>2. /\ override' \in [OverrideIds -> Override \cup {NoRow}]
        /\ \A x \in OverrideIds : override'[x] = override[x] \/ override'[x] = NoRow
    BY <2>1 DEF TypeOK
  <2>. QED BY <2>2 DEF Keeps
<1>5. CASE DeleteSlot(r)
  <2>1. PICK c \in Calls : override' = [o \in OverrideIds |->
                                IF OverrideThere(o) /\ override[o].slot = c.target
                                THEN NoRow ELSE override[o]]
    BY <1>5 DEF DeleteSlot
  <2>2. /\ override' \in [OverrideIds -> Override \cup {NoRow}]
        /\ \A x \in OverrideIds : override'[x] = override[x] \/ override'[x] = NoRow
    BY <2>1 DEF TypeOK
  <2>. QED BY <2>2 DEF Keeps
<1>. QED BY <1>1, <1>2, <1>3, <1>4, <1>5, WhoWrites

-----------------------------------------------------------------------------
(* The invariant *)

LEMMA TypeStep ==
  ASSUME TypeOK, Reads, NEW r \in Requests, Step(r)
  PROVE  TypeOK'
<1>1. /\ pc' \in [Requests -> Labels]
      /\ resp' \in [Requests -> Answers \cup {"none"}]
      /\ call' \in [Requests -> Calls \cup {NoCall}]
      /\ alone' \in [Requests -> BOOLEAN]
      /\ batch' = batch
  BY OthersKeep
<1>2. slot' \in [SlotIds -> Slot \cup {NoRow}]
  BY SlotStep
<1>3. override' \in [OverrideIds -> Override \cup {NoRow}]
  BY OverrideStep
<1>. QED BY <1>1, <1>2, <1>3, SawTypes DEF TypeOK

LEMMA ReadsStep ==
  ASSUME TypeOK, Reads, NEW r \in Requests, Step(r)
  PROVE  Reads'
<1> SUFFICES ASSUME NEW q \in Requests, Working(q)'
             PROVE  /\ call'[q] \in Calls
                    /\ Op(q)' = "patchSlot" => saw'[q] \in Slot
                    /\ Op(q)' = "patchOverride" => sawOver'[q] \in Override
  BY DEF Reads
<1>1. CASE q = r
  BY <1>1, OwnStep DEF Working
<1>2. CASE q # r
  <2>1. /\ pc'[q] = pc[q] /\ call'[q] = call[q]
        /\ saw'[q] = saw[q] /\ sawOver'[q] = sawOver[q]
    BY <1>2, OthersKeep
  <2>. QED BY <2>1 DEF Reads, Working, Op
<1>. QED BY <1>1, <1>2

LEMMA AnswerStep ==
  ASSUME TypeOK, AnswerAtEnd, NEW r \in Requests, Step(r)
  PROVE  AnswerAtEnd'
BY OthersKeep DEF AnswerAtEnd

LEMMA NotYetStep ==
  ASSUME TypeOK, Reads, NotYet, NEW r \in Requests, Step(r)
  PROVE  NotYet'
<1> SUFFICES ASSUME NEW q \in Requests, pc'[q] # "done"
             PROVE  override'[q] = NoRow
  BY DEF NotYet
<1>1. pc[q] # "done"
  BY OthersKeep
<1>2. q \in OverrideIds /\ override[q] = NoRow
  BY <1>1, Names DEF NotYet
<1>3. CASE \A x \in OverrideIds : Keeps(x)
  BY <1>2, <1>3 DEF Keeps
<1>4. CASE Inserts(r)
  <2>1. q # r
    BY <1>4 DEF Inserts, TypeOK
  <2>. QED BY <1>2, <1>4, <2>1 DEF Inserts
<1>. QED BY <1>3, <1>4, OverrideStep

\* Where a PATCH of an override is after its step.
LEMMA PatchStep ==
  ASSUME TypeOK, Reads, NEW r \in Requests, Step(r),
         pc'[r] # "done", Op(r)' = "patchOverride"
  PROVE  \/ /\ Working(r) /\ Op(r) = "patchOverride"
            /\ call'[r] = call[r] /\ sawOver'[r] = sawOver[r]
            /\ override' = override
         \/ /\ pc[r] = "new" /\ override' = override
            /\ override[call'[r].target] # NoRow
            /\ sawOver'[r] = override[call'[r].target]
            /\ call'[r] \in Calls /\ call'[r].op = "patchOverride"
            /\ pc'[r] = "slot"
<1>0. call'[r] \in Calls /\ call'[r].op = "patchOverride"
  BY OwnStep
<1>. USE Names, CallShape DEF TypeOK, Labels, Goto, Answer, Receive, Written, At, Op, Working
<1>1. CASE FindBatch(r) BY <1>0, <1>1 DEF FindBatch
<1>2. CASE ReadSlot(r) BY <1>0, <1>2 DEF ReadSlot
<1>3. CASE FindBatchOfSlot(r) BY <1>0, <1>3 DEF FindBatchOfSlot
<1>4. CASE CountSlots(r) BY <1>0, <1>4 DEF CountSlots
<1>5. CASE InsertSlot(r) BY <1>0, <1>5 DEF InsertSlot, StoreSlot
<1>6. CASE WriteSlot(r) BY <1>0, <1>6 DEF WriteSlot, StoreSlot
<1>7. CASE DeleteSlot(r) BY <1>0, <1>7 DEF DeleteSlot
<1>8. CASE FindSlot(r) BY <1>0, <1>8 DEF FindSlot, LookUpSlot
<1>9. CASE CheckOverride(r) BY <1>0, <1>9 DEF CheckOverride
<1>10. CASE UpsertOverride(r) BY <1>0, <1>10 DEF UpsertOverride
<1>11. CASE ReadOverride(r) BY <1>0, <1>11 DEF ReadOverride, OverrideThere
<1>12. CASE FindSlotOfOverride(r) BY <1>0, <1>12 DEF FindSlotOfOverride, LookUpSlot
<1>13. CASE CheckMerge(r) BY <1>0, <1>13 DEF CheckMerge
<1>14. CASE WriteOverride(r) BY <1>0, <1>14 DEF WriteOverride
<1>15. CASE DeleteOverride(r) BY <1>0, <1>15 DEF DeleteOverride
<1>16. CASE ReadWeek(r) BY <1>0, <1>16 DEF ReadWeek
<1>17. CASE ReadOverrides(r) BY <1>0, <1>17 DEF ReadOverrides
<1>18. CASE Fail(r) BY <1>0, <1>18 DEF Fail
<1>. QED BY <1>1, <1>2, <1>3, <1>4, <1>5, <1>6, <1>7, <1>8, <1>9,
           <1>10, <1>11, <1>12, <1>13, <1>14, <1>15, <1>16, <1>17, <1>18 DEF Step

\* The override that a PATCH is after has an id, and is not of a request that has
\* yet to insert.
LEMMA PatchTarget ==
  ASSUME Reads, ReadDone, NEW q \in Requests, Working(q), Op(q) = "patchOverride"
  PROVE  /\ Target(q) \in OverrideIds
         /\ \A r \in Requests : pc[r] # "done" => Target(q) # r
<1>1. call[q] \in Calls /\ call[q].op = "patchOverride"
  BY Names DEF Reads, Op
<1>2. Target(q) \in OverrideIds
  BY <1>1, CallShape DEF Target
<1>. QED BY <1>2 DEF ReadDone

LEMMA ReadDoneStep ==
  ASSUME TypeOK, Reads, NotYet, ReadDone, NEW r \in Requests, Step(r)
  PROVE  ReadDone'
<1> SUFFICES ASSUME NEW q \in Requests, Working(q)', Op(q)' = "patchOverride",
                    Target(q)' \in Requests
             PROVE  pc'[Target(q)'] = "done"
  BY DEF ReadDone
<1>1. \A t \in Requests : pc[t] = "done" => pc'[t] = "done"
  BY OthersKeep
<1>2. CASE Working(q) /\ Op(q) = "patchOverride" /\ call'[q] = call[q]
  BY <1>1, <1>2 DEF ReadDone, Target
<1>3. CASE q = r /\ override[call'[r].target] # NoRow
  <2>1. Target(q)' = call'[r].target
    BY <1>3 DEF Target
  <2>. QED BY <1>1, <1>3, <2>1 DEF NotYet
<1>4. CASE q # r
  <2>1. pc'[q] = pc[q] /\ call'[q] = call[q]
    BY <1>4, OthersKeep
  <2>. QED BY <1>2, <2>1 DEF Working, Op
<1>5. CASE q = r
  <2>1. pc'[r] # "done"
    BY <1>5 DEF Working
  <2>. QED BY <1>2, <1>3, <1>5, <2>1, PatchStep
<1>. QED BY <1>4, <1>5

LEMMA SameTypeStep ==
  ASSUME TypeOK, Reads, ReadDone, SameType, NEW r \in Requests, Step(r)
  PROVE  SameType'
<1> SUFFICES ASSUME NEW q \in Requests, Working(q)', Op(q)' = "patchOverride",
                    override'[Target(q)'] # NoRow
             PROVE  override'[Target(q)'].type = sawOver'[q].type
  BY DEF SameType, OverrideThere
<1>1. CASE q # r
  <2>1. pc'[q] = pc[q] /\ call'[q] = call[q] /\ sawOver'[q] = sawOver[q]
    BY <1>1, OthersKeep
  <2>2. Working(q) /\ Op(q) = "patchOverride" /\ Target(q)' = Target(q)
    BY <2>1 DEF Working, Op, Target
  <2>3. /\ Target(q) \in OverrideIds
        /\ pc[r] # "done" => Target(q) # r
    BY <2>2, PatchTarget
  <2>4. CASE \A x \in OverrideIds : Keeps(x)
    BY <2>1, <2>2, <2>3, <2>4 DEF Keeps, SameType, OverrideThere
  <2>5. CASE Inserts(r)
    <3>1. override'[Target(q)] = override[Target(q)]
      BY <2>3, <2>5 DEF Inserts, At
    <3>. QED BY <2>1, <2>2, <3>1 DEF SameType, OverrideThere
  <2>. QED BY <2>4, <2>5, OverrideStep
<1>2. CASE q = r
  <2>1. pc'[r] # "done" /\ Op(r)' = "patchOverride" /\ Target(r)' = call'[r].target
    BY <1>2 DEF Working, Target
  <2>2. CASE /\ Working(r) /\ Op(r) = "patchOverride"
             /\ call'[r] = call[r] /\ sawOver'[r] = sawOver[r]
             /\ override' = override
    BY <1>2, <2>1, <2>2 DEF SameType, OverrideThere, Target
  <2>3. CASE override' = override /\ sawOver'[r] = override[call'[r].target]
    BY <1>2, <2>1, <2>3
  <2>. QED BY <2>1, <2>2, <2>3, PatchStep
<1>. QED BY <1>1, <1>2

\* What r writes next, it has just validated.
LEMMA OwnValidated ==
  ASSUME TypeOK, Reads, NEW r \in Requests, Step(r), pc'[r] = "write"
  PROVE  /\ Op(r)' = "createOverride" =>
              (FitsType(BodyOf(r).type, BodyOf(r).newDate, BodyOf(r).newTime))'
         /\ Op(r)' = "patchOverride" =>
              (LET m == MergedOverride(sawOver[r], BodyOf(r))
               IN FitsType(sawOver[r].type, m.newDate, m.newTime))'
<1>. USE Names, CallShape DEF TypeOK, Labels, Goto, Answer, Receive, Written, At, Op, BodyOf
<1>1. CASE FindBatch(r) BY <1>1 DEF FindBatch
<1>2. CASE ReadSlot(r) BY <1>2 DEF ReadSlot
<1>3. CASE FindBatchOfSlot(r) BY <1>3 DEF FindBatchOfSlot
<1>4. CASE CountSlots(r) BY <1>4 DEF CountSlots
<1>5. CASE InsertSlot(r) BY <1>5 DEF InsertSlot, StoreSlot
<1>6. CASE WriteSlot(r) BY <1>6 DEF WriteSlot, StoreSlot
<1>7. CASE DeleteSlot(r) BY <1>7 DEF DeleteSlot
<1>8. CASE FindSlot(r) BY <1>8 DEF FindSlot, LookUpSlot
<1>9. CASE CheckOverride(r) BY <1>9 DEF CheckOverride
<1>10. CASE UpsertOverride(r) BY <1>10 DEF UpsertOverride
<1>11. CASE ReadOverride(r) BY <1>11 DEF ReadOverride
<1>12. CASE FindSlotOfOverride(r) BY <1>12 DEF FindSlotOfOverride, LookUpSlot
<1>13. CASE CheckMerge(r) BY <1>13 DEF CheckMerge
<1>14. CASE WriteOverride(r) BY <1>14 DEF WriteOverride
<1>15. CASE DeleteOverride(r) BY <1>15 DEF DeleteOverride
<1>16. CASE ReadWeek(r) BY <1>16 DEF ReadWeek
<1>17. CASE ReadOverrides(r) BY <1>17 DEF ReadOverrides
<1>18. CASE Fail(r) BY <1>18 DEF Fail
<1>. QED BY <1>1, <1>2, <1>3, <1>4, <1>5, <1>6, <1>7, <1>8, <1>9,
           <1>10, <1>11, <1>12, <1>13, <1>14, <1>15, <1>16, <1>17, <1>18 DEF Step

LEMMA ValidatedStep ==
  ASSUME TypeOK, Reads, Validated, NEW r \in Requests, Step(r)
  PROVE  Validated'
<1> SUFFICES ASSUME NEW q \in Requests, pc'[q] = "write"
             PROVE  /\ Op(q)' = "createOverride" =>
                         (FitsType(BodyOf(q).type, BodyOf(q).newDate, BodyOf(q).newTime))'
                    /\ Op(q)' = "patchOverride" =>
                         (LET m == MergedOverride(sawOver[q], BodyOf(q))
                          IN FitsType(sawOver[q].type, m.newDate, m.newTime))'
  BY DEF Validated
<1>1. CASE q = r
  BY <1>1, OwnValidated
<1>2. CASE q # r
  <2>1. pc'[q] = pc[q] /\ call'[q] = call[q] /\ sawOver'[q] = sawOver[q]
    BY <1>2, OthersKeep
  <2>. QED BY <2>1 DEF Validated, Op, BodyOf, MergedOverride, FitsType
<1>. QED BY <1>1, <1>2

\* The foreign keys, whatever was looked up before.
LEMMA NoDanglingStep ==
  ASSUME TypeOK, Reads, NoDangling, NEW r \in Requests, Step(r)
  PROVE  NoDangling'
<1>1. ASSUME NEW x \in OverrideIds, override'[x] # NoRow
      PROVE  slot'[override'[x].slot] # NoRow
  <2>1. CASE \A y \in OverrideIds : Keeps(y)
    <3>1. override[x] # NoRow /\ override'[x].slot = override[x].slot
      BY <1>1, <2>1 DEF Keeps
    <3>2. override[x].slot \in SlotIds /\ slot[override[x].slot] # NoRow
      BY <3>1 DEF TypeOK, Override, NoDangling, OverrideThere, SlotThere
    <3>. QED BY <1>1, <3>1, <3>2, SlotStep
  <2>2. CASE Inserts(r)
    BY <1>1, <2>2 DEF Inserts, NoDangling, OverrideThere, SlotThere
  <2>. QED BY <2>1, <2>2, OverrideStep
<1>2. ASSUME NEW s \in SlotIds, slot'[s] # NoRow
      PROVE  batch'
  BY <1>2, SlotStep, OthersKeep DEF NoDangling, SlotThere
<1>. QED BY <1>1, <1>2 DEF NoDangling, OverrideThere, SlotThere

\* The unique index, whatever was looked up before.
LEMMA OverrideOnceStep ==
  ASSUME TypeOK, Reads, OverrideOnce, NEW r \in Requests, Step(r)
  PROVE  OverrideOnce'
<1> SUFFICES ASSUME NEW o \in OverrideIds, NEW p \in OverrideIds,
                    override'[o] # NoRow, override'[p] # NoRow,
                    override'[o].slot = override'[p].slot,
                    override'[o].date = override'[p].date
             PROVE  o = p
  BY DEF OverrideOnce, OverrideThere, IsFor
<1>1. CASE \A x \in OverrideIds : Keeps(x)
  BY <1>1 DEF Keeps, OverrideOnce, OverrideThere, IsFor
<1>2. CASE Inserts(r)
  <2>1. CASE o # r /\ p # r
    BY <1>2, <2>1 DEF Inserts, OverrideOnce, OverrideThere, IsFor
  <2>2. CASE o = r /\ p # r
    BY <1>2, <2>2 DEF Inserts, OverrideThere, IsFor
  <2>3. CASE o # r /\ p = r
    BY <1>2, <2>3 DEF Inserts, OverrideThere, IsFor
  <2>. QED BY <2>1, <2>2, <2>3
<1>. QED BY <1>1, <1>2, OverrideStep

LEMMA InitInv == Init => TimetableInv
<1> SUFFICES ASSUME Init PROVE TimetableInv
  OBVIOUS
<1>. USE DEF Init
<1>1. TypeOK
  BY Names, TimetableAssumption DEF TypeOK, Labels, Answers
<1>2. Reads /\ AnswerAtEnd /\ ReadDone /\ SameType /\ Validated
  BY DEF Reads, AnswerAtEnd, ReadDone, SameType, Validated, Working
<1>3. NotYet
  BY Names DEF NotYet
<1>4. \A o \in OverrideIds :
        override[o] # NoRow => o \in DOMAIN Overrides0 /\ override[o] = Overrides0[o]
  OBVIOUS
<1>5. NoDangling
  <2>1. ASSUME NEW o \in DOMAIN Overrides0
        PROVE  slot[Overrides0[o].slot] # NoRow
    <3>1. Overrides0[o].slot \in DOMAIN Slots0
      BY TimetableAssumption
    <3>2. Slots0[Overrides0[o].slot] \in Slot
      BY <3>1, TimetableAssumption
    <3>. QED BY <3>1, <3>2, Names
  <2>. QED BY <1>4, <2>1 DEF NoDangling, OverrideThere, SlotThere
<1>6. OverrideOnce
  BY <1>4, TimetableAssumption DEF OverrideOnce, OverrideThere, IsFor
<1>. QED BY <1>1, <1>2, <1>3, <1>5, <1>6 DEF TimetableInv

LEMMA StepInv == TimetableInv /\ [Next]_vars => TimetableInv'
<1> SUFFICES ASSUME TimetableInv, [Next]_vars PROVE TimetableInv'
  OBVIOUS
<1>1. ASSUME NEW r \in Requests, Step(r) PROVE TimetableInv'
  BY <1>1, TypeStep, ReadsStep, AnswerStep, NotYetStep, ReadDoneStep, SameTypeStep,
     ValidatedStep, NoDanglingStep, OverrideOnceStep DEF TimetableInv
<1>2. CASE DeleteBatch
  <2>. USE <1>2 DEF DeleteBatch, TimetableInv
  <2>1. TypeOK'
    BY DEF TypeOK
  <2>2. Reads' /\ AnswerAtEnd' /\ NotYet' /\ ReadDone'
    BY DEF Reads, AnswerAtEnd, NotYet, ReadDone, Working, Op, Target
  <2>3. SameType' /\ Validated'
    BY DEF SameType, Validated, Working, Op, Target, BodyOf, OverrideThere
  <2>4. NoDangling' /\ OverrideOnce'
    BY DEF NoDangling, OverrideOnce, OverrideThere, SlotThere, IsFor
  <2>. QED BY <2>1, <2>2, <2>3, <2>4
<1>3. CASE UNCHANGED vars
  <2>. USE <1>3 DEF vars, TimetableInv
  <2>1. TypeOK'
    BY DEF TypeOK
  <2>2. Reads' /\ AnswerAtEnd' /\ NotYet' /\ ReadDone'
    BY DEF Reads, AnswerAtEnd, NotYet, ReadDone, Working, Op, Target
  <2>3. SameType' /\ Validated'
    BY DEF SameType, Validated, Working, Op, Target, BodyOf, OverrideThere
  <2>4. NoDangling' /\ OverrideOnce'
    BY DEF NoDangling, OverrideOnce, OverrideThere, SlotThere, IsFor
  <2>. QED BY <2>1, <2>2, <2>3, <2>4
<1>. QED BY <1>1, <1>2, <1>3 DEF Next

\* The inductive invariant of the timetable.
THEOREM TimetableInvHolds == Spec => []TimetableInv
BY InitInv, StepInv, PTL DEF Spec

\* Whatever clients send and however their statements interleave, the tables
\* hold slots and overrides, and every request is at a statement of its handler.
THEOREM TypeCorrect == Spec => []TypeOK
<1>1. TimetableInv => TypeOK
  BY DEF TimetableInv
<1>. QED BY <1>1, TimetableInvHolds, PTL

\* No override outlives its slot, no slot its batch: what the handlers look up
\* is stale by the time they insert, and the foreign keys make up for it.
THEOREM NoDanglingHolds == Spec => []NoDangling
<1>1. TimetableInv => NoDangling
  BY DEF TimetableInv
<1>. QED BY <1>1, TimetableInvHolds, PTL

\* A meeting has one override, for any number of requests that create one.
THEOREM OverrideOnceHolds == Spec => []OverrideOnce
<1>1. TimetableInv => OverrideOnce
  BY DEF TimetableInv
<1>. QED BY <1>1, TimetableInvHolds, PTL

\* An override stops fitting its type only in an upsert that asks for another.
THEOREM FitsStaysHolds == Spec => FitsStays
<1>. DEFINE Changed(o, r) ==
       /\ At(r, "createOverride", "write") /\ resp'[r] # resp[r]
       /\ BodyOf(r).type # override[o].type
<1>1. ASSUME TimetableInv, Next, NEW o \in OverrideIds,
             OverrideThere(o), Fits(override[o]), override'[o] # NoRow, ~Fits(override'[o])
      PROVE  \E r \in Requests : Changed(o, r)
  <2>1. override[o] # NoRow /\ override'[o] # override[o]
    BY <1>1 DEF OverrideThere
  <2>2. PICK r \in Requests : Step(r)
    BY <1>1, <2>1 DEF Next, DeleteBatch
  <2>3. CASE WriteOverride(r)
    <3>. DEFINE m == MergedOverride(sawOver[r], BodyOf(r))
    <3>1. Op(r) = "patchOverride" /\ pc[r] = "write"
      BY <2>3 DEF WriteOverride, At
    <3>2. FitsType(sawOver[r].type, m.newDate, m.newTime)
      BY <1>1, <3>1 DEF TimetableInv, Validated
    <3>3. /\ o = Target(r) /\ override'[o].type = override[o].type
          /\ override'[o].newDate = m.newDate /\ override'[o].newTime = m.newTime
      BY <1>1, <2>1, <2>3, WriteOverrideStep DEF TimetableInv
    <3>4. override[o].type = sawOver[r].type
      BY <1>1, <2>1, <3>1, <3>3 DEF TimetableInv, SameType, Working, OverrideThere
    <3>5. Fits(override'[o])
      BY <3>2, <3>3, <3>4 DEF Fits
    <3>. QED BY <1>1, <3>5
  <2>4. CASE UpsertOverride(r)
    <3>1. At(r, "createOverride", "write")
      BY <2>4 DEF UpsertOverride
    <3>2. FitsType(BodyOf(r).type, BodyOf(r).newDate, BodyOf(r).newTime)
      BY <1>1, <3>1 DEF TimetableInv, Validated, At
    <3>3. o # r
      BY <1>1, <2>1, <3>1 DEF TimetableInv, NotYet, At
    <3>4. /\ override'[o].type = override[o].type
          /\ override'[o].newDate = BodyOf(r).newDate
          /\ override'[o].newTime = BodyOf(r).newTime
      BY <1>1, <2>1, <2>4, <3>3, UpsertStep DEF TimetableInv
    <3>5. BodyOf(r).type # override[o].type
      BY <1>1, <3>2, <3>4 DEF Fits
    <3>6. resp'[r] # resp[r]
      <4>1. resp[r] = "none"
        BY <1>1, <3>1 DEF TimetableInv, AnswerAtEnd, At
      <4>2. resp'[r] \in {"ok", "error"}
        BY <1>1, <2>4 DEF UpsertOverride, Written, Answer, TimetableInv, TypeOK
      <4>. QED BY <4>1, <4>2
    <3>. QED BY <3>1, <3>5, <3>6
  <2>. QED BY <1>1, <2>1, <2>2, <2>3, <2>4, OverrideStep DEF TimetableInv
<1>. DEFINE Allowance ==
       \A o \in OverrideIds :
         /\ OverrideThere(o) /\ Fits(override[o])
         /\ override'[o] # NoRow /\ ~Fits(override'[o])
         => \E r \in Requests : Changed(o, r)
<1>2. TimetableInv /\ [Next]_vars => [Allowance]_vars
  BY <1>1
<1>3. Spec => [][Allowance]_vars
  BY <1>2, TimetableInvHolds, PTL DEF Spec
<1>. QED BY <1>3 DEF FitsStays

-----------------------------------------------------------------------------
(* The calendar *)

\* Every date lies in the week of its Monday, and in no other.
LEMMA MondayOfDate ==
  ASSUME NEW d \in Days
  PROVE  LET m == truncateToMonday(UTC(d)).day
         IN m \in Mondays /\ d \in Week(m) /\ truncateToMonday(UTC(d)) = UTC(m)
BY TimetableAssumption DEF Days, Mondays, truncateToMonday, UTC, Week, Weekday

LEMMA OneWeek ==
  ASSUME NEW m \in Mondays, NEW n \in Mondays, NEW d \in Week(m), d \in Week(n)
  PROVE  m = n
BY TimetableAssumption DEF Days, Mondays, Week, Weekday

LEMMA WeekOfDays ==
  ASSUME NEW m \in Mondays
  PROVE  Week(m) \subseteq Days /\ m \in Int
BY TimetableAssumption DEF Days, Mondays, Week, Weekday

LEMMA AtMostOne ==
  ASSUME NEW S, \A x, y \in S : x = y
  PROVE  Cardinality(S) <= 1 /\ (S # {} => Cardinality(S) = 1)
<1>1. CASE S = {}
  BY <1>1, FS_EmptySet
<1>2. CASE S # {}
  <2>1. PICK x : x \in S
    BY <1>2
  <2>2. S = {x}
    BY <2>1
  <2>. QED BY <2>2, FS_Singleton
<1>. QED BY <1>1, <1>2

\* The overrides that move a meeting, and the date it is moved to.
Moves(s, d) == {o \in OverrideIds : IsFor(o, s, d) /\ override[o].type = "reschedule"}
PlaceOn(s, d) == IF Moves(s, d) = {} THEN d ELSE override[CHOOSE o \in Moves(s, d) : TRUE].newDate

\* In UTC a week of instants is a week of dates.
LEMMA WeekOfDates ==
  ASSUME NEW m \in Mondays
  PROVE  /\ \A d \in Days \cup {Null} : inWeek(d, UTC(m)) <=> d \in Week(m)
         /\ \A t : t \in DaysOf(UTC(m)) <=> \E d \in Week(m) : t = UTC(d)
<1>0. m \in Int /\ Week(m) \subseteq Days
  BY WeekOfDays
<1>1. \A d \in Int : Instant(UTC(d)) = 2 * d
  BY DEF Instant, UTC
<1>2. \A n \in 0..6 : AddDays(UTC(m), n) = UTC(m + n)
  BY DEF AddDays, UTC
<1>3. ASSUME NEW d \in Days \cup {Null}
      PROVE  inWeek(d, UTC(m)) <=> d \in Week(m)
  <2>1. CASE d = Null
    BY <1>0, <2>1, TimetableAssumption DEF inWeek
  <2>2. CASE d \in Days /\ d # Null
    <3>1. d \in Int /\ Instant(UTC(d)) = 2 * d /\ Instant(UTC(m)) = 2 * m
      BY <1>0, <1>1, <2>2 DEF Days
    <3>2. Instant(AddDays(UTC(m), 6)) = 2 * (m + 6)
      BY <1>0, <1>1, <1>2
    <3>. QED BY <1>0, <2>2, <3>1, <3>2 DEF inWeek, Week
  <2>. QED BY <2>1, <2>2
<1>4. ASSUME NEW t
      PROVE  t \in DaysOf(UTC(m)) <=> \E d \in Week(m) : t = UTC(d)
  <2>1. ASSUME NEW n \in 0..6
        PROVE  m + n \in Week(m)
    BY <1>0 DEF Week
  <2>2. ASSUME NEW d \in Week(m)
        PROVE  d - m \in 0..6 /\ m + (d - m) = d
    BY <1>0 DEF Week
  <2>3. ASSUME t \in DaysOf(UTC(m))
        PROVE  \E d \in Week(m) : t = UTC(d)
    BY <1>2, <2>1, <2>3 DEF DaysOf
  <2>4. ASSUME NEW d \in Week(m), t = UTC(d)
        PROVE  t \in DaysOf(UTC(m))
    BY <1>2, <2>2, <2>4 DEF DaysOf
  <2>. QED BY <2>3, <2>4
<1>. QED BY <1>3, <1>4

LEMMA MeetsInUTC ==
  ASSUME NEW x \in Slot, NEW d \in Days
  PROVE  MeetsOn(x, UTC(d)) <=> Meets(x, d)
<1>1. x.from \in Int /\ d \in Int /\ (x.until # Null => x.until \in Int)
  BY DEF Slot, Days
<1>2. \A e \in Int : Instant(UTC(e)) = 2 * e
  BY DEF Instant, UTC
<1>3. Instant(UTC(d)) = 2 * d /\ Instant(UTC(x.from)) = 2 * x.from
  BY <1>1, <1>2
<1>4. UTC(d).day = d
  BY DEF UTC
<1>5. x.until # Null => Instant(UTC(x.until)) = 2 * x.until
  BY <1>1, <1>2
<1>. QED BY <1>1, <1>3, <1>4, <1>5 DEF MeetsOn, Meets, InRange

LEMMA SameUTC ==
  ASSUME NEW c, NEW d
  PROVE  UTC(c) = UTC(d) <=> c = d
BY DEF UTC

\* An expansion that can see a meeting sees what moves it.
LEMMA SeesMoves ==
  ASSUME NEW table, NEW m, NEW s \in Visible(table, m), NEW d \in Week(m)
  PROVE  LET seen == OverridesForWeek(Visible(table, m), m)
         IN /\ Moving(seen, s, UTC(d)) = Moves(s, d)
            /\ DateOf(seen, s, UTC(d)) = PlaceOn(s, d)
<1>. DEFINE seen == OverridesForWeek(Visible(table, m), m)
<1>1. Moving(seen, s, UTC(d)) = Moves(s, d)
  <2>1. \A o : o \in seen /\ override[o].slot = s /\ override[o].date = d
                 <=> o \in OverrideIds /\ IsFor(o, s, d)
    BY DEF OverridesForWeek, IsFor
  <2>. HIDE DEF seen
  <2>. QED BY <2>1, SameUTC DEF Moving, Moves
<1>2. UTC(d).day = d
  BY DEF UTC
<1>. HIDE DEF seen
<1>3. DateOf(seen, s, UTC(d)) =
        IF Moving(seen, s, UTC(d)) = {} THEN UTC(d).day
        ELSE override[CHOOSE o \in Moving(seen, s, UTC(d)) : TRUE].newDate
  BY Zenon DEF DateOf
<1>4. DateOf(seen, s, UTC(d)) =
        IF Moves(s, d) = {} THEN d ELSE override[CHOOSE o \in Moves(s, d) : TRUE].newDate
  BY <1>1, <1>2, <1>3, Zenon
<1>5. DateOf(seen, s, UTC(d)) = PlaceOn(s, d)
  BY <1>4 DEF PlaceOn
<1>. QED BY <1>1, <1>5 DEF seen

\* What a week shows of a meeting is determined by the meeting.
LEMMA ShownWhere ==
  ASSUME TypeOK, OverrideOnce, NEW table, NEW m \in Mondays, NEW x \in ExpandWeek(table, UTC(m))
  PROVE  LET s == x[2].slot
             d == x[2].original
         IN /\ x = <<IF d \in Week(m) THEN "own" ELSE "incoming", Session(s, d, PlaceOn(s, d))>>
            /\ PlaceOn(s, d) \in Week(m)
<1>. DEFINE seen == OverridesForWeek(Visible(table, m), m)
<1>0. UTC(m).day = m
  BY DEF UTC
<1>1. CASE x \in {"own"} \X Own(table, seen, UTC(m))
  <2>1. PICK y \in Visible(table, m) \X DaysOf(UTC(m)) :
          /\ x = <<"own", Session(y[1], y[2].day, DateOf(seen, y[1], y[2]))>>
          /\ \A o \in Moving(seen, y[1], y[2]) : inWeek(override[o].newDate, UTC(m))
    BY <1>0, <1>1 DEF Own
  <2>2. PICK d \in Week(m) : y[2] = UTC(d)
    BY <2>1, WeekOfDates
  <2>. DEFINE s == y[1]
  <2>3. s \in Visible(table, m) /\ y[2].day = d
    BY <2>2 DEF UTC
  <2>4. Moving(seen, s, y[2]) = Moves(s, d) /\ DateOf(seen, s, y[2]) = PlaceOn(s, d)
    BY <2>2, <2>3, SeesMoves
  <2>. HIDE DEF seen, s
  <2>5. PlaceOn(s, d) \in Week(m)
    <3>1. CASE Moves(s, d) = {}
      BY <3>1 DEF PlaceOn
    <3>2. CASE Moves(s, d) # {}
      <4>1. PICK o \in Moves(s, d) : PlaceOn(s, d) = override[o].newDate
        BY <3>2 DEF PlaceOn
      <4>2. override[o] \in Override /\ inWeek(override[o].newDate, UTC(m))
        BY <2>1, <2>4, <4>1 DEF Moves, IsFor, OverrideThere, TypeOK, s
      <4>. QED BY <4>1, <4>2, WeekOfDates DEF Override
    <3>. QED BY <3>1, <3>2
  <2>6. x = <<"own", Session(s, d, PlaceOn(s, d))>>
    BY <2>1, <2>3, <2>4 DEF s
  <2>7. x[2].slot = s /\ x[2].original = d
    BY <2>6 DEF Session
  <2>. QED BY <2>5, <2>6, <2>7
<1>2. CASE x \in {"incoming"} \X Incoming(seen, UTC(m))
  <2>1. PICK o \in seen :
          /\ x = <<"incoming", Session(override[o].slot, override[o].date, override[o].newDate)>>
          /\ override[o].type = "reschedule" /\ inWeek(override[o].newDate, UTC(m))
          /\ ~inWeek(override[o].date, UTC(m))
    BY <1>2 DEF Incoming
  <2>2. o \in OverrideIds /\ OverrideThere(o) /\ override[o] \in Override
    BY <2>1 DEF OverridesForWeek, OverrideThere, TypeOK
  <2>. DEFINE s == override[o].slot
              d == override[o].date
  <2>3. o \in Moves(s, d)
    BY <2>1, <2>2 DEF Moves, IsFor
  <2>4. \A p \in Moves(s, d) : p = o
    BY <2>2 DEF Moves, OverrideOnce
  <2>5. PlaceOn(s, d) = override[o].newDate
    BY <2>3, <2>4 DEF PlaceOn
  <2>6. x[2].slot = s /\ x[2].original = d
    BY <2>1 DEF Session
  <2>7. override[o].newDate \in Week(m) /\ d \notin Week(m)
    BY <2>1, <2>2, WeekOfDates DEF Override
  <2>. HIDE DEF s, d, seen
  <2>. QED BY <2>1, <2>5, <2>6, <2>7 DEF s, d
<1>. QED BY <1>0, <1>1, <1>2 DEF ExpandWeek

\* A meeting that was not moved out of sight is shown in the week it is moved to.
LEMMA ShownSomewhere ==
  ASSUME TypeOK, OverrideOnce, NEW s \in SlotIds, NEW d \in Days,
         SlotThere(s), Meets(slot[s], d), ~Vanished(s, d)
  PROVE  LET m == truncateToMonday(UTC(PlaceOn(s, d))).day
         IN /\ m \in Mondays
            /\ \E side \in {"own", "incoming"} :
                 <<side, Session(s, d, PlaceOn(s, d))>> \in ExpandWeek(slot, UTC(m))
<1>. DEFINE place == PlaceOn(s, d)
            m     == truncateToMonday(UTC(place)).day
            seen  == OverridesForWeek(Visible(slot, m), m)
            shown == Session(s, d, place)
<1>0. slot[s] \in Slot /\ slot[s].from \in Days /\ slot[s].until \in Days \cup {Null}
  BY DEF TypeOK, SlotThere, Slot
<1>1. place \in Days /\ s \in Visible(slot, m)
  <2>1. CASE Moves(s, d) = {}
    <3>1. place = d
      BY <2>1 DEF PlaceOn
    <3>2. m \in Int /\ m <= d /\ d <= m + 6
      BY <3>1, MondayOfDate, WeekOfDays DEF Week
    <3>. QED BY <1>0, <3>1, <3>2 DEF Visible, Meets, InRange, SlotThere, Days
  <2>2. CASE Moves(s, d) # {}
    <3>1. PICK o \in Moves(s, d) : place = override[o].newDate
      BY <2>2 DEF PlaceOn
    <3>2. override[o] \in Override
      BY DEF Moves, IsFor, OverrideThere, TypeOK
    <3>3. place # Null /\ s \in Visible(slot, m)
      BY <3>1 DEF Vanished, Moves
    <3>. QED BY <3>1, <3>2, <3>3 DEF Override
  <2>. QED BY <2>1, <2>2
<1>2. m \in Mondays /\ place \in Week(m)
  BY <1>1, MondayOfDate
<1>3. UTC(m).day = m
  BY DEF UTC
<1>. HIDE DEF m
<1>4. ExpandWeek(slot, UTC(m)) =
        ({"own"} \X Own(slot, seen, UTC(m))) \cup ({"incoming"} \X Incoming(seen, UTC(m)))
  BY <1>3, Zenon DEF ExpandWeek
<1>. HIDE DEF seen
<1>5. CASE d \in Week(m)
  <2>1. DateOf(seen, s, UTC(d)) = place /\ Moving(seen, s, UTC(d)) = Moves(s, d)
    BY <1>1, <1>5, SeesMoves DEF seen
  <2>2. UTC(d) \in DaysOf(UTC(m)) /\ MeetsOn(slot[s], UTC(d)) /\ UTC(d).day = d
    <3>1. MeetsOn(slot[s], UTC(d))
      BY <1>0, MeetsInUTC
    <3>2. UTC(d) \in DaysOf(UTC(m))
      BY <1>2, <1>5, WeekOfDates
    <3>. QED BY <3>1, <3>2 DEF UTC
  <2>3. ASSUME NEW o \in Moves(s, d)
        PROVE  inWeek(override[o].newDate, UTC(m))
    <3>1. \A p \in Moves(s, d) : p = o
      BY DEF Moves, IsFor, OverrideOnce, OverrideThere
    <3>2. place = override[o].newDate
      BY <3>1 DEF PlaceOn
    <3>. QED BY <1>1, <1>2, <3>2, WeekOfDates
  <2>. DEFINE y == <<s, UTC(d)>>
  <2>4. y \in Visible(slot, UTC(m).day) \X DaysOf(UTC(m)) /\ y[1] = s /\ y[2] = UTC(d)
    BY <1>1, <1>3, <2>2
  <2>. HIDE DEF y, place
  <2>5. /\ MeetsOn(slot[y[1]], y[2])
        /\ \A o \in Moving(seen, y[1], y[2]) : inWeek(override[o].newDate, UTC(m))
        /\ shown = Session(y[1], y[2].day, DateOf(seen, y[1], y[2]))
    BY <2>1, <2>2, <2>3, <2>4
  <2>. DEFINE meetings == {z \in Visible(slot, UTC(m).day) \X DaysOf(UTC(m)) :
                             MeetsOn(slot[z[1]], z[2])}
              staying  == {z \in meetings : \A o \in Moving(seen, z[1], z[2]) :
                                             inWeek(override[o].newDate, UTC(m))}
  <2>. HIDE DEF shown
  <2>6. shown \in Own(slot, seen, UTC(m))
    <3>. DEFINE own == {Session(z[1], z[2].day, DateOf(seen, z[1], z[2])) : z \in staying}
    <3>1. y \in staying
      BY <2>4, <2>5
    <3>2. Own(slot, seen, UTC(m)) = own
      BY Zenon DEF Own
    <3>. HIDE DEF staying, y
    <3>3. shown \in own
      BY <2>5, <3>1, Zenon
    <3>. HIDE DEF own
    <3>. QED BY <3>2, <3>3
  <2>7. <<"own", shown>> \in ExpandWeek(slot, UTC(m))
    BY <1>4, <2>6
  <2>. QED BY <1>2, <2>7 DEF shown, place, m
<1>6. CASE d \notin Week(m)
  <2>1. PICK o \in Moves(s, d) : place = override[o].newDate
    BY <1>2, <1>6 DEF PlaceOn
  <2>2. /\ o \in OverrideIds /\ OverrideThere(o)
        /\ override[o].slot = s /\ override[o].date = d /\ override[o].type = "reschedule"
    BY DEF Moves, IsFor
  <2>3. o \in seen
    BY <1>1, <1>2, <2>1, <2>2 DEF OverridesForWeek, seen
  <2>4. inWeek(override[o].newDate, UTC(m)) /\ ~inWeek(override[o].date, UTC(m))
    BY <1>1, <1>2, <1>6, <2>1, <2>2, WeekOfDates
  <2>5. shown = Session(override[o].slot, override[o].date, override[o].newDate)
    BY <2>1, <2>2
  <2>. HIDE DEF shown
  <2>. DEFINE arriving == {p \in seen : /\ override[p].type = "reschedule"
                                        /\ inWeek(override[p].newDate, UTC(m))
                                        /\ ~inWeek(override[p].date, UTC(m))}
  <2>6. shown \in Incoming(seen, UTC(m))
    <3>. DEFINE moved == {Session(override[p].slot, override[p].date, override[p].newDate) :
                            p \in arriving}
    <3>1. o \in arriving
      BY <2>2, <2>3, <2>4
    <3>2. Incoming(seen, UTC(m)) = moved
      BY Zenon DEF Incoming
    <3>. HIDE DEF arriving
    <3>3. shown \in moved
      BY <2>5, <3>1, Zenon
    <3>. HIDE DEF moved
    <3>. QED BY <3>2, <3>3
  <2>7. <<"incoming", shown>> \in ExpandWeek(slot, UTC(m))
    BY <1>4, <2>6
  <2>. QED BY <1>2, <2>7 DEF shown, place, m
<1>. QED BY <1>2, <1>5, <1>6 DEF m

\* For every timetable that requests can make, and who asks for its weeks by their
\* dates: the calendar shows every meeting once over all weeks, and no answer shows
\* one twice, though its two reads differ.
THEOREM ShownOnceHolds == Spec => []ShownOnce
<1>1. TypeOK /\ OverrideOnce => ShownOnce
  <2>. SUFFICES ASSUME TypeOK, OverrideOnce PROVE ShownOnce
    OBVIOUS
  <2>. DEFINE all == UNION {{m} \X ExpandWeek(slot, UTC(m)) : m \in Mondays}
              Of(s, d) == {x \in all : x[2][2].slot = s /\ x[2][2].original = d}
  <2>1. ASSUME NEW s \in SlotIds, NEW d \in Days
        PROVE  /\ Cardinality(Of(s, d)) <= 1
               /\ SlotThere(s) /\ Meets(slot[s], d) /\ ~Vanished(s, d)
                    => Cardinality(Of(s, d)) = 1
    <3>1. ASSUME NEW x \in Of(s, d)
          PROVE  /\ x[1] \in Mondays /\ PlaceOn(s, d) \in Week(x[1])
                 /\ x = <<x[1], <<IF d \in Week(x[1]) THEN "own" ELSE "incoming",
                                  Session(s, d, PlaceOn(s, d))>>>>
      <4>1. PICK m \in Mondays : x \in {m} \X ExpandWeek(slot, UTC(m))
        OBVIOUS
      <4>2. x = <<m, x[2]>> /\ x[2] \in ExpandWeek(slot, UTC(m))
        BY <4>1
      <4>. HIDE DEF all
      <4>. QED BY <4>2, ShownWhere
    <3>2. \A x, y \in Of(s, d) : x = y
      <4>1. SUFFICES ASSUME NEW x \in Of(s, d), NEW y \in Of(s, d) PROVE x = y
        OBVIOUS
      <4>. HIDE DEF Of
      <4>2. x[1] = y[1]
        BY <3>1, OneWeek
      <4>. QED BY <3>1, <4>2
    <3>3. ASSUME SlotThere(s), Meets(slot[s], d), ~Vanished(s, d)
          PROVE  Of(s, d) # {}
      <4>. DEFINE m == truncateToMonday(UTC(PlaceOn(s, d))).day
      <4>1. PICK side \in {"own", "incoming"} :
              <<side, Session(s, d, PlaceOn(s, d))>> \in ExpandWeek(slot, UTC(m))
        BY <3>3, ShownSomewhere
      <4>2. m \in Mondays
        BY <3>3, ShownSomewhere
      <4>3. <<m, <<side, Session(s, d, PlaceOn(s, d))>>>> \in all
        BY <4>1, <4>2
      <4>. HIDE DEF all, m
      <4>. QED BY <4>3 DEF Session
    <3>. HIDE DEF Of
    <3>. QED BY <3>2, <3>3, AtMostOne
  <2>2. ASSUME NEW r \in Requests, Expanding(r), call[r].start.zone = "UTC",
               NEW s \in SlotIds, NEW d \in Days
        PROVE  Shown(ExpandWeek(view[r], MondayOf(r)), s, d) <= 1
    <3>1. PICK m \in Mondays : MondayOf(r) = UTC(m)
      <4>1. call[r] \in Call /\ call[r].op = "weekly"
        BY <2>2, TimetableAssumption DEF Expanding, At, Op, TypeOK
      <4>2. call[r].start \in Time
        BY <4>1 DEF Call, SlotCall, OverrideCall, PlainCall
      <4>3. PICK day \in Days : call[r].start = UTC(day)
        BY <2>2, <4>2 DEF Time, UTC
      <4>. QED BY <4>3, MondayOfDate DEF MondayOf
    <3>. DEFINE one == {x \in ExpandWeek(view[r], UTC(m)) : x[2].slot = s /\ x[2].original = d}
    <3>2. \A x, y \in one : x = y
      BY ShownWhere
    <3>. HIDE DEF one
    <3>3. Cardinality(one) <= 1
      BY <3>2, AtMostOne
    <3>. QED BY <3>1, <3>3 DEF Shown, one
  <2>. QED BY <2>1, <2>2 DEF ShownOnce
<1>. QED BY <1>1, TypeCorrect, OverrideOnceHolds, PTL

-----------------------------------------------------------------------------
(* Sums over the slots.  The library has sums by recursion over subsets, and *)
(* induction with a predicate as its parameter; what is needed of them here  *)
(* follows from an induction that is about a set.                            *)

LEMMA InductionOnSets ==
  ASSUME NEW S, 0 \in S, \A n \in Nat : n \in S => n + 1 \in S
  PROVE  Nat \subseteq S
<1>. DEFINE less == {pair \in Nat \X Nat : pair[1] < pair[2]}
            rest == Nat \ S
<1>. SUFFICES ASSUME rest # {} PROVE FALSE
  OBVIOUS
<1>1. IsWellFoundedOn(less, Nat)
  BY NatLessThanWellFounded DEF OpToRel
<1>2. PICK n \in rest : \A m \in rest : <<m, n>> \notin less
  <2>. HIDE DEF less
  <2>. QED BY <1>1, WFMin
<1>3. n - 1 \in Nat /\ n = (n - 1) + 1
  BY <1>2
<1>4. n - 1 \in rest
  BY <1>2, <1>3
<1>5. <<n - 1, n>> \in less
  BY <1>2, <1>3
<1>. QED BY <1>2, <1>4, <1>5

Pick(s) == CHOOSE x \in s : TRUE

\* g sums f over the subsets in D.
Sums(g, f, D) ==
  g = [s \in D |-> IF s = {} THEN 0 ELSE f[Pick(s)] + g[s \ {Pick(s)}]]

Small(S, n) == {s \in SUBSET S : Cardinality(s) <= n}

\* Without what is picked a subset is smaller.
LEMMA Smaller ==
  ASSUME NEW S, IsFiniteSet(S), NEW n \in Nat, NEW s \in Small(S, n + 1), s # {}
  PROVE  Pick(s) \in s /\ Pick(s) \in S /\ s \ {Pick(s)} \in Small(S, n)
<1>1. Pick(s) \in s
  BY DEF Pick
<1>2. s \in SUBSET S /\ IsFiniteSet(s) /\ Cardinality(s) \in Nat /\ Cardinality(s) <= n + 1
  BY FS_Subset, FS_CardinalityType DEF Small
<1>3. Cardinality(s \ {Pick(s)}) = Cardinality(s) - 1
  BY <1>1, <1>2, FS_RemoveElement
<1>. QED BY <1>1, <1>2, <1>3 DEF Small

LEMMA SmallEnough ==
  ASSUME NEW S, IsFiniteSet(S)
  PROVE  /\ Cardinality(S) \in Nat
         /\ Small(S, Cardinality(S)) = SUBSET S
         /\ Small(S, 0) = {{}}
<1>1. \A s \in SUBSET S : IsFiniteSet(s) /\ Cardinality(s) \in Nat /\ Cardinality(s) <= Cardinality(S)
  BY FS_Subset, FS_CardinalityType
<1>2. \A s \in SUBSET S : Cardinality(s) = 0 <=> s = {}
  BY <1>1, FS_EmptySet
<1>. QED BY <1>1, <1>2, FS_CardinalityType DEF Small

LEMMA SumsExist ==
  ASSUME NEW S, IsFiniteSet(S), NEW f
  PROVE  \E g : Sums(g, f, SUBSET S)
<1>. DEFINE Good == {n \in Nat : \E g : Sums(g, f, Small(S, n))}
<1>1. 0 \in Good
  <2>. DEFINE g == [s \in Small(S, 0) |-> 0]
  <2>1. Sums(g, f, Small(S, 0))
    BY SmallEnough DEF Sums
  <2>. QED BY <2>1
<1>2. ASSUME NEW n \in Nat, n \in Good PROVE n + 1 \in Good
  <2>1. PICK g : Sums(g, f, Small(S, n))
    BY <1>2
  <2>. DEFINE h == [s \in Small(S, n + 1) |->
                      IF s = {} THEN 0 ELSE f[Pick(s)] + g[s \ {Pick(s)}]]
  <2>2. Small(S, n) \subseteq Small(S, n + 1)
    <3>1. \A s \in SUBSET S : Cardinality(s) \in Nat
      BY FS_Subset, FS_CardinalityType
    <3>. QED BY <3>1 DEF Small
  <2>3. \A s \in Small(S, n) : h[s] = g[s]
    BY <2>1, <2>2 DEF Sums
  <2>4. ASSUME NEW s \in Small(S, n + 1)
        PROVE  h[s] = IF s = {} THEN 0 ELSE f[Pick(s)] + h[s \ {Pick(s)}]
    BY <2>3, Smaller
  <2>5. h = [s \in Small(S, n + 1) |-> IF s = {} THEN 0 ELSE f[Pick(s)] + h[s \ {Pick(s)}]]
    <3>1. h = [s \in Small(S, n + 1) |-> h[s]]
      OBVIOUS
    <3>. HIDE DEF h
    <3>. QED BY <2>4, <3>1
  <2>6. Sums(h, f, Small(S, n + 1))
    <3>. HIDE DEF h
    <3>. QED BY <2>5 DEF Sums
  <2>. QED BY <2>6
<1>3. Nat \subseteq Good
  <2>. HIDE DEF Good
  <2>. QED BY <1>1, <1>2, InductionOnSets
<1>4. Cardinality(S) \in Nat /\ Small(S, Cardinality(S)) = SUBSET S
  BY SmallEnough
<1>5. PICK g : Sums(g, f, Small(S, Cardinality(S)))
  BY <1>3, <1>4
<1>. QED BY <1>4, <1>5

\* Sums of natural numbers are natural numbers, and grow with what is summed.
LEMMA SumsGrow ==
  ASSUME NEW S, IsFiniteSet(S), NEW f, NEW e, NEW g, NEW h,
         \A x \in S : f[x] \in Nat /\ e[x] \in Nat /\ f[x] <= e[x],
         Sums(g, f, SUBSET S), Sums(h, e, SUBSET S)
  PROVE  g[S] \in Nat /\ h[S] \in Nat /\ g[S] <= h[S]
<1>. DEFINE Fine(s) == g[s] \in Nat /\ h[s] \in Nat /\ g[s] <= h[s]
            Good == {n \in Nat : \A s \in Small(S, n) : Fine(s)}
<1>1. 0 \in Good
  BY SmallEnough DEF Sums
<1>2. ASSUME NEW n \in Nat, n \in Good PROVE n + 1 \in Good
  <2>1. ASSUME NEW s \in Small(S, n + 1) PROVE Fine(s)
    <3>1. CASE s = {}
      BY <3>1 DEF Sums
    <3>2. CASE s # {}
      <4>1. Pick(s) \in S /\ Fine(s \ {Pick(s)})
        BY <1>2, <3>2, Smaller
      <4>2. s \in SUBSET S
        BY DEF Small
      <4>3. /\ g[s] = f[Pick(s)] + g[s \ {Pick(s)}]
            /\ h[s] = e[Pick(s)] + h[s \ {Pick(s)}]
        BY <3>2, <4>2 DEF Sums
      <4>. QED BY <4>1, <4>3
    <3>. QED BY <3>1, <3>2
  <2>. QED BY <2>1
<1>3. Nat \subseteq Good
  <2>. HIDE DEF Good
  <2>. QED BY <1>1, <1>2, InductionOnSets
<1>. QED BY <1>3, SmallEnough

-----------------------------------------------------------------------------
(* The session count *)

\* What each slot of a table adds to the total.
Adds(table) == [t \in SlotIds |-> IF table[t] = NoRow THEN 0 ELSE CountExpandedSessions(table[t])]

\* The sums over the slots other than s.
Others(table, s) == CHOOSE g : Sums(g, Adds(table), SUBSET (SlotIds \ {s}))

LEMMA TotalIsSum ==
  ASSUME NEW table, DOMAIN table = SlotIds, NEW s, NEW new
  PROVE  /\ Sums(Others(table, s), Adds(table), SUBSET (SlotIds \ {s}))
         /\ TotalWith(table, s, new) = CountExpandedSessions(new) + Others(table, s)[SlotIds \ {s}]
<1>. DEFINE S == SlotIds \ {s}
            count(t) == IF table[t] = NoRow THEN 0 ELSE CountExpandedSessions(table[t])
            IsTotal(g) == g = [x \in SUBSET S |-> IF x = {} THEN 0
                                ELSE count(CHOOSE t \in x : TRUE) + g[x \ {CHOOSE t \in x : TRUE}]]
            total == CHOOSE g : IsTotal(g)
<1>1. TotalWith(table, s, new) = CountExpandedSessions(new) + total[S]
  BY DEF TotalWith, MapThenSumSet, MapThenFoldSet
<1>2. ASSUME NEW x \in SUBSET S, x # {}
      PROVE  Adds(table)[Pick(x)] = count(CHOOSE t \in x : TRUE)
  <2>1. Pick(x) \in SlotIds
    BY <1>2 DEF Pick
  <2>. QED BY <2>1 DEF Adds, Pick
<1>. HIDE DEF count, S
<1>3. \A g : IsTotal(g) <=> Sums(g, Adds(table), SUBSET S)
  BY <1>2 DEF Sums, Pick
<1>4. IsFiniteSet(S)
  BY TimetableAssumption, FS_RemoveElement DEF S
<1>5. \E g : Sums(g, Adds(table), SUBSET S)
  BY <1>4, SumsExist
<1>6. Sums(Others(table, s), Adds(table), SUBSET S)
  BY <1>5 DEF Others, S
<1>7. total = Others(table, s)
  <2>. DEFINE sums(g) == Sums(g, Adds(table), SUBSET S)
  <2>1. Others(table, s) = CHOOSE g : sums(g)
    BY DEF Others, S
  <2>2. \A g : IsTotal(g) <=> sums(g)
    BY <1>3
  <2>. HIDE DEF IsTotal, sums
  <2>. QED BY <2>1, <2>2
<1>. HIDE DEF IsTotal, total
<1>. QED BY <1>1, <1>6, <1>7 DEF S

LEMMA CountType ==
  ASSUME NEW s \in Slot
  PROVE  CountExpandedSessions(s) \in Nat
<1>. DEFINE met == {d \in Days : Meets(s, d)}
<1>1. IsFiniteSet(met)
  <2>1. IsFiniteSet(Days) /\ met \subseteq Days
    <3>1. MaxDay \in Int
      BY TimetableAssumption
    <3>. QED BY <3>1, FS_Interval DEF Days
  <2>. HIDE DEF met
  <2>. QED BY <2>1, FS_Subset
<1>. QED BY <1>1, FS_CardinalityType DEF CountExpandedSessions

\* Fewer slots have fewer sessions.
LEMMA TotalShrinks ==
  ASSUME NEW old \in [SlotIds -> Slot \cup {NoRow}], NEW now \in [SlotIds -> Slot \cup {NoRow}],
         NEW s, NEW new \in Slot,
         \A t \in SlotIds \ {s} : now[t] \in {old[t], NoRow}
  PROVE  /\ TotalWith(old, s, new) \in Nat /\ TotalWith(now, s, new) \in Nat
         /\ TotalWith(now, s, new) <= TotalWith(old, s, new)
<1>. DEFINE S == SlotIds \ {s}
            g == Others(now, s)
            h == Others(old, s)
<1>1. DOMAIN old = SlotIds /\ DOMAIN now = SlotIds
  OBVIOUS
<1>2. /\ Sums(h, Adds(old), SUBSET S)
      /\ TotalWith(old, s, new) = CountExpandedSessions(new) + h[S]
      /\ Sums(g, Adds(now), SUBSET S)
      /\ TotalWith(now, s, new) = CountExpandedSessions(new) + g[S]
  BY <1>1, TotalIsSum
<1>3. \A t \in S : /\ Adds(now)[t] \in Nat /\ Adds(old)[t] \in Nat
                   /\ Adds(now)[t] <= Adds(old)[t]
  BY CountType, Names DEF Adds
<1>4. IsFiniteSet(S)
  BY TimetableAssumption, FS_RemoveElement
<1>. HIDE DEF S, g, h
<1>5. g[S] \in Nat /\ h[S] \in Nat /\ g[S] <= h[S]
  BY <1>2, <1>3, <1>4, SumsGrow
<1>. QED BY <1>2, <1>5, CountType

\* Who wrote a slot in the meantime knows it is no longer alone, and slots that
\* others delete only make room.
Capped ==
  \A r \in Requests : alone[r] =>
    /\ pc[r] \in {"write", "done"}
    /\ pc[r] = "write" =>
         /\ Op(r) \in {"createSlot", "patchSlot"}
         /\ TotalWith(slot, PlaceOf(r), SlotOf(r)) <= SessionCount

\* A request that has counted is about to write a slot.
LEMMA Writing ==
  ASSUME TimetableInv, NEW r \in Requests, pc[r] \in {"count", "write"},
         Op(r) \in {"createSlot", "patchSlot"}
  PROVE  SlotOf(r) \in Slot /\ PlaceOf(r) \in SlotIds
BY SlotOfShape DEF TimetableInv, Reads, Working

LEMMA CappedStep ==
  ASSUME TimetableInv, Capped, NEW r \in Requests, Step(r)
  PROVE  Capped'
<1>0. /\ TypeOK /\ Reads /\ slot \in [SlotIds -> Slot \cup {NoRow}]
      /\ alone \in [Requests -> BOOLEAN] /\ pc \in [Requests -> Labels]
  BY DEF TimetableInv, TypeOK
<1>1. CASE StoreSlot(r)
  BY <1>1 DEF StoreSlot, Capped
<1>2. CASE CountSlots(r)
  <2>1. ASSUME NEW q \in Requests \ {r}, alone'[q]
        PROVE  /\ pc'[q] \in {"write", "done"}
               /\ pc'[q] = "write" =>
                    /\ Op(q)' \in {"createSlot", "patchSlot"}
                    /\ TotalWith(slot, PlaceOf(q), SlotOf(q))' <= SessionCount
    <3>1. alone[q] /\ pc'[q] = pc[q] /\ call' = call /\ saw' = saw /\ slot' = slot
      BY <1>0, <1>2, <2>1, OthersKeep DEF CountSlots
    <3>. QED BY <3>1 DEF Capped, Op, PlaceOf, SlotOf, Target, BodyOf
  <2>2. pc'[r] = "write" => TotalWith(slot, PlaceOf(r), SlotOf(r)) <= SessionCount
    <3>1. SlotOf(r) \in Slot
      BY <1>2, Writing DEF CountSlots
    <3>2. TotalWith(slot, PlaceOf(r), SlotOf(r)) \in Nat
      BY <1>0, <3>1, TotalShrinks
    <3>. QED BY <1>0, <1>2, <3>2, TimetableAssumption DEF CountSlots, Answer, Goto
  <2>3. pc'[r] \in {"write", "done"}
    BY <1>0, <1>2 DEF CountSlots, Answer, Goto
  <2>4. /\ call' = call /\ saw' = saw /\ slot' = slot
        /\ Op(r) \in {"createSlot", "patchSlot"}
    BY <1>2 DEF CountSlots
  <2>. QED BY <2>1, <2>2, <2>3, <2>4 DEF Capped, Op, PlaceOf, SlotOf, Target, BodyOf
<1>3. CASE alone' = alone
  <2>1. slot' = slot \/ DeleteSlot(r) \/ StoreSlot(r)
    BY WhoWrites DEF InsertSlot, WriteSlot
  <2>2. slot' \in [SlotIds -> Slot \cup {NoRow}]
    BY <1>0, SlotStep
  <2>3. CASE DeleteSlot(r) \/ slot' = slot
    <3>1. \A t \in SlotIds : slot'[t] \in {slot[t], NoRow}
      <4>1. CASE DeleteSlot(r)
        <5>1. PICK c \in Calls : slot' = [slot EXCEPT ![c.target] = NoRow]
          BY <4>1 DEF DeleteSlot
        <5>. QED BY <1>0, <5>1
      <4>. QED BY <2>3, <4>1
    <3>2. ASSUME NEW q \in Requests, alone'[q], pc[q] # "done", pc'[q] = pc[q],
                 call'[q] = call[q], saw'[q] = saw[q]
          PROVE  /\ pc'[q] = "write"
                 /\ Op(q)' \in {"createSlot", "patchSlot"}
                 /\ TotalWith(slot, PlaceOf(q), SlotOf(q))' <= SessionCount
      <4>1. /\ pc[q] = "write" /\ Op(q) \in {"createSlot", "patchSlot"}
            /\ TotalWith(slot, PlaceOf(q), SlotOf(q)) <= SessionCount
        BY <1>3, <3>2 DEF Capped
      <4>2. Op(q)' = Op(q) /\ PlaceOf(q)' = PlaceOf(q) /\ SlotOf(q)' = SlotOf(q)
        BY <3>2 DEF Op, PlaceOf, SlotOf, Target, BodyOf
      <4>3. SlotOf(q) \in Slot /\ PlaceOf(q) \in SlotIds
        BY <4>1, Writing
      <4>4. /\ TotalWith(slot', PlaceOf(q), SlotOf(q)) <= TotalWith(slot, PlaceOf(q), SlotOf(q))
            /\ TotalWith(slot', PlaceOf(q), SlotOf(q)) \in Nat
            /\ TotalWith(slot, PlaceOf(q), SlotOf(q)) \in Nat
        BY <1>0, <2>2, <3>1, <4>3, TotalShrinks
      <4>. QED BY <3>2, <4>1, <4>2, <4>4, TimetableAssumption
    <3>3. alone[r] => pc'[r] = "done"
      <4>1. alone[r] => pc[r] = "write"
        BY <1>0, OthersKeep DEF Capped
      <4>2. pc[r] = "write" => pc'[r] = "done"
        BY <1>0 DEF Step, FindBatch, ReadSlot, FindBatchOfSlot, CountSlots, InsertSlot,
             WriteSlot, DeleteSlot, FindSlot, CheckOverride, UpsertOverride, ReadOverride,
             FindSlotOfOverride, CheckMerge, WriteOverride, DeleteOverride, ReadWeek,
             ReadOverrides, Fail, Receive, At, StoreSlot, Written, Answer
      <4>. QED BY <4>1, <4>2
    <3>4. \A q \in Requests \ {r} : pc'[q] = pc[q] /\ call'[q] = call[q] /\ saw'[q] = saw[q]
      BY <1>0, OthersKeep
    <3>. QED BY <1>3, <3>2, <3>3, <3>4 DEF Capped
  <2>. QED BY <1>1, <2>1, <2>3
<1>4. alone' = alone \/ CountSlots(r) \/ StoreSlot(r)
  BY DEF Step, FindBatch, ReadSlot, FindBatchOfSlot, InsertSlot, WriteSlot, DeleteSlot,
         FindSlot, CheckOverride, UpsertOverride, ReadOverride, FindSlotOfOverride,
         CheckMerge, WriteOverride, DeleteOverride, ReadWeek, ReadOverrides, Fail
<1>. QED BY <1>1, <1>2, <1>3, <1>4

\* For any number of requests, slots and calendars: who counts and then writes
\* with nobody writing between keeps the batch within the session count, whatever
\* is deleted meanwhile.
THEOREM CapWhenAloneHolds == Spec => CapWhenAlone
<1>1. Init => Capped
  BY DEF Init, Capped
<1>2. TimetableInv /\ Capped /\ [Next]_vars => Capped'
  <2>1. ASSUME Capped, UNCHANGED <<slot, call, pc, saw, alone>> PROVE Capped'
    BY <2>1 DEF Capped, Op, PlaceOf, SlotOf, Target, BodyOf
  <2>. QED BY <2>1, CappedStep DEF Next, DeleteBatch, vars
<1>3. ASSUME TimetableInv, Capped, Next, NEW r \in Requests,
             pc[r] = "write", alone[r],
             slot'[PlaceOf(r)] # slot[PlaceOf(r)], resp'[r] # resp[r]
      PROVE  TotalWith(slot', PlaceOf(r), slot'[PlaceOf(r)]) <= SessionCount
  <2>0. TypeOK /\ Reads /\ slot \in [SlotIds -> Slot \cup {NoRow}]
    BY <1>3 DEF TimetableInv, TypeOK
  <2>1. Step(r)
    BY <1>3, <2>0, OthersKeep DEF Next, DeleteBatch
  <2>2. /\ Op(r) \in {"createSlot", "patchSlot"}
        /\ TotalWith(slot, PlaceOf(r), SlotOf(r)) <= SessionCount
    BY <1>3 DEF Capped
  <2>3. SlotOf(r) \in Slot /\ PlaceOf(r) \in SlotIds
    BY <1>3, <2>2, Writing
  <2>4. slot' = [slot EXCEPT ![PlaceOf(r)] = SlotOf(r)]
    BY <1>3, <2>1, WhoWrites DEF InsertSlot, WriteSlot, StoreSlot, DeleteSlot, Receive
  <2>5. /\ slot' \in [SlotIds -> Slot \cup {NoRow}]
        /\ slot'[PlaceOf(r)] = SlotOf(r)
        /\ \A t \in SlotIds \ {PlaceOf(r)} : slot'[t] = slot[t]
    BY <2>0, <2>3, <2>4
  <2>6. /\ TotalWith(slot', PlaceOf(r), SlotOf(r)) <= TotalWith(slot, PlaceOf(r), SlotOf(r))
        /\ TotalWith(slot', PlaceOf(r), SlotOf(r)) \in Nat
        /\ TotalWith(slot, PlaceOf(r), SlotOf(r)) \in Nat
    BY <2>0, <2>3, <2>5, TotalShrinks
  <2>. QED BY <2>2, <2>5, <2>6, TimetableAssumption
<1>. DEFINE Within ==
       \A r \in Requests :
         /\ pc[r] = "write" /\ alone[r]
         /\ slot'[PlaceOf(r)] # slot[PlaceOf(r)]
         /\ resp'[r] # resp[r]
         => TotalWith(slot', PlaceOf(r), slot'[PlaceOf(r)]) <= SessionCount
<1>4. TimetableInv /\ Capped /\ [Next]_vars => [Within]_vars
  BY <1>3
<1>5. Spec => [][Within]_vars
  BY <1>1, <1>2, <1>4, TimetableInvHolds, PTL DEF Spec
<1>. QED BY <1>5 DEF CapWhenAlone
=============================================================================
