---------------------------- MODULE RecordsProofs ----------------------------
(***************************************************************************)
(* For every set of requests and every catalogue of well-formed calls: no  *)
(* key is given twice, archived courses stay archived, batches only move   *)
(* onward, and a created user has an invitation.                           *)
(*                                                                         *)
(* The argument: rows keep their kind, so a request writes only rows of    *)
(* the kind it was routed for; the statuses of courses and batches have a  *)
(* single writer each; and what a transition read as started has started   *)
(* for good.                                                               *)
(***************************************************************************)
EXTENDS Records, TLAPS

Working == Labels \ {"new", "done"}

\* A request that is under way has been received.
Received == \A r \in Requests : pc[r] \in Working => call[r] \in Calls

\* Rows keep their kind.
KindKept ==
  \A x \in DOMAIN Rows0 : row[x] # NoRow => row[x].kind = Rows0[x].kind

\* What a PATCH merges into is a row of the kind it is for.
SawTarget ==
  \A r \in Requests : pc[r] \in {"check", "write"} =>
    /\ call[r].op = "patch"
    /\ saw[r] \in Row
    /\ saw[r].kind = call[r].kind

\* A creation inserts once.
NotYet == \A r \in Requests : pc[r] \in {"new", "insert"} => row[r] = NoRow

\* A batch that a request is about to complete has started.
MoveSound ==
  \A r \in Requests : pc[r] = "move" =>
    /\ call[r].op = "transition"
    /\ call[r].body.status \in {"ongoing", "completed"}
    /\ \/ call[r].body.status = "ongoing"
       \/ row[call[r].target] = NoRow
       \/ row[call[r].target].status # "upcoming"

\* There is no answer before the end.
AnswerAtEnd == \A r \in Requests : pc[r] # "done" => resp[r] = "none"

RecordInv ==
  /\ TypeOK
  /\ Received
  /\ KindKept
  /\ SawTarget
  /\ NotYet
  /\ MoveSound
  /\ AnswerAtEnd

\* What BatchOnward says of one row.
Onward(x) ==
  /\ row[x] # NoRow /\ row[x].kind = "batch" /\ row'[x] # NoRow
  => /\ row[x].status # "upcoming" => row'[x].status # "upcoming"
     /\ row[x].status = "upcoming" => row'[x].status # "completed"

\* What ArchivedStays says of one row.
Stays(x) ==
  row[x] # NoRow /\ row[x].kind = "course" /\ row[x].status = "archived"
  => row'[x].status = "archived"

-----------------------------------------------------------------------------
(* Names and calls *)

LEMMA Names ==
  /\ \A x \in DOMAIN Rows0 : x \in Ids /\ x \notin Requests /\ Rows0[x] \in Row
  /\ Requests \subseteq Ids
  /\ NoRow \notin Row
  /\ NoCall \notin Calls
  /\ \A c \in Calls : c \in Call /\ WellFormed(c)
  /\ Unset \notin Keys \cup Notes \cup Statuses \cup Whos \cup {Null}
  BY RecordsAssumption DEF Ids

LEMMA StatusNames ==
  /\ {"active", "archived", "upcoming", "ongoing", "completed"} \subseteq Statuses
  /\ \A kind \in Kinds : StatusesOf[kind] \subseteq Statuses
  /\ StatusesOf.batch = {"upcoming", "ongoing", "completed"}
<1>1. /\ "active" \in StatusesOf["user"]
      /\ "archived" \in StatusesOf["course"]
      /\ StatusesOf["batch"] = {"upcoming", "ongoing", "completed"}
  BY DEF StatusesOf
<1>2. \A kind \in Kinds : StatusesOf[kind] \subseteq Statuses
  BY DEF Statuses
<1>3. "user" \in Kinds /\ "course" \in Kinds /\ "batch" \in Kinds
  BY DEF Kinds
<1>. QED BY <1>1, <1>2, <1>3

LEMMA CallShape ==
  ASSUME NEW c \in Calls
  PROVE  /\ c \in Call
         /\ c.kind \in Kinds /\ c.op \in Ops
         /\ c.body \in Body
         /\ c.op = "create" =>
              c.body.key \in Keys /\ c.body.who \in Whos /\ c.body.status = Unset
         /\ c.op # "create" =>
              c.target \in DOMAIN Rows0 /\ Rows0[c.target].kind = c.kind
         /\ c.op \in {"transition", "delete"} => c.kind = "batch"
         /\ c.op = "archive" => c.kind = "course"
         /\ c.op = "transition" =>
              c.body.status \in {"upcoming", "ongoing", "completed"}
<1>1. c \in Call /\ WellFormed(c)
  BY Names
<1>2. c.body \in Body
  BY <1>1 DEF Call
<1>3. c.body.key \in Keys \cup {Unset} /\ c.body.who \in Whos \cup {Unset}
  BY <1>2 DEF Body
<1>. QED BY <1>1, <1>2, <1>3, StatusNames DEF Call, WellFormed

\* The merge of a well-formed body into a row is a row of the same kind.
LEMMA MergedShape ==
  ASSUME NEW r \in Requests, saw[r] \in Row, BodyOf(r) \in Body
  PROVE  Merged(r) \in Row /\ Merged(r).kind = saw[r].kind
<1>1. saw[r] = [kind |-> saw[r].kind, key |-> saw[r].key, note |-> saw[r].note,
                status |-> saw[r].status, who |-> saw[r].who]
      /\ saw[r].kind \in Kinds /\ saw[r].key \in Keys
      /\ saw[r].note \in Notes \cup {Null}
      /\ saw[r].status \in Statuses /\ saw[r].who \in Whos
  BY DEF Row
<1>2. /\ BodyOf(r).key \in Keys \cup {Unset}
      /\ BodyOf(r).note \in Notes \cup {Null, Unset}
      /\ BodyOf(r).status \in Statuses \cup {Unset}
      /\ BodyOf(r).who \in Whos \cup {Unset}
  BY DEF Body
<1>3. /\ ValueOr(BodyOf(r).key, saw[r].key) \in Keys
      /\ ValueOr(Decoded(BodyOf(r).note), saw[r].note) \in Notes \cup {Null}
      /\ ValueOr(BodyOf(r).status, saw[r].status) \in Statuses
      /\ ValueOr(BodyOf(r).who, saw[r].who) \in Whos
  BY <1>1, <1>2 DEF ValueOr, Decoded
<1>. QED BY <1>1, <1>3 DEF Row, Merged

\* What a PATCH writes is a row of the same kind, and the status of a course or
\* a batch is the one that is there.
LEMMA UpdatedShape ==
  ASSUME NEW r \in Requests, saw[r] \in Row, BodyOf(r) \in Body,
         saw[r].kind = call[r].kind,
         row[Target(r)] \in Row
  PROVE  /\ Updated(r) \in Row
         /\ Updated(r).kind = call[r].kind
         /\ call[r].kind \in {"course", "batch"} =>
              Updated(r).status = row[Target(r)].status
<1>. DEFINE now == row[Target(r)]
            new == Merged(r)
<1>1. new \in Row /\ new.kind = call[r].kind
  BY MergedShape
<1>2. now.status \in Statuses /\ now.note \in Notes \cup {Null}
  BY DEF Row
<1>3. call[r].kind \in Kinds
  BY DEF Row
<1>4. new = [kind |-> new.kind, key |-> new.key, note |-> new.note,
             status |-> new.status, who |-> new.who]
      /\ new.kind \in Kinds /\ new.key \in Keys /\ new.note \in Notes \cup {Null}
      /\ new.status \in Statuses /\ new.who \in Whos
  BY <1>1 DEF Row
<1>. HIDE DEF now, new
<1>5. CASE call[r].kind \in ByEmail
  <2>1. Updated(r) = new
    BY <1>5 DEF Updated, ByEmail, new
  <2>. QED BY <2>1, <1>1, <1>5 DEF ByEmail
<1>6. CASE call[r].kind = "course"
  <2>1. Updated(r) = [new EXCEPT !.status = now.status]
    BY <1>6 DEF Updated, ByEmail, new, now
  <2>2. Updated(r) = [kind |-> new.kind, key |-> new.key, note |-> new.note,
                      status |-> now.status, who |-> new.who]
    BY <2>1, <1>4
  <2>. QED BY <2>2, <1>1, <1>2, <1>4 DEF Row, now
<1>7. CASE call[r].kind = "batch"
  <2>1. Updated(r) = [new EXCEPT !.status = now.status,
                        !.note = IF new.note = Null THEN now.note ELSE @]
    BY <1>7 DEF Updated, ByEmail, new, now
  <2>2. Updated(r) = [kind |-> new.kind, key |-> new.key,
                      note |-> IF new.note = Null THEN now.note ELSE new.note,
                      status |-> now.status, who |-> new.who]
    BY <2>1, <1>4
  <2>. QED BY <2>2, <1>1, <1>2, <1>4 DEF Row, now
<1>. QED BY <1>3, <1>5, <1>6, <1>7 DEF Kinds, ByEmail

LEMMA FreshShape ==
  ASSUME NEW c \in Calls, c.op = "create"
  PROVE  Fresh(c) \in Row /\ Fresh(c).kind = c.kind /\ Fresh(c).key = c.body.key
<1>1. c.body.note \in Notes \cup {Null, Unset}
  BY CallShape DEF Body
<1>2. c.kind \in Kinds /\ c.body.key \in Keys /\ c.body.who \in Whos
  BY CallShape
<1>. QED BY <1>1, <1>2, StatusNames DEF Fresh, Row

-----------------------------------------------------------------------------
(* One step *)

\* A step of r is only about r, and at most its call, its row and its place change.
LEMMA OthersKeep ==
  ASSUME TypeOK, NEW r \in Requests, Step(r)
  PROVE  /\ \A q \in Requests \ {r} :
              /\ pc'[q] = pc[q] /\ call'[q] = call[q]
              /\ saw'[q] = saw[q] /\ resp'[q] = resp[q]
         /\ pc[r] # "new" => call'[r] = call[r]
         /\ pc[r] # "done" /\ pc'[r] # "new"
         /\ pc'[r] \in Labels
         /\ resp'[r] \in Answers \/ resp'[r] = resp[r]
         /\ pc'[r] # "done" => resp'[r] = resp[r]
         /\ pc' \in [Requests -> Labels]
         /\ resp' \in [Requests -> Answers \cup {"none"}]
         /\ call' \in [Requests -> Calls \cup {NoCall}]
         /\ invites' \subseteq Requests
<1>. USE DEF TypeOK, Labels, Answers, Goto, Answer, Receive, Written, At
<1>1. CASE CheckCreate(r) BY <1>1 DEF CheckCreate
<1>2. CASE Insert(r) BY <1>2 DEF Insert
<1>3. CASE Invite(r) BY <1>3 DEF Invite
<1>4. CASE Reread(r) BY <1>4 DEF Reread
<1>5. CASE ReadRow(r) BY <1>5 DEF ReadRow
<1>6. CASE CheckPatch(r) BY <1>6 DEF CheckPatch
<1>7. CASE WriteRow(r) BY <1>7 DEF WriteRow
<1>8. CASE ReadTransition(r) BY <1>8 DEF ReadTransition
<1>9. CASE WriteTransition(r) BY <1>9 DEF WriteTransition
<1>10. CASE Archive(r) BY <1>10 DEF Archive
<1>11. CASE Delete(r) BY <1>11 DEF Delete
<1>12. CASE Probe(r) BY <1>12 DEF Probe
<1>13. CASE Fail(r) BY <1>13 DEF Fail
<1>. QED BY <1>1, <1>2, <1>3, <1>4, <1>5, <1>6, <1>7, <1>8, <1>9, <1>10, <1>11, <1>12, <1>13
        DEF Step

\* Where r is after its step, and what it then knows.
LEMMA OwnStep ==
  ASSUME RecordInv, NEW r \in Requests, Step(r)
  PROVE  /\ pc'[r] \in Working => call'[r] \in Calls
         /\ pc'[r] \in {"check", "write"} =>
              call'[r].op = "patch" /\ saw'[r] \in Row /\ saw'[r].kind = call'[r].kind
         /\ pc'[r] = "insert" => pc[r] = "new" /\ row'[r] = row[r]
         /\ pc'[r] = "move" =>
              /\ call'[r].op = "transition"
              /\ row' = row
              /\ Exists(call'[r].target)
              /\ ValidTransition(row[call'[r].target].status, call'[r].body.status)
         /\ saw' \in [Requests -> Row \cup {NoRow}]
<1>. USE Names, CallShape DEF RecordInv, TypeOK, Received, KindKept, SawTarget, NotYet, Labels,
         Working, Goto, Answer, Receive, Written, At, Exists, Target
<1>1. CASE CheckCreate(r) BY <1>1 DEF CheckCreate
<1>2. CASE Insert(r) BY <1>2 DEF Insert
<1>3. CASE Invite(r) BY <1>3 DEF Invite
<1>4. CASE Reread(r) BY <1>4 DEF Reread
<1>5. CASE ReadRow(r) BY <1>5 DEF ReadRow
<1>6. CASE CheckPatch(r) BY <1>6 DEF CheckPatch
<1>7. CASE WriteRow(r) BY <1>7 DEF WriteRow
<1>8. CASE ReadTransition(r) BY <1>8 DEF ReadTransition
<1>9. CASE WriteTransition(r) BY <1>9 DEF WriteTransition
<1>10. CASE Archive(r) BY <1>10 DEF Archive
<1>11. CASE Delete(r) BY <1>11 DEF Delete
<1>12. CASE Probe(r) BY <1>12 DEF Probe
<1>13. CASE Fail(r) BY <1>13 DEF Fail
<1>. QED BY <1>1, <1>2, <1>3, <1>4, <1>5, <1>6, <1>7, <1>8, <1>9, <1>10, <1>11, <1>12, <1>13
        DEF Step

\* What a step does to the rows: it changes none but its own new one and the one
\* it was called for, keeps kinds, and moves statuses as promised.
LEMMA RowStep ==
  ASSUME RecordInv, NEW r \in Requests, Step(r)
  PROVE  /\ row' \in [Ids -> Row \cup {NoRow}]
         /\ \A x \in Ids :
              row[x] # NoRow /\ row'[x] # NoRow => row'[x].kind = row[x].kind
         /\ \A x \in Ids : Onward(x) /\ Stays(x)
         /\ \A x \in Requests : row'[x] # row[x] => x = r /\ pc'[r] \notin {"new", "insert"}
         /\ \A x \in DOMAIN Rows0 : row[x] = NoRow => row'[x] = NoRow
<1>1. ASSUME row' = row
      PROVE  /\ \A x \in Ids : Onward(x) /\ Stays(x)
             /\ row' \in [Ids -> Row \cup {NoRow}]
  BY <1>1 DEF Onward, Stays, RecordInv, TypeOK
<1>2. CASE Insert(r) /\ row' # row
  <2>1. /\ call[r] \in Calls /\ call[r].op = "create" /\ pc[r] = "insert"
        /\ row' = [row EXCEPT ![r] = Fresh(call[r])]
        /\ pc'[r] \in {"invite", "reread", "done"}
    BY <1>2 DEF Insert, At, RecordInv, TypeOK, Received, Labels, Working, Goto, Answer
  <2>2. row[r] = NoRow
    BY <2>1 DEF RecordInv, NotYet
  <2>3. Fresh(call[r]) \in Row
    BY <2>1, FreshShape
  <2>. QED BY <2>1, <2>2, <2>3, Names DEF Onward, Stays, RecordInv, TypeOK
<1>3. CASE WriteRow(r) /\ row' # row
  <2>. DEFINE y == Target(r)
  <2>1. /\ call[r] \in Calls /\ call[r].op = "patch" /\ pc[r] = "write"
        /\ Exists(y)
        /\ row' = [row EXCEPT ![y] = Updated(r)]
    BY <1>3 DEF WriteRow, At, RecordInv, TypeOK, Received, Labels, Working
  <2>2. /\ y \in DOMAIN Rows0 /\ y \in Ids /\ row[y] \in Row
        /\ row[y].kind = call[r].kind
        /\ BodyOf(r) \in Body
    BY <2>1, CallShape, Names DEF RecordInv, TypeOK, KindKept, Exists, Target, BodyOf
  <2>3. saw[r] \in Row /\ saw[r].kind = call[r].kind
    BY <2>1 DEF RecordInv, SawTarget
  <2>4. /\ Updated(r) \in Row /\ Updated(r).kind = call[r].kind
        /\ call[r].kind \in {"course", "batch"} => Updated(r).status = row[y].status
    BY <2>2, <2>3, UpdatedShape
  <2>. HIDE DEF y
  <2>. QED BY <2>1, <2>2, <2>4, Names DEF Onward, Stays, RecordInv, TypeOK
<1>4. CASE WriteTransition(r) /\ row' # row
  <2>. DEFINE y == Target(r)
            to == BodyOf(r).status
  <2>1. /\ call[r] \in Calls /\ call[r].op = "transition" /\ pc[r] = "move"
        /\ Exists(y)
        /\ row' = [row EXCEPT ![y].status = to]
    BY <1>4 DEF WriteTransition, At, RecordInv, TypeOK, Received, Labels, Working
  <2>2. /\ y \in DOMAIN Rows0 /\ y \in Ids /\ row[y] \in Row
        /\ row[y].kind = "batch"
    BY <2>1, CallShape, Names DEF RecordInv, TypeOK, KindKept, Exists, Target
  <2>3. /\ to \in {"ongoing", "completed"} /\ to \in Statuses
        /\ to = "ongoing" \/ row[y].status # "upcoming"
    BY <2>1, StatusNames DEF RecordInv, MoveSound, BodyOf, Target, Exists
  <2>4. /\ row'[y] \in Row /\ row'[y].kind = "batch" /\ row'[y].status = to
        /\ \A x \in Ids \ {y} : row'[x] = row[x]
        /\ row' \in [Ids -> Row \cup {NoRow}]
    BY <2>1, <2>2, <2>3 DEF Row, RecordInv, TypeOK
  <2>. HIDE DEF y, to
  <2>. QED BY <2>1, <2>2, <2>3, <2>4, Names DEF Onward, Stays, Exists
<1>5. CASE Archive(r) /\ row' # row
  <2>1. PICK c \in Calls : /\ c.op = "archive" /\ Archivable(c.target)
                           /\ row' = [row EXCEPT ![c.target].status = "archived"]
    BY <1>5 DEF Archive
  <2>. DEFINE y == c.target
  <2>2. /\ y \in DOMAIN Rows0 /\ y \in Ids /\ row[y] \in Row
        /\ row[y].kind = "course"
    BY <2>1, CallShape, Names DEF RecordInv, TypeOK, KindKept, Exists, Archivable
  <2>3. /\ row'[y] \in Row /\ row'[y].kind = "course" /\ row'[y].status = "archived"
        /\ \A x \in Ids \ {y} : row'[x] = row[x]
        /\ row' \in [Ids -> Row \cup {NoRow}]
    BY <2>1, <2>2, StatusNames DEF Row, RecordInv, TypeOK
  <2>. HIDE DEF y
  <2>. QED BY <2>2, <2>3, Names DEF Onward, Stays
<1>6. CASE Delete(r) /\ row' # row
  <2>1. PICK c \in Calls : /\ c.op = "delete" /\ Exists(c.target)
                           /\ row' = [row EXCEPT ![c.target] = NoRow]
    BY <1>6 DEF Delete
  <2>2. c.target \in DOMAIN Rows0 /\ row[c.target].kind = "batch"
    BY <2>1, CallShape, Names DEF RecordInv, TypeOK, KindKept, Exists
  <2>. QED BY <2>1, <2>2, Names DEF Onward, Stays, RecordInv, TypeOK
<1>7. \/ row' = row
      \/ Insert(r) \/ WriteRow(r) \/ WriteTransition(r) \/ Archive(r) \/ Delete(r)
  BY DEF Step, CheckCreate, Invite, Reread, ReadRow, CheckPatch, ReadTransition, Probe, Fail
<1>. QED BY <1>1, <1>2, <1>3, <1>4, <1>5, <1>6, <1>7

-----------------------------------------------------------------------------
(* The invariant *)

LEMMA InitInv == Init => RecordInv
<1>. SUFFICES ASSUME Init PROVE RecordInv
  OBVIOUS
<1>1. TypeOK
  BY Names DEF Init, TypeOK, Labels
<1>2. KindKept
  BY Names DEF Init, KindKept
<1>. QED
  BY <1>1, <1>2, Names
  DEF Init, RecordInv, Received, Working, SawTarget, NotYet, MoveSound, AnswerAtEnd

LEMMA StepInv ==
  ASSUME RecordInv, NEW r \in Requests, Step(r)
  PROVE  RecordInv'
<1>. TypeOK
  BY DEF RecordInv
<1>1. TypeOK'
  BY OthersKeep, OwnStep, RowStep DEF TypeOK
<1>2. Received'
  BY OthersKeep, OwnStep DEF Received, RecordInv
<1>3. KindKept'
  BY RowStep, Names DEF KindKept, RecordInv
<1>4. SawTarget'
  BY OthersKeep, OwnStep DEF SawTarget, RecordInv
<1>5. NotYet'
  BY OthersKeep, OwnStep, RowStep DEF NotYet, RecordInv
<1>6. MoveSound'
  <2>. SUFFICES ASSUME NEW q \in Requests, pc'[q] = "move"
                PROVE  /\ call'[q].op = "transition"
                       /\ call'[q].body.status \in {"ongoing", "completed"}
                       /\ \/ call'[q].body.status = "ongoing"
                          \/ row'[call'[q].target] = NoRow
                          \/ row'[call'[q].target].status # "upcoming"
    BY DEF MoveSound
  <2>1. CASE q = r
    BY <2>1, OwnStep DEF ValidTransition
  <2>2. CASE q # r
    <3>1. pc[q] = "move" /\ call'[q] = call[q] /\ call[q] \in Calls
      BY <2>2, OthersKeep DEF RecordInv, Received, Working, Labels
    <3>2. call[q].op = "transition"
      BY <3>1 DEF RecordInv, MoveSound
    <3>. DEFINE y == call[q].target
    <3>3. y \in DOMAIN Rows0 /\ y \in Ids /\ call[q].kind = "batch" /\ Rows0[y].kind = "batch"
      BY <3>1, <3>2, CallShape, Names
    <3>4. row[y] # NoRow => row[y].kind = "batch"
      BY <3>3 DEF RecordInv, KindKept
    <3>5. Onward(y) /\ (row[y] = NoRow => row'[y] = NoRow)
      BY <3>3, RowStep
    <3>. QED BY <3>1, <3>3, <3>4, <3>5 DEF RecordInv, MoveSound, Onward
  <2>. QED BY <2>1, <2>2
<1>7. AnswerAtEnd'
  BY OthersKeep DEF AnswerAtEnd, RecordInv
<1>. QED BY <1>1, <1>2, <1>3, <1>4, <1>5, <1>6, <1>7 DEF RecordInv

LEMMA NextInv == RecordInv /\ [Next]_vars => RecordInv'
<1>. SUFFICES ASSUME RecordInv, [Next]_vars PROVE RecordInv'
  OBVIOUS
<1>1. CASE Next
  BY <1>1, StepInv DEF Next
<1>2. CASE UNCHANGED vars
  BY <1>2 DEF vars, RecordInv, TypeOK, Received, KindKept, SawTarget, NotYet, MoveSound,
    AnswerAtEnd
<1>. QED BY <1>1, <1>2

-----------------------------------------------------------------------------
(* Unique keys *)

\* The unique index makes the last look at the table the one that counts.
LEMMA KeyStep ==
  ASSUME RecordInv, KeyUnique, NEW r \in Requests, Step(r)
  PROVE  KeyUnique'
<1>. USE DEF KeyUnique, Exists, Holds
<1>1. CASE row' = row
  BY <1>1
<1>2. CASE Insert(r) /\ row' # row
  <2>1. /\ call[r] \in Calls /\ call[r].op = "create"
        /\ row' = [row EXCEPT ![r] = Fresh(call[r])]
        /\ ~Taken(call[r].kind, call[r].body.key, r)
    BY <1>2 DEF Insert, At, RecordInv, TypeOK, Received, Labels, Working
  <2>2. /\ Fresh(call[r]) \in Row
        /\ Fresh(call[r]).kind = call[r].kind
        /\ Fresh(call[r]).key = call[r].body.key
    BY <2>1, FreshShape
  <2>. QED BY <2>1, <2>2, Names DEF Taken, RecordInv, TypeOK
<1>3. CASE WriteRow(r) /\ row' # row
  <2>. DEFINE y == Target(r)
  <2>1. /\ call[r] \in Calls /\ call[r].op = "patch" /\ pc[r] = "write"
        /\ row[y] # NoRow
        /\ row' = [row EXCEPT ![y] = Updated(r)]
        /\ ~Taken(call[r].kind, Updated(r).key, y)
    BY <1>3 DEF WriteRow, At, RecordInv, TypeOK, Received, Labels, Working
  <2>2. /\ y \in Ids /\ row[y] \in Row /\ BodyOf(r) \in Body
    BY <2>1, CallShape, Names DEF RecordInv, TypeOK, Target, BodyOf
  <2>3. saw[r] \in Row /\ saw[r].kind = call[r].kind
    BY <2>1 DEF RecordInv, SawTarget
  <2>4. Updated(r) \in Row /\ Updated(r).kind = call[r].kind
    BY <2>2, <2>3, UpdatedShape
  <2>. HIDE DEF y
  <2>. QED BY <2>1, <2>2, <2>4, Names DEF Taken, RecordInv, TypeOK
<1>4. ASSUME NEW y \in Ids, NEW to \in Statuses, row[y] # NoRow,
             row' = [row EXCEPT ![y].status = to]
      PROVE  KeyUnique'
  <2>1. row[y] \in Row
    BY <1>4 DEF RecordInv, TypeOK
  <2>2. /\ row'[y] # NoRow /\ row'[y].kind = row[y].kind /\ row'[y].key = row[y].key
        /\ \A x \in Ids \ {y} : row'[x] = row[x]
    BY <1>4, <2>1, Names DEF RecordInv, TypeOK, Row
  <2>. QED BY <1>4, <2>2
<1>5. CASE WriteTransition(r) /\ row' # row
  <2>1. /\ call[r] \in Calls /\ call[r].op = "transition" /\ pc[r] = "move"
        /\ row[Target(r)] # NoRow
        /\ row' = [row EXCEPT ![Target(r)].status = BodyOf(r).status]
    BY <1>5 DEF WriteTransition, At, RecordInv, TypeOK, Received, Labels, Working
  <2>2. Target(r) \in Ids /\ BodyOf(r).status \in Statuses
    BY <2>1, CallShape, Names, StatusNames DEF Target, BodyOf
  <2>. QED BY <2>1, <2>2, <1>4
<1>6. CASE Archive(r) /\ row' # row
  <2>1. PICK c \in Calls : /\ c.op = "archive" /\ row[c.target] # NoRow
                           /\ row' = [row EXCEPT ![c.target].status = "archived"]
    BY <1>6 DEF Archive, Archivable
  <2>2. c.target \in Ids /\ "archived" \in Statuses
    BY <2>1, CallShape, Names, StatusNames
  <2>. QED BY <2>1, <2>2, <1>4
<1>7. CASE Delete(r) /\ row' # row
  <2>1. PICK c \in Calls : row' = [row EXCEPT ![c.target] = NoRow]
    BY <1>7 DEF Delete
  <2>. QED BY <2>1 DEF RecordInv, TypeOK
<1>8. \/ row' = row
      \/ Insert(r) \/ WriteRow(r) \/ WriteTransition(r) \/ Archive(r) \/ Delete(r)
  BY DEF Step, CheckCreate, Invite, Reread, ReadRow, CheckPatch, ReadTransition, Probe, Fail
<1>. QED BY <1>1, <1>2, <1>3, <1>5, <1>6, <1>7, <1>8

LEMMA InitKeys == Init => KeyUnique
  BY RecordsAssumption, Names DEF Init, KeyUnique, Exists, Holds

-----------------------------------------------------------------------------
(* Invitations *)

\* Only a batch is read again after it was written.
RereadBatch ==
  \A r \in Requests : pc[r] = "reread" => call[r].kind = "batch"

InviteInv == RereadBatch /\ InvitedWhenOk

LEMMA InviteStep ==
  ASSUME RecordInv, InviteInv, NEW r \in Requests, Step(r)
  PROVE  InviteInv'
<1>1. /\ pc'[r] = "reread" => call'[r].kind = "batch"
      /\ resp'[r] = "ok" /\ call'[r].op = "create" /\ call'[r].kind = "user"
           => r \in invites'
      /\ invites \subseteq invites'
  <2>. USE DEF RecordInv, TypeOK, SawTarget, AnswerAtEnd, InviteInv, RereadBatch, Goto, Answer,
           Receive, Written, At, Labels, Answers
  <2>1. CASE CheckCreate(r) BY <2>1 DEF CheckCreate
  <2>2. CASE Insert(r) BY <2>2 DEF Insert
  <2>3. CASE Invite(r) BY <2>3 DEF Invite
  <2>4. CASE Reread(r) BY <2>4 DEF Reread
  <2>5. CASE ReadRow(r) BY <2>5 DEF ReadRow
  <2>6. CASE CheckPatch(r) BY <2>6 DEF CheckPatch
  <2>7. CASE WriteRow(r) BY <2>7 DEF WriteRow
  <2>8. CASE ReadTransition(r) BY <2>8 DEF ReadTransition
  <2>9. CASE WriteTransition(r) BY <2>9 DEF WriteTransition
  <2>10. CASE Archive(r) BY <2>10 DEF Archive
  <2>11. CASE Delete(r) BY <2>11 DEF Delete
  <2>12. CASE Probe(r) BY <2>12 DEF Probe
  <2>13. CASE Fail(r) BY <2>13 DEF Fail
  <2>. QED BY <2>1, <2>2, <2>3, <2>4, <2>5, <2>6, <2>7, <2>8, <2>9, <2>10, <2>11, <2>12, <2>13
          DEF Step
<1>. QED BY <1>1, OthersKeep DEF RecordInv, InviteInv, RereadBatch, InvitedWhenOk

-----------------------------------------------------------------------------
(* Theorems *)

\* Rows, calls and positions have their types, whatever requests race.
THEOREM TypeCorrect == Spec => []TypeOK
<1>1. Init => RecordInv
  BY InitInv
<1>2. RecordInv /\ [Next]_vars => RecordInv'
  BY NextInv
<1>3. RecordInv => TypeOK
  BY DEF RecordInv
<1>. QED BY <1>1, <1>2, <1>3, PTL DEF Spec

\* No e-mail and no code is given twice.
THEOREM KeyUniqueHolds == Spec => []KeyUnique
<1>1. Init => RecordInv /\ KeyUnique
  BY InitInv, InitKeys
<1>2. (RecordInv /\ KeyUnique) /\ [Next]_vars => (RecordInv /\ KeyUnique)'
  <2>. SUFFICES ASSUME RecordInv, KeyUnique, [Next]_vars PROVE KeyUnique'
    BY NextInv
  <2>1. CASE Next
    BY <2>1, KeyStep DEF Next
  <2>2. CASE UNCHANGED vars
    BY <2>2 DEF vars, KeyUnique, Exists, Holds
  <2>. QED BY <2>1, <2>2
<1>. QED BY <1>1, <1>2, PTL DEF Spec

\* A user whose creation was a success was given an invitation.
THEOREM InvitedWhenOkHolds == Spec => []InvitedWhenOk
<1>1. Init => RecordInv /\ InviteInv
  BY InitInv DEF Init, InviteInv, RereadBatch, InvitedWhenOk
<1>2. (RecordInv /\ InviteInv) /\ [Next]_vars => (RecordInv /\ InviteInv)'
  <2>. SUFFICES ASSUME RecordInv, InviteInv, [Next]_vars PROVE InviteInv'
    BY NextInv
  <2>1. CASE Next
    BY <2>1, InviteStep DEF Next
  <2>2. CASE UNCHANGED vars
    BY <2>2 DEF vars, InviteInv, RereadBatch, InvitedWhenOk
  <2>. QED BY <2>1, <2>2
<1>3. RecordInv /\ InviteInv => InvitedWhenOk
  BY DEF InviteInv
<1>. QED BY <1>1, <1>2, <1>3, PTL DEF Spec

\* An archived course stays archived, although PATCHes write back what they read
\* before the archiving.
THEOREM ArchivedStaysHolds == Spec => ArchivedStays
<1>1. Init => RecordInv
  BY InitInv
<1>2. RecordInv /\ [Next]_vars => RecordInv'
  BY NextInv
<1>3. RecordInv /\ [Next]_vars =>
        [\A x \in Ids :
           Exists(x) /\ row[x].kind = "course" /\ row[x].status = "archived"
           => row'[x].status = "archived"]_vars
  BY RowStep DEF Next, Stays, Exists
<1>. QED BY <1>1, <1>2, <1>3, PTL DEF Spec, ArchivedStays

\* A batch that has started is never upcoming again and none completes that has
\* not started, although the status is written as it was validated some time ago.
THEOREM BatchOnwardHolds == Spec => BatchOnward
<1>1. Init => RecordInv
  BY InitInv
<1>2. RecordInv /\ [Next]_vars => RecordInv'
  BY NextInv
<1>3. RecordInv /\ [Next]_vars =>
        [\A x \in Ids :
           /\ Exists(x) /\ row[x].kind = "batch"
           /\ row'[x] # NoRow
           => /\ row[x].status # "upcoming" => row'[x].status # "upcoming"
              /\ row[x].status = "upcoming" => row'[x].status # "completed"]_vars
  BY RowStep DEF Next, Onward, Exists
<1>. QED BY <1>1, <1>2, <1>3, PTL DEF Spec, BatchOnward

-----------------------------------------------------------------------------
(* Fields that a body leaves out *)

\* A merge keeps the fields that the body leaves out, and what is written of it
\* is the merged row or the present one.
LEMMA KeepsUnset ==
  ASSUME NEW r \in Requests, saw[r] \in Row, row[Target(r)] = saw[r],
         BodyOf(r) \in Body, call[r].kind \in Kinds,
         NEW f \in DOMAIN BodyOf(r), BodyOf(r)[f] = Unset
  PROVE  Updated(r)[f] = row[Target(r)][f]
<1>. DEFINE now == row[Target(r)]
            new == Merged(r)
<1>1. f \in {"key", "note", "status", "who"}
  BY DEF Body
<1>2. Null # Unset
  BY RecordsAssumption
<1>3. new = [kind |-> new.kind, key |-> new.key, note |-> new.note,
             status |-> new.status, who |-> new.who]
      /\ new[f] = now[f]
  BY <1>1, <1>2 DEF Merged, ValueOr, Decoded
<1>. HIDE DEF now, new
<1>4. CASE call[r].kind \in ByEmail
  <2>1. Updated(r) = new
    BY <1>4 DEF Updated, ByEmail, new
  <2>. QED BY <2>1, <1>3 DEF now
<1>5. CASE call[r].kind = "course"
  <2>1. Updated(r) = [new EXCEPT !.status = now.status]
    BY <1>5 DEF Updated, ByEmail, new, now
  <2>2. Updated(r) = [kind |-> new.kind, key |-> new.key, note |-> new.note,
                      status |-> now.status, who |-> new.who]
    BY <2>1, <1>3
  <2>. QED BY <2>2, <1>1, <1>3 DEF now
<1>6. CASE call[r].kind = "batch"
  <2>1. Updated(r) = [new EXCEPT !.status = now.status,
                        !.note = IF new.note = Null THEN now.note ELSE @]
    BY <1>6 DEF Updated, ByEmail, new, now
  <2>2. Updated(r) = [kind |-> new.kind, key |-> new.key,
                      note |-> IF new.note = Null THEN now.note ELSE new.note,
                      status |-> now.status, who |-> new.who]
    BY <2>1, <1>3
  <2>. QED BY <2>2, <1>1, <1>3 DEF now
<1>. QED BY <1>4, <1>5, <1>6 DEF Kinds, ByEmail

\* An UPDATE that finds the row as it was read changes no field that the body
\* leaves out, whatever the other requests do elsewhere.
THEOREM PatchIsPartialHolds == Spec => PatchIsPartial
<1>1. Init => RecordInv
  BY InitInv
<1>2. RecordInv /\ [Next]_vars => RecordInv'
  BY NextInv
<1>3. ASSUME RecordInv, NEW q \in Requests, Step(q), NEW r \in Requests,
             At(r, "patch", "write"), row'[Target(r)] # row[Target(r)],
             pc'[r] # "write", row[Target(r)] = saw[r],
             NEW f \in DOMAIN BodyOf(r), BodyOf(r)[f] = Unset
      PROVE  row'[Target(r)][f] = row[Target(r)][f]
  <2>1. q = r
    BY <1>3, OthersKeep DEF RecordInv, At
  <2>2. WriteRow(r)
    BY <1>3, <2>1 DEF Step, At, CheckCreate, Insert, Invite, Reread, ReadRow, CheckPatch,
          ReadTransition, WriteTransition, Archive, Delete, Probe, Fail, Receive
  <2>3. row' = [row EXCEPT ![Target(r)] = Updated(r)]
    BY <1>3, <2>2 DEF WriteRow
  <2>4. /\ call[r] \in Calls
        /\ saw[r] \in Row
    BY <1>3 DEF RecordInv, TypeOK, Received, SawTarget, At
  <2>5. /\ Target(r) \in Ids
        /\ BodyOf(r) \in Body
        /\ call[r].kind \in Kinds
    BY <1>3, <2>4, CallShape, Names, RecordsAssumption DEF At, Target, BodyOf, Call, Ids
  <2>6. Updated(r)[f] = row[Target(r)][f]
    BY <1>3, <2>4, <2>5, KeepsUnset
  <2>. QED BY <1>3, <2>3, <2>5, <2>6 DEF RecordInv, TypeOK
<1>4. RecordInv /\ [Next]_vars =>
        [\A r \in Requests :
           /\ At(r, "patch", "write")
           /\ row'[Target(r)] # row[Target(r)]
           /\ pc'[r] # "write"
           /\ row[Target(r)] = saw[r]
           => \A f \in DOMAIN BodyOf(r) :
                BodyOf(r)[f] = Unset => row'[Target(r)][f] = row[Target(r)][f]]_vars
  BY <1>3 DEF Next
<1>. QED BY <1>1, <1>2, <1>4, PTL DEF Spec, PatchIsPartial
=============================================================================
