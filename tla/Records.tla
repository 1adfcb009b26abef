------------------------------ MODULE Records ------------------------------
(***************************************************************************)
(* The create and update handlers of users, students, courses and batches, *)
(* with the status transitions and the deletion of batches and the         *)
(* archiving of courses.                                                   *)
(*                                                                         *)
(* All four services work alike: read, check, merge the body into what was *)
(* read, and write the whole row, in READ COMMITTED, without a transaction *)
(* and without a lock.  A step is one statement and what the service does  *)
(* with its result.  A row has the columns that matter to the checks: the  *)
(* unique one (email, course_code, batch_code), one that may be NULL, the  *)
(* status, and the role of a user or the instructor of a batch.            *)
(***************************************************************************)

CONSTANTS
  Requests,
  Calls,     \* what clients may send
  Rows0,     \* the rows there are at first, by id
  Home,      \* the course that all batches belong to
  Keys, Notes, Roles,
  Null,      \* SQL NULL, JSON null
  Unset,     \* a field that a body leaves out
  Nobody, NoRow, NoCall

\* The id of a new row is fresh; it is named for the request that creates it.
Ids   == DOMAIN Rows0 \cup Requests
Kinds == {"user", "student", "course", "batch"}
Ops   == {"create", "patch", "transition", "archive", "delete"}

StatusesOf ==
  [user    |-> {"active", "inactive"},
   student |-> {"active", "inactive", "graduated"},
   course  |-> {"active", "archived"},
   batch   |-> {"upcoming", "ongoing", "completed"}]
Statuses == UNION {StatusesOf[kind] : kind \in Kinds}

Whos == Roles \cup DOMAIN Rows0 \cup {Nobody}

Row  == [kind : Kinds, key : Keys, note : Notes \cup {Null},
         status : Statuses, who : Whos]
Body == [key : Keys \cup {Unset}, note : Notes \cup {Null, Unset},
         status : Statuses \cup {Unset}, who : Whos \cup {Unset}]
Call == [op : Ops, kind : Kinds, target : DOMAIN Rows0 \cup {NoRow}, body : Body]

\* The requests that the handlers let through: a creation has its required
\* fields, and a PATCH only the fields of its request type.
WellFormed(c) ==
  /\ c.op = "create" =>
       c.body.key # Unset /\ c.body.who # Unset /\ c.body.status = Unset
  /\ c.op # "create" => c.target \in DOMAIN Rows0 /\ Rows0[c.target].kind = c.kind
  /\ c.op = "patch" /\ c.kind \in {"course", "batch"} => c.body.status = Unset
  /\ c.op = "patch" /\ c.kind \in {"student", "course"} => c.body.who = Unset
  /\ c.op = "patch" => c.body.status \in StatusesOf[c.kind] \cup {Unset}
  /\ c.op \in {"transition", "delete"} => c.kind = "batch"
  /\ c.op = "transition" => c.body.status \in StatusesOf.batch
  /\ c.op = "archive" => c.kind = "course"

ASSUME RecordsAssumption ==
  /\ Rows0 \in [DOMAIN Rows0 -> Row]
  /\ \A x \in DOMAIN Rows0 : Rows0[x].status \in StatusesOf[Rows0[x].kind]
  /\ \A x, y \in DOMAIN Rows0 :
       Rows0[x].kind = Rows0[y].kind /\ Rows0[x].key = Rows0[y].key => x = y
  /\ DOMAIN Rows0 \cap Requests = {}
  /\ Home \in DOMAIN Rows0
  /\ \A c \in Calls : c \in Call /\ WellFormed(c)
  /\ NoCall \notin Call
  /\ NoRow \notin Row \cup DOMAIN Rows0
  /\ Unset \notin Keys \cup Notes \cup Statuses \cup Whos \cup {Null}

VARIABLES
  row,      \* the tables
  invites,  \* the created users that were given an invitation link
  call,     \* what each request asks for
  pc,       \* where it is
  saw,      \* the row as it read it
  resp      \* its response

vars == <<row, invites, call, pc, saw, resp>>

Labels  == {"new", "check", "insert", "invite", "write", "reread", "move", "probe", "done"}
Answers == {"ok", "conflict", "invalid", "missing", "error"}

TypeOK ==
  /\ row \in [Ids -> Row \cup {NoRow}]
  /\ invites \subseteq Requests
  /\ call \in [Requests -> Calls \cup {NoCall}]
  /\ pc \in [Requests -> Labels]
  /\ saw \in [Requests -> Row \cup {NoRow}]
  /\ resp \in [Requests -> Answers \cup {"none"}]

Init ==
  /\ row = [x \in Ids |-> IF x \in DOMAIN Rows0 THEN Rows0[x] ELSE NoRow]
  /\ invites = {}
  /\ call = [r \in Requests |-> NoCall]
  /\ pc = [r \in Requests |-> "new"]
  /\ saw = [r \in Requests |-> NoRow]
  /\ resp = [r \in Requests |-> "none"]

-----------------------------------------------------------------------------
(* Requests and rows *)

At(r, op, label) ==
  /\ pc[r] = label
  /\ call[r] # NoCall
  /\ call[r].op = op

Target(r) == call[r].target
BodyOf(r) == call[r].body

Receive(r, c) ==
  /\ pc[r] = "new"
  /\ call' = [call EXCEPT ![r] = c]

Goto(r, label) ==
  /\ pc' = [pc EXCEPT ![r] = label]
  /\ UNCHANGED resp

Answer(r, a) ==
  /\ pc' = [pc EXCEPT ![r] = "done"]
  /\ resp' = [resp EXCEPT ![r] = a]

\* A statement that wrote is answered, or its answer is lost.
Written(r) == Answer(r, "ok") \/ Answer(r, "error")

Exists(x)    == row[x] # NoRow
Holds(x, kind, k) == Exists(x) /\ row[x].kind = kind /\ row[x].key = k

\* GetUserByEmail, GetStudentByEmail.
Known(kind, k) == \E x \in Ids : Holds(x, kind, k)

\* Mutant: the column has no unique index.
TakenNever(kind, k, x) == FALSE

\* The unique indexes: no other row may have the key.
Taken(kind, k, x) == \E y \in Ids \ {x} : Holds(y, kind, k)

ActiveTeacher(x) ==
  /\ x \in Ids /\ Exists(x)
  /\ row[x].kind = "user" /\ row[x].who = "teacher" /\ row[x].status = "active"

-----------------------------------------------------------------------------
(* POST /users, /students, /courses, /batches *)

ByEmail == {"user", "student"}

\* What is checked before the INSERT: the e-mail is unknown, the instructor
\* teaches; a course is checked by its index alone.
CheckCreate(r) ==
  \E c \in {d \in Calls : d.op = "create"} :
    /\ Receive(r, c)
    /\ \/ c.kind \in ByEmail /\ Known(c.kind, c.body.key) /\ Answer(r, "conflict")
       \/ c.kind = "batch" /\ ~ActiveTeacher(c.body.who) /\ Answer(r, "invalid")
       \/ /\ c.kind \in ByEmail => ~Known(c.kind, c.body.key)
          /\ c.kind = "batch" => ActiveTeacher(c.body.who)
          /\ Goto(r, "insert")
    /\ UNCHANGED <<row, invites, saw>>

Fresh(c) ==
  [kind |-> c.kind, key |-> c.body.key,
   note |-> IF c.body.note = Unset THEN Null ELSE c.body.note,
   status |-> IF c.kind = "batch" THEN "upcoming" ELSE "active",
   who |-> c.body.who]

\* INSERT; a user then gets an invitation, a batch is read again.
Insert(r) ==
  /\ At(r, "create", "insert")
  /\ LET c == call[r] IN
     \/ /\ Taken(c.kind, c.body.key, r)
        /\ Answer(r, "conflict")
        /\ UNCHANGED row
     \/ /\ ~Taken(c.kind, c.body.key, r)
        /\ row' = [row EXCEPT ![r] = Fresh(c)]
        /\ \/ c.kind = "user" /\ Goto(r, "invite")
           \/ c.kind = "batch" /\ Goto(r, "reread")
           \/ c.kind \in {"student", "course"} /\ Answer(r, "ok")
           \/ Answer(r, "error")
  /\ UNCHANGED <<invites, call, saw>>

\* Mutant: an error of the INSERT is ignored like that of the e-mail.
InviteRegardless(r) ==
  /\ At(r, "create", "invite")
  /\ invites' \in {invites, invites \cup {r}}
  /\ Answer(r, "ok")
  /\ UNCHANGED <<row, call, saw>>

\* InsertPasswordResetToken; that the e-mail fails is only logged.
Invite(r) ==
  /\ At(r, "create", "invite")
  /\ invites' = invites \cup {r}
  /\ Written(r)
  /\ UNCHANGED <<row, call, saw>>

\* GetBatchByID after the INSERT or UPDATE of a batch, which may be gone again.
Reread(r) ==
  /\ pc[r] = "reread"
  /\ LET x == IF call[r].op = "create" THEN r ELSE Target(r) IN
       Answer(r, IF Exists(x) THEN "ok" ELSE "error")
  /\ UNCHANGED <<row, invites, call, saw>>

-----------------------------------------------------------------------------
(* PATCH /users/:id, /students/:id, /courses/:id, /batches/:id *)

\* Mutant: a Patchable that was not sent counts as null.
DecodedAbsent(field) == IF field = Unset THEN Null ELSE field

\* Every nullable field of a request type is a pointer to a Patchable: for
\* JSON null encoding/json sets the pointer to nil and never calls
\* UnmarshalJSON, so to the service the field was not sent.
Decoded(field) == IF field = Null THEN Unset ELSE field

\* Mutant: the field is taken whether it was sent or not.
ValueOrRaw(field, existing) == field

ValueOr(field, existing) == IF field = Unset THEN existing ELSE field

\* MergeUserUpdate, MergeStudentUpdate, MergeCourseUpdate, MergeBatchUpdate.
Merged(r) ==
  [kind   |-> saw[r].kind,
   key    |-> ValueOr(BodyOf(r).key, saw[r].key),
   note   |-> ValueOr(Decoded(BodyOf(r).note), saw[r].note),
   status |-> ValueOr(BodyOf(r).status, saw[r].status),
   who    |-> ValueOr(BodyOf(r).who, saw[r].who)]

\* An e-mail is looked up if it is not the one just read, an instructor always.
NeedsCheck(c, seen) ==
  \/ c.kind \in ByEmail /\ c.body.key \notin {Unset, seen.key}
  \/ c.kind = "batch" /\ c.body.who # Unset

ReadRow(r) ==
  \E c \in {d \in Calls : d.op = "patch"} :
    /\ Receive(r, c)
    /\ \/ ~Exists(c.target) /\ Answer(r, "missing") /\ UNCHANGED saw
       \/ /\ Exists(c.target)
          /\ saw' = [saw EXCEPT ![r] = row[c.target]]
          /\ Goto(r, IF NeedsCheck(c, row[c.target]) THEN "check" ELSE "write")
    /\ UNCHANGED <<row, invites>>

CheckPatch(r) ==
  /\ At(r, "patch", "check")
  /\ LET c == call[r] IN
     \/ c.kind \in ByEmail /\ Known(c.kind, c.body.key) /\ Answer(r, "conflict")
     \/ c.kind = "batch" /\ ~ActiveTeacher(c.body.who) /\ Answer(r, "invalid")
     \/ /\ c.kind \in ByEmail => ~Known(c.kind, c.body.key)
        /\ c.kind = "batch" => ActiveTeacher(c.body.who)
        /\ Goto(r, "write")
  /\ UNCHANGED <<row, invites, call, saw>>

\* Mutant: the UPDATE writes every column of the merged row.
UpdatedWhole(r) == Merged(r)

\* The columns that each UPDATE writes: those of users and students all, those
\* of courses and batches all but the status; a batch keeps its year if the
\* merged one is NULL (COALESCE).
Updated(r) ==
  LET now == row[Target(r)]
      new == Merged(r)
  IN CASE call[r].kind \in ByEmail -> new
       [] call[r].kind = "course"  -> [new EXCEPT !.status = now.status]
       [] call[r].kind = "batch"   ->
            [new EXCEPT !.status = now.status,
                        !.note = IF new.note = Null THEN now.note ELSE @]

WriteRow(r) ==
  /\ At(r, "patch", "write")
  /\ \/ ~Exists(Target(r)) /\ Answer(r, "error") /\ UNCHANGED row
     \/ /\ Exists(Target(r))
        /\ Taken(call[r].kind, Updated(r).key, Target(r))
        /\ Answer(r, "conflict")
        /\ UNCHANGED row
     \/ /\ Exists(Target(r))
        /\ ~Taken(call[r].kind, Updated(r).key, Target(r))
        /\ row' = [row EXCEPT ![Target(r)] = Updated(r)]
        /\ \/ call[r].kind = "batch" /\ Goto(r, "reread")
           \/ call[r].kind # "batch" /\ Answer(r, "ok")
           \/ Answer(r, "error")
  /\ UNCHANGED <<invites, call, saw>>

-----------------------------------------------------------------------------
(* PATCH /batches/:id/status, PATCH /courses/:id/archive, DELETE /batches/:id *)

\* Mutant: any later status is a valid one.
ValidTransitionSkipping(current, next) ==
  /\ current # "completed"
  /\ next # "upcoming"

ValidTransition(current, next) ==
  \/ current = "upcoming" /\ next = "ongoing"
  \/ current = "ongoing" /\ next = "completed"

ReadTransition(r) ==
  \E c \in {d \in Calls : d.op = "transition"} :
    /\ Receive(r, c)
    /\ \/ ~Exists(c.target) /\ Answer(r, "missing") /\ UNCHANGED saw
       \/ /\ Exists(c.target)
          /\ saw' = [saw EXCEPT ![r] = row[c.target]]
          /\ IF ValidTransition(row[c.target].status, c.body.status)
             THEN Goto(r, "move") ELSE Answer(r, "invalid")
    /\ UNCHANGED <<row, invites>>

\* UpdateBatchStatus, whatever the status has become.
WriteTransition(r) ==
  /\ At(r, "transition", "move")
  /\ \/ ~Exists(Target(r)) /\ Answer(r, "missing") /\ UNCHANGED row
     \/ /\ Exists(Target(r))
        /\ row' = [row EXCEPT ![Target(r)].status = BodyOf(r).status]
        /\ Written(r)
  /\ UNCHANGED <<invites, call, saw>>

Ongoing(x) == Exists(x) /\ row[x].kind = "batch" /\ row[x].status = "ongoing"

\* ArchiveCourse; a course that is not there, archived or busy is all one.
Archivable(x) ==
  /\ Exists(x) /\ row[x].status = "active"
  /\ x = Home => \A y \in Ids : ~Ongoing(y)

Archive(r) ==
  \E c \in {d \in Calls : d.op = "archive"} :
    /\ Receive(r, c)
    /\ \/ ~Archivable(c.target) /\ Answer(r, "invalid") /\ UNCHANGED row
       \/ /\ Archivable(c.target)
          /\ row' = [row EXCEPT ![c.target].status = "archived"]
          /\ Written(r)
    /\ UNCHANGED <<invites, saw>>

\* DeleteBatchIfEmpty: active enrollments exclude it, and so do dropped ones and
\* schedules, by their foreign keys.
Delete(r) ==
  \E c \in {d \in Calls : d.op = "delete"} :
    /\ Receive(r, c)
    /\ \/ Goto(r, "probe") /\ UNCHANGED row
       \/ /\ Exists(c.target)
          /\ row' = [row EXCEPT ![c.target] = NoRow]
          /\ Written(r)
    /\ UNCHANGED <<invites, saw>>

\* GetBatchByID tells why nothing was deleted; if it fails that counts as a batch
\* with enrollments.
Probe(r) ==
  /\ At(r, "delete", "probe")
  /\ \/ ~Exists(Target(r)) /\ Answer(r, "missing")
     \/ Answer(r, "conflict")
  /\ UNCHANGED <<row, invites, call, saw>>

-----------------------------------------------------------------------------

\* A statement fails, or the client leaves.
Fail(r) ==
  /\ pc[r] \notin {"probe", "done"}
  /\ Answer(r, "error")
  /\ UNCHANGED <<row, invites, call, saw>>

Step(r) ==
  \/ CheckCreate(r) \/ Insert(r) \/ Invite(r) \/ Reread(r)
  \/ ReadRow(r) \/ CheckPatch(r) \/ WriteRow(r)
  \/ ReadTransition(r) \/ WriteTransition(r)
  \/ Archive(r)
  \/ Delete(r) \/ Probe(r)
  \/ Fail(r)

Next == \E r \in Requests : Step(r)

Spec == Init /\ [][Next]_vars

-----------------------------------------------------------------------------
(* Properties *)

\* No e-mail and no code is given twice, although each service looks before it
\* writes and others write in between.
KeyUnique ==
  \A x, y \in Ids :
    Exists(x) /\ Holds(y, row[x].kind, row[x].key) => x = y

\* A user whose creation was a success has a link to set a password with: an
\* error between the INSERT of the user and that of the link is not a success.
InvitedWhenOk ==
  \A r \in Requests :
    resp[r] = "ok" /\ call[r].op = "create" /\ call[r].kind = "user"
      => r \in invites

\* An archived course stays archived: a PATCH that read it before the archiving
\* merges the old status and must not write it back.
ArchivedStays ==
  [][\A x \in Ids :
       Exists(x) /\ row[x].kind = "course" /\ row[x].status = "archived"
       => row'[x].status = "archived"]_vars

\* However transitions, PATCHes and deletions race, a batch that has started is
\* never upcoming again, and none completes that has not started.  That a completed
\* batch is ongoing again is not excluded: see NeverReversed.
BatchOnward ==
  [][\A x \in Ids :
       /\ Exists(x) /\ row[x].kind = "batch"
       /\ row'[x] # NoRow
       => /\ row[x].status # "upcoming" => row'[x].status # "upcoming"
          /\ row[x].status = "upcoming" => row'[x].status # "completed"]_vars

\* docs/functional-requirement-diagram.md:731 "Invalid transitions: any reversal,
\* completed -> any": what UpdateBatchStatus writes follows what the batch is by then.
NeverReversed ==
  [][\A x \in Ids :
       /\ Exists(x) /\ row[x].kind = "batch" /\ row[x].status = "completed"
       /\ row'[x] # NoRow
       => row'[x].status = "completed"]_vars

\* docs/data-contract.md:16 "only included fields are updated": true of a PATCH
\* that nobody disturbs between its read and its write.
PatchIsPartial ==
  [][\A r \in Requests :
       /\ At(r, "patch", "write")
       /\ row'[Target(r)] # row[Target(r)]
       /\ pc'[r] # "write"
       /\ row[Target(r)] = saw[r]
       => \A f \in DOMAIN BodyOf(r) :
            BodyOf(r)[f] = Unset => row'[Target(r)][f] = row[Target(r)][f]]_vars
=============================================================================
