# Teman Berbahasa: specifications and proofs

This directory specifies the backend of the Teman Berbahasa language school
(a Go REST server on PostgreSQL, sources under `src/`) in TLA+, checks it with
TLC on small instances and proves its main safety properties with TLAPS.

## 1. The system

| Component | State | Operations that change state | What makes it correct |
|---|---|---|---|
| enrollment | table `enrollments`, per-batch advisory lock | `POST /enrollments` (SERIALIZABLE transaction, one retry), `PATCH /enrollments/:id` (row lock) | capacity honoured, one row per student and batch, rows only move forward, a grade needs completion, answers agree with the table |
| batch | table `batches` | create, update, status transition, delete | no batch skips its start and none is upcoming again, no orphans |
| course | table `courses` | create, update (read, merge, write), archive | an archived course stays archived, codes stay unique, a PATCH changes only its own fields |
| auth | `refresh_tokens`, `password_reset_tokens`, `users.failed_attempts` | login, refresh, logout, forgot, reset | a token is used once, a session has one token, revocation is complete, every failed login counts |
| user | table `users` | create with invitation, update with revocation | a deactivated or demoted user keeps no session |
| student | table `students` | create, update | e-mails stay unique, a PATCH changes only its own fields |
| schedule | `schedules`, `schedule_overrides` | create, update, delete of slots and of overrides (upsert), weekly calendar | the session cap, one override per meeting that fits its type, no orphans, the weeks asked for by date show a meeting once |
| connection pool | 20 connections | acquire, release, close | no circle of waiting through the pool and the locked rows |
| worker, shutdown | a bounded channel, four goroutines, a WaitGroup; `main`'s shutdown | dispatch, execute, restart, cancel, drain | `Drain` does not return early, `main` returns after the signal and never within a transaction |
| pagination, patch | none | pages and totals of five lists; merging of PATCH bodies | a client that pages misses and repeats no more than what came or went |

The components never call each other: they meet in the database (`main.go`
wires every module to the one pool). Enrollment reads `batches` and `courses`
while their handlers write them; user management revokes what auth issues;
schedules hold a foreign key that batch deletion runs into. What is hard is
therefore concurrency in the database: handlers are goroutines, most of them
check in one statement and act in another, in READ COMMITTED and without a
lock; one handler uses SERIALIZABLE and an advisory lock; two use row locks.
`hazards` in `PROJECT.json` lists each such place with its line.

## 2. Modules

| Module | Models |
|---|---|
| `Enrollment` | both enrollment handlers, and batch transitions, batch deletion and capacity changes as the writers they race with |
| `EnrollmentLedger` | what enrollment promises: an atomic, sequential ledger |
| `EnrollmentRefinement` | the mapping from the first to the second |
| `EnrollmentProofs`, `EnrollmentCapacityProofs` | the proofs |
| `RefreshPool` | `POST /auth/refresh`: its transaction, its row lock and its two connections, among requests that take one |
| `Worker` | the job channel, its goroutines with panics and replacements, and the WaitGroup |
| `Server` | the process: `RefreshPool` and `Worker` composed with `main`'s shutdown |
| `RefreshPoolProofs`, `ServerProofs` | the proofs, and that the process implements the pool |
| `Sessions` | login, refresh, logout, forgotten and reset passwords and the update of a user, over the tables they share |
| `SessionsProofs` | its proofs |
| `Records` | the create, update, transition, archive and delete handlers of users, students, courses and batches |
| `RecordsProofs` | its proofs |
| `Timetable` | the slots of a batch, their overrides, the session cap and the weekly calendar |
| `TimetableProofs` | its proofs |
| `Listing` | the five paginated lists and a client that reads one of them page by page |
| `ListingProofs` | its proofs |
| `MCEnrollment`, `MCEnrollmentRefinement`, `MCServer`, `MCSessions`, `MCRecords`, `MCTimetable`, `MCListing` | TLC instances |

### Enrollment

`batch`, `capacity` and `enr` are the committed tables; `lock` holds the
advisory locks. A create request `r` has a program counter `pc[r]`, the number
of its `attempt`, the snapshot `snap[r]` its transaction works on, `clash[r]`
(what committed since that snapshot) and its response. An updater holds at most
one row lock (`upd`), and an admin at most one validated transition (`move`).
Each action is what a handler does between two points where another goroutine
may be seen: one statement, or, under the row lock, the rest of the transaction.

| Action | Code |
|---|---|
| `Begin` | `BeginTx` and the start of the locking statement, which takes the snapshot |
| `AcquireLock` | `pg_advisory_xact_lock(hashtext(batch_id))` returns |
| `ReadBatch`, `Count`, `Insert`, `Commit` | the statements of `repository.Create` with their early returns |
| `SerializationFailure` | SQLSTATE 40001 and the one retry of `service.Create` |
| `Fail` | a cancelled context or lost connection anywhere |
| `LockRow`, `ApplyPatch`, `AbandonPatch` | `repository.Update` with the closure of `service.Update` |
| `ReadTransition`, `WriteTransition`, `AbandonTransition` | `BatchService.TransitionStatus` |
| `DeleteBatch`, `SetCapacity` | `DeleteBatchIfEmpty`, the write of `CourseService.Update` |

PostgreSQL is modelled from how the code uses it, and those definitions are
marked external in the map. The two that matter: a SERIALIZABLE transaction
reads the state as of the start of its first statement, which is the locking
statement, so the snapshot is older than the lock whenever it had to wait; and
serializable snapshot isolation must abort a transaction that counted a batch
and missed a row which another transaction that counted it has committed
(`MustAbort`), may abort any transaction that overlaps a commit (`MayAbort`),
and protects nothing against the READ COMMITTED writers.

Abstractions: a grade is present or absent; names, dates, joins and the list
queries are left out; a response is its kind. A request is sent once: a client
that repeats a request is another request.

### RefreshPool

`owner` and `queue` are the pool: who holds each connection, and who waits in
which order. `token` has the rows of `refresh_tokens`; `holder` says which
transaction has locked a token, or a user's account and reset links, which a reset
holds together. A refresh goes `begin` (queued), `select`, `lookup` (queued again, now
holding a connection and a row lock), `reading`, `rotate`, `done`. Every other request
takes one connection, but not every one can go on with it: a logout, a revocation and
a reset delete the tokens of a user and wait for those that a refresh has locked
(`Deleters`, at `sweep`); a failed login, a request for a link, an update of a user and a
reset write the account or its links and wait while a reset has them locked (`Writers`, at
`store`). A reset is both, in this order, in one transaction. The rest is at `run`. A
handler that takes connections one after the other is as many requests.

| Action | Code |
|---|---|
| `Arrive`, `Grant` | `pgxpool` acquire: join the queue, be served from its head |
| `SelectToken` | `SELECT ... FOR UPDATE` and the checks after it, up to the call of `GetUserByID` |
| `LookupUser` | `GetUserByID` on the second connection, which goes back at once |
| `Rotate` | `DELETE`, `INSERT`, `COMMIT`; one step, since the row is locked and the new token is nobody's yet |
| `StoreUser` | the UPDATE of the account or the DELETE of its links; a reset keeps the lock and goes on to the tokens |
| `Claim`, `Sweep` | `DeleteRefreshTokensByUserID`: it locks row by row and waits for each, then removes them |
| `Run` | the queries of a handler that waits for none of these rows |
| `Fail` | a cancelled context or a database error, with the deferred `Rollback` |

The pool's queue is external (`pgxpool`), modelled as FIFO; it has no timeout of
its own, and the server's `WriteTimeout` cancels no context.

### Worker and Server

`Worker` has the channel (`jobs`), where each goroutine is (`worker`), the counter
of the WaitGroup (`wg`) and, per goroutine, how many replaced predecessors have yet
to run their deferred `wg.Done` (`leaving`). A panic outside `Execute` runs the
deferred functions in the order of the code: the replacement is started and counted
(`Restart`), then the old goroutine is taken out (`LeaveGroup`). `Server` adds
`phase`, the statement `main` is at, and `drained`, what `Drain` reported.

| Action | Code |
|---|---|
| `HandOver` (`Dispatch`) | `Worker.Dispatch`, which drops a job when the channel is full |
| `WorkOn` (`TakeJob`, `StopWorker`, `FinishJob`, `Restart`, `LeaveGroup`) | `startWorker` and `executeJob` |
| `Signal` | `signal.NotifyContext`: the workers' context is cancelled at once |
| `ShutDown` | `srv.Shutdown` returns, for whatever reason; no new request arrives after it began |
| `Drain` | `w.Drain` returns: the workers have stopped, or ten seconds are over |
| `Close` | `pool.Close`, which waits for every connection, and the end of the process |
| `ListenFails` | `ListenAndServe` returns an error and its goroutine calls `os.Exit(1)`: the process is `aborted`, with requests in flight |
| `Serve`, `Break`, `Refuse` | the requests of `RefreshPool`; a closed pool refuses who was still queued |

Both timeouts only end `main`'s wait: requests and workers run on. Nothing under
`src/` dispatches a job, so who does is an external definition.

### Sessions

`user`, `sessions` and `links` are the row of `users` and the rows of
`refresh_tokens` and `password_reset_tokens`; `lock` says which open transaction
has locked each of them. There is one user: no statement of these handlers
touches the rows of two. Every request has a position `pc[r]`, and what it read
and still uses: the token or link it presented (`key`), the user as an update read
it (`saw`), the rows a DELETE in progress sees (`snap`). `origin`, `older` and
`failures` are history variables that no action reads: the login a token descends from,
the tokens there were when a revoking request began, and the number of failed logins
since somebody last knew the password.

| Action | Code |
|---|---|
| `ReadLogin`, `CountFailure`, `ClearFailures`, `OpenSession` | `AuthService.Login`: the check of lock and password, the counter, the new token; each a statement of its own |
| `SelectToken`, `LookupUser`, `Rotate` | `AuthService.Refresh`: `FOR UPDATE`, the user, and `DELETE`, `INSERT`, `COMMIT` |
| `FindSession` | `AuthService.Logout` up to the revocation |
| `ReadForgot`, `StartUnlink`, `EndUnlink`, `SendLink` | `AuthService.ForgotPassword` |
| `FindLink`, `CheckUser`, `StorePassword`, `SpendLink`, `CommitReset` | `AuthService.ResetPassword`: two reads, then one transaction |
| `ReadUser`, `WriteUser` | `UserService.UpdateUser` with `MergeUserUpdate` |
| `StartPurge`, `EndPurge` | `DeleteRefreshTokensByUserID`, shared by logout, reset and update |
| `Fail` | an error of the database or a client that leaves, anywhere; the transaction rolls back |

READ COMMITTED is what makes the deletion of all tokens two steps: the
statement sees the rows that were committed when it began, waits for those that
others have locked, and skips the ones that are gone by then. A row inserted in
between is not seen. A commit or a single statement may succeed and its answer be
lost (`Answer(r, "error")` beside `"ok"`).

Abstractions: time is left out, so any token or link may be found expired and any
password be right or wrong; hashes, JWTs and e-mails are left out, and a
client presents only tokens and links that were sent to somebody. Access tokens
are verified by signature alone and outlive every revocation by their lifetime;
the properties are about refresh tokens.

### Records

`row` holds the tables of users, students, courses and batches, one entry per id.
A row has the columns the checks look at: the unique one (e-mail or code), one
that may be NULL, the status, and the role of a user or the instructor of a
batch. A request has what it asks for (`call`), a position (`pc`) and the row as it
read it (`saw`). The four services share their shape and their actions; where they
differ, the action asks for the kind.

| Action | Code |
|---|---|
| `CheckCreate`, `Insert`, `Invite` | `CreateUser`, `CreateStudent`, `Create`: the look-up of the e-mail or the instructor, the INSERT, the invitation of a user |
| `ReadRow`, `CheckPatch`, `WriteRow` | `UpdateUser`, `UpdateStudent`, `Update`: the row, the look-up, the UPDATE of the merged row |
| `Reread` | `GetBatchByID` after a batch was written |
| `ReadTransition`, `WriteTransition` | `TransitionStatus`: validated against what was read, written regardless |
| `Archive`; `Delete`, `Probe` | `ArchiveCourse`; `DeleteBatchIfEmpty` and the look-up that tells why it deleted nothing |
| `Fail` | an error of the database or a client that leaves |

`Updated` is where the four differ most: the UPDATEs of users and students write
every column as merged, that of a course leaves the status out, that of a batch
leaves it out too and keeps a column whose merged value is NULL. `Decoded` is what
`encoding/json` makes of null in a pointer: a field that is left out (section 6).

Abstractions: trimming and the format of values are left out; the enrollments and
schedules of a batch may or may not forbid its deletion; what an update of a user
revokes is in `Sessions`, a course's capacity in `Enrollment`.

### Timetable

`slot` and `override` are the tables, `batch` says whether the batch is there. A
request has its `call`, a position `pc`, what it read (`saw`, `sawOver`, `view`) and
its response. `alone` is a history variable: nobody wrote a slot since the request
counted. Dates are numbers with a weekday (date 0 is a Monday), so the arithmetic of
`expand.go` and of the session count is done and not assumed. The calendar does not
compare dates but values of Go's `time.Time`: a date in a location (`Time`). What a client
states and what a DATE column holds is in UTC; without `week_start` the week is that of
`time.Now()`, in Local, and `truncateToMonday` and `AddDays` keep the location.
`Instant` puts both on one scale, `Offset` half days apart, and orders them as
`Before` and `After` do; the keys of `overrideMap` are compared with `==`, hence with
their locations.

| Action | Code |
|---|---|
| `FindBatch`, `CountSlots`, `InsertSlot` | `ScheduleService.CreateSchedule`: the batch, the session count of the other slots, the INSERT |
| `ReadSlot`, `FindBatchOfSlot`, `CountSlots`, `WriteSlot` | `UpdateSchedule` with `mergeScheduleUpdate`; what is counted depends on the merged end |
| `DeleteSlot` | the DELETE with its cascade to the overrides |
| `FindSlot`, `CheckOverride`, `UpsertOverride` | `CreateOverride`: slot, batch, role, date and fields, then INSERT ... ON CONFLICT DO UPDATE, which keeps id and type |
| `ReadOverride`, `FindSlotOfOverride`, `CheckMerge`, `WriteOverride`; `DeleteOverride` | `UpdateOverride` with `mergeOverrideUpdate`; the DELETE |
| `ReadWeek`, `ReadOverrides` | `GetWeekly`: two reads, between which others write; `ExpandWeek` is evaluated in the property |
| `Fail`; `DeleteBatch` | an error of the database or a client that leaves; the handler of batches |

Abstractions: rooms, reasons, instructors and their filters are left out, the time of
day is present or absent in an override. The session count of the course is constant.

### Listing

A client chooses a list, filters and a page size and reads pages until the one that
it was told is the last. `row` is the table, `begun` and `stored` let a new row commit
after a younger one (`created_at` is the time of the transaction), `seen` counts how
often the client was shown each row. `stayed`, `arrivals` and `departures` are history.

| Action | Code |
|---|---|
| `ReadPage`, `CountRows`, `ReadCodes` | the statements of `List` in every module: the rows with LIMIT and OFFSET, their number, the batch codes of students |
| `Fail` | an error; the client asks for the page again |
| `BeginInsert`, `Insert`, `Patch`, `DeleteBatch` | the writers the client races with |

`Filters`, `Listed` and `Counted` are the filters that each handler parses and that
each of its two statements applies, taken from the handlers and from the SQL. The
values of filters are abstracted to whether a row matches them.

## 3. Runs

| Run | Question | Bounds |
|---|---|---|
| `EnrollmentCreate` | does the service implement the ledger, and do capacity, orphans and answers survive racing requests with drops, capacity changes, deletions, failures and retries? | 3 requests, 2 students, 2 batches of one course with one lock key (one of them never deleted), 1 updater, capacities 1 and 2 |
| `EnrollmentPatch` | do rows only move forward under two concurrent PATCHes with all 27 bodies, do two contenders get a verdict, and is every request answered? | 2 requests, 3 students of whom 1 does not exist, 1 batch, 2 updaters, 1 admin, with and without a capacity |
| `Server` | with a connection to spare: does a token buy one pair, can an owner always go on, is everybody answered, does `Drain` wait for replaced workers, does the process end, and `main` never within a transaction? | 2 refreshes of one token, 1 reset of its user's password, 1 other request, 4 connections, 1 worker, 1 job, a channel of 1 |
| `ServerExhausted` | and without one to spare? (section 6) | 2 refreshes of one token, 1 logout, 3 connections |
| `SessionsRevoke` | has a session one token, is a revocation complete, is every failed login counted, is a password ever written back? | 2 logins, 2 refreshes, 1 reset, 1 deactivation, 1 failure locks |
| `SessionsLive` | is everybody answered, whoever waits for whose rows? | 1 refresh, 1 logout, 1 forgotten password, 1 reset |
| `SessionsResetRace` | does a reset end all sessions? (section 6) | 1 refresh, 1 reset |
| `RecordsRace` | do keys stay unique and statuses keep their order, whatever three requests race? | 3 requests out of 17 calls; 1 teacher, 1 student, 1 course, 1 batch |
| `RecordsReversal` | is a status ever reversed? (section 6) | the same |
| `Timetable` | do overrides have their slots, meetings one override and one place in the calendar, and does the session count hold for who writes alone? | 3 requests out of 38 calls, 2 weeks, 1 slot and 1 override at first, a session count of 3, a server half a day ahead of UTC |
| `TimetableToday` | is the calendar without `week_start` that of the current week? (section 6) | the same, on a server whose clock is that of UTC |
| `Listing` | what does a client miss or see twice that reads to the last page while rows come and go, and is the stated number right? | 5 lists, all combinations of filters, page sizes 1, 2 and 3, 3 rows and 2 new ones, 2 PATCHes |

Three requests are the least that show the exhausted retry, and that let one
commit fall between the snapshot and the lock of another while a third waits;
two batches suffice for colliding keys, since a request names one batch, and two
students for places and pairs to be contended for. The
capacity must be smaller than the number of requests for the race to matter.
`CHECK_DEADLOCK FALSE`: requests are one-shot and the system stops when all are
answered; a request that hangs is what `Answered` excludes.

In `Server` three requests may wait for rows, so four connections are the least with
one to spare, and in `ServerExhausted` three are as many as those who may wait. In
`SessionsRevoke` two logins are the least that race their failures, and requests of one
kind that differ only in name are interchangeable (`Alike`).

In `Records` two writers and a witness are the least that a lost check needs, and a
status that goes forth and back needs three transitions of one batch; all
creations and PATCHes want the same key `k2`, so that they collide.

In `Timetable` two weeks are the least in which a meeting can move to another
week, and three requests let a slot or an override be changed between the look-up
and the write of a second request while a third reads the calendar. The catalogue
has a slot with an end, a one-time slot without one and a weekly slot without one,
PATCHes of every field that the session count depends on, upserts of both types on
both dates of a weekly slot, and a slot and overrides that requests create
themselves as targets of later ones. In `Listing` pages of one, two and three rows
over at most five give empty, partial and full last pages, and two new rows are the
least that commit in the other order.

Fairness: weak fairness of the steps of each create request. The goroutine of a
request and the statements it sends run until they finish, and PostgreSQL
grants the advisory lock to waiters. Nothing is assumed of updaters, admins,
failures or deletions. In `Server` likewise: each request's own steps, the service
of the queue, the goroutines of the workers and, after the signal, the progress of
`main` (its timers fire) are weakly fair; failures, departing clients, jobs and the
signal itself are not. That a job returns is assumed. The pool size of 20 is scaled
to 4 or 3 and the four workers to 1; what matters is the relation of the pool's size to
the number of requests that may wait for a row, and the theorems are for every size. In `Sessions` each
request's next step is weakly fair, which includes that PostgreSQL grants a row
lock to its waiters; failures are not. A revocation needs a rotation that
it waits for and one that begins meanwhile, hence two refreshes; `SessionsLive` has
the handlers that wait for rows of tokens and links while they hold others. `Timetable`
and `Listing` have no liveness: none of their statements waits for anything that the
models contain.

## 4. Proofs

For all values of the constants:

- `EnrollmentProofs`: `TypeCorrect`, and `LedgerHistoryHolds` from the invariant
  `RowInv`. What an updater validated must still be the row it writes; that is
  inductive only with "a locked row exists", "at most one updater holds it"
  and "an id not yet used has no row".
  `OnePerPairHolds`, `NoOrphanHolds`, `GradeHolds` follow from `SafeInv`; the first, one
  row per student and batch, is what the others and the ledger rest on and no run checks
  it on its own, since it contradicts a line of the documents (section 6). The advisory lock makes the section from lock to commit exclusive
  per batch (`LockHeld`); therefore the pair that an uncommitted INSERT found
  free stays free (`PairReserved`), and its foreign key check keeps the batch
  (`BatchReserved`). `AnswerMatchesLedgerHolds` and `DuplicateIsAnothersHolds` follow
  from `AnswerInv`: only the last step of a request answers, and a request that has
  not answered has written nothing. `HolderStaysFreshHolds` needs the lock alone: only
  a commit into the same batch could outdate a snapshot, and its holder is unique.
  `ContentionGetsAVerdictHolds` is about at most two requests (`TwoContend`), beside
  any number of updaters, transitions and changes of capacity: an attempt is aborted
  because the other request committed, and is then over, or because the batch was
  deleted, which the second attempt sees (`RetryInv`). It assumes that there is one
  batch or that none can be deleted (`BatchesStay`); else the first attempt may fall to
  the deletion of its batch and the second to a commit of the other request. The
  instance of `EnrollmentPatch` satisfies both hypotheses; with three requests the
  property is false (section 6).
- `EnrollmentCapacityProofs`: `CapacityHonouredHolds` from `CapInv`: an open
  transaction that SSI has not doomed counted at least the active rows there
  are. The proof does not use the advisory lock; SERIALIZABLE alone carries it.
  It assumes `NoCap \notin Caps`: an enrollment that read a NULL capacity runs no
  COUNT, so SSI has no conflict to find between it and one that did count. A
  capacity set from NULL while enrollments are in flight is outside the theorem.
  `ImplementsLedgerHolds` is the refinement, under `LimitAssumption` (every capacity is
  a number up to `Limit`): a commit is `Enroll` (its capacity by `CapInv`, its pair by
  `PairReserved`), an applied PATCH is `Amend` of the one entry `OnePerPair` leaves, and
  every other step stutters.

- `RefreshPoolProofs`: `NoDeadlock` and `RedeemedOnceHolds` from `Inv`. A request
  that may block with a connection is a refresh, a writer of an account or a deleter of
  tokens, and owns exactly one (`OneEach`); nobody who is not in the middle of something
  owns any (`OwnersBusy`). So if every owner were blocked, `owner` would be an injection of
  the connections into the requests that may wait, and there would be at least as many of
  them as connections. `NoDeadlock` assumes that there are fewer; without it the property
  is false: `ServerExhausted` shows what comes of it. `RedeemedOnce` is inductive
  with "from check to commit the row is locked and live" (`LockedLive`) and "who
  got a pair has removed the row" (`PairMeansGone`); a deletion of all tokens of a user
  removes only rows that it has locked itself.

- `SessionsProofs`: `TypeCorrect`; `OneTokenPerSessionHolds` from `SessionInv`: a
  token is in the table only once its request is past the insertion
  (`IssuedWhenDone`), a refresh that is about to rotate holds the row lock of its
  token and the token is there (`KeyHeld`), and a login's token begins its own
  session (`OriginOfLogin`), so what a rotation inserts never meets a second
  descendant. `RevocationCompleteHolds` from `RevokeInv`: only revoking requests
  keep `older`, what they keep was issued (`OlderIssued`) and is never inserted
  again, and what of it is still there when the DELETE starts is in what the
  DELETE sees (`SnapCovers`). `PasswordOnlyByResetHolds` goes through
  the four statements that write the row of the user, and `FailuresCountedHolds`
  with them: the counter is what it was plus one in the database, and not in the handler,
  so each failed login counts however many read the same row before.

- `RecordsProofs`: six theorems from `RecordInv`. Rows keep their kind (`KindKept`),
  so a request writes only rows of the kind it was routed for, what a PATCH merges
  into is of that kind (`SawTarget`), and the status of a course is written by
  archiving alone, that of a batch by transitions alone. A transition that is about
  to complete a batch read it as started (`MoveSound`); nothing makes it upcoming
  again, so it still is. That a completed batch stays so is not among the theorems: it is
  false (section 6). `KeyUnique` needs only that the last look is the index's.
  `PatchIsPartialHolds` follows the merge through the columns each UPDATE writes.

- `ServerProofs`: `ServerImplementsPool` shows that every step of the process is a step
  of `RefreshPool` or leaves it alone, so `ServerRedeemsOnce` and `ServerNoDeadlock`
  follow from the pool's theorems. `DrainCompleteHolds` rests on an exact account of
  the WaitGroup: its counter is the number of goroutines that have not stopped plus
  those that are `leaving`, so it is zero only when all have stopped; that a
  replacement joins before its predecessor leaves is what makes it so.
  `ExitCleanHolds` rests on every open transaction owning a connection, for which
  `Close` waits; it is about `main`'s return, and the `os.Exit` of a failed listener
  (`ListenFails`) waits for nothing. The theorems are for any number of requests, tokens, connections,
  workers, jobs and any capacity of the channel.

- `TimetableProofs`: `TypeCorrect`, `NoDanglingHolds`, `OverrideOnceHolds` and
  `FitsStaysHolds` from `TimetableInv`. An override keeps its slot, date and type for
  life (`Keeps`), and is inserted once, by the last step of its request (`NotYet`); so an
  override that a PATCH read is not inserted again under it (`ReadDone`) and still has
  the type its merge was validated against (`SameType`, `Validated`). Slots disappear
  only together with their overrides. The look-ups before an INSERT carry
  none of it: the proofs use the foreign keys and the unique index.
  `ShownOnceHolds`: a session of the calendar determines its meeting, a slot and a date
  (`ShownWhere`), and a meeting has at most one override (`OverrideOnce`), which either
  moves it or leaves it where it is. The overrides that move a meeting are among those
  that every expansion with the meeting has read (`SeesMoves`), so none shows it both
  where it was and where it went. It holds for whatever slots were read
  first and the overrides there are at the second read, hence for every answer to a
  request that names its week: in UTC comparing instants or keys is comparing dates
  (`SameUTC`, `MeetsInUTC`). For weeks in Local it is false (section 6).
  `CapWhenAloneHolds` from `Capped`: while a request is `alone`, the sessions of the
  batch with what it will write are within the count, for others only delete slots. Sums of sessions
  over sets of slots are monotone (`SumsGrow`), by induction over finite sets.

- `ListingProofs`: `TypeCorrect`, `WalkBoundedHolds` and `TotalAgreesHolds`, for any
  finite set of rows, any page sizes and any number of writes. A row that begins or
  ceases to match moves those after it by one place, so at most one row over any place
  of the list. `WalkInv` states this for two edges. `EdgeBefore` is where the next page
  begins: the rows before it that were not shown are at most `departures`, those after
  it that were shown, with what was shown twice, at most `arrivals`. `EdgeBehind` is the
  end of a page that the client has not been shown, when more is told to follow. One
  edge is not enough: between the rows of a page and the number of rows there is a
  second statement, and what is told to be the last page is decided by that number
  (`LastTold`). `TotalAgreesHolds` is from `AsRead`: with no arrivals and no
  departures, exactly the rows before the edge were shown. Rows have distinct times of
  creation (`CreatedIn`), as in the model; the order of rows with one time is not fixed
  by the statements.

Every safety property and every action property that a passing run checks is stated
by a theorem. Model-checked only is liveness under fairness (`Answered` of `Enrollment`
and of `Sessions`, `AnsweredUnlessStopped`, `Stops`): it needs `ENABLED`, which is out
of the prover's reach. What counts or sums over a set is proved by induction on
its size, as the well-foundedness of `<` on the naturals, stated with a set of sizes: the
library's induction theorems take an operator, which the provers cannot instantiate.

## 5. Plan

Done, in this order: `Enrollment` with its ledger, refinement and proofs;
`RefreshPool`, `Sessions`, `Records` with their proofs; `Timetable` with its proofs;
`Worker` and `Server` with theirs; `Listing` with its proofs.

What remains worth doing: a composition of `Records` and `Sessions`, in which the
revocation after a user's update may fail and be repeated; the transition of a batch
beside the slots and enrollments that its new status should stop.

## 6. Where documents and code differ

Shown by a run:

- `ServerExhausted`: `README.md:173` promises a drain window of 30 seconds before a
  hard stop. `pool.Close` has no timeout. A refresh that has locked its token waits for a
  second connection; when the others are held by refreshes that do the same, or by
  refreshes, logouts, resets and revocations that wait for that token, none comes back and
  the process does not end. Without a shutdown they, and everybody behind them, wait until
  clients go away, although `docs/functional-requirement-diagram.md:842` expects a single
  binary with 20 connections to be more than sufficient.

- `SessionsResetRace`: `docs/openapi.yml:308` says that a reset terminates all active
  sessions; a rotation that commits while the DELETE waits for its row goes on.

- `RecordsReversal`: `docs/functional-requirement-diagram.md:731` forbids any reversal of
  the status of a batch, and line 702 promises an UPDATE under the condition of the
  current status. `UpdateBatchStatus` is unconditional: a transition that was validated
  before another one takes a completed batch back to ongoing.

- `TimetableToday`: `docs/openapi.yml:1306` says that `week_start` defaults to the current
  week. Without it the days are in Local (`handler.go:421`) and no override is found under
  its key in UTC (`expand.go:94`), even where Local has the offset of UTC. A meeting that
  was moved away is shown on its old date and again where it went; a substitute
  instructor, whom the model leaves out, is not shown either. Where Local has an offset, the
  bounds of slots and weeks shift too.

Met while modelling, without a run of their own:

- `docs/functional-requirement-diagram.md:744` says "New enrollment after drop = new record";
  line 787 of the same document answers a 409 by the unique constraint on student and
  batch, which the table has and which knows no status. A dropped student gets the 409.
  `OnePerPairHolds` is the theorem about the code.
- `docs/openapi.yml:28` and `README.md:88` say that null clears a nullable field and is
  distinct from leaving it out. The fields are pointers to `Patchable`; `encoding/json` sets
  a pointer to nil for null without calling `UnmarshalJSON`, so both are the same to the
  service (`Decoded`).
- `README.md:173` again: when the listener fails, `os.Exit(1)` (`main.go:135`) ends the
  process with neither a drain nor a wait for connections, in the middle of transactions
  (`ListenFails`), which PostgreSQL then rolls back.
- `docs/functional-requirement-diagram.md:814` says that the advisory lock serializes
  two requests for the last place and the second gets a 422. With three, the third may
  get a 500, because its snapshot predates the lock on both attempts;
  `ContentionGetsAVerdict` holds for two.
- `docs/openapi.yml:1376` says the cap on sessions is re-enforced. Two requests that both
  count before either writes exceed it together; `CapWhenAlone` is what is left.
- Lines 789 and 816 of the same diagram document answer a 409 for a date that has an
  override; the code updates that override, and keeps its type although line 322
  ties the fields to it. `FitsStays` names that step as the only exception.
- A meeting moved to a week outside the range of its slot is shown in no week
  (`Vanished`), because the slots are selected by range before their overrides are read.
  After a PATCH of the weekday an override of the old day still shows a moved session.
- A one-time slot with a long range meets every week in the calendar and counts
  as one session; a slot without an end counts as none.
- Left out by the abstraction, found by reading: a rescheduled session is shown with the
  slot's own times and instructor, whatever the override says; the status of a
  substitute instructor is not checked (line 822); the INSERT of a course passes NULL for
  a missing session count; the back-off of a restarted worker starts over with every
  replacement.

Behaviours the models contain and no run is devoted to: a batch that completes after
an enrollment's snapshot is still enrolled into; two resets may succeed with one link;
two requests for a link may leave two; a change of role whose revocation failed
revokes nothing when it is repeated; a PATCH of one field of a user or student
writes the status back that it read; a batch of an archived course may start; a
repeated PATCH may be refused for the e-mail its first attempt wrote. `hazards` in `PROJECT.json` has their lines.

## 7. Not modelled

Forms, events and respondents exist only in migrations. Configuration, CORS,
logging, recovery and health are input and output without shared state; an e-mail is a
call whose failure is only logged (whether it is sent is part of `Sessions` and
`Records` by its link). `migrate` and `seed` run alone, once, from the command line.
The middleware verifies an access token by its signature and reads no state. Single
reads, details with joins and the plain list of schedules change nothing and are
answered by one statement. The width of integers is left out where no reachable
value comes near it; the offset of a page is computed in `int32`, which a client that
walks from page to page does not reach.
