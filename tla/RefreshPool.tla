---------------------------- MODULE RefreshPool ----------------------------
(***************************************************************************)
(* POST /auth/refresh and the connection pool it shares with every other   *)
(* request.  A refresh runs a transaction on one pooled connection, and    *)
(* while it holds the row of its token FOR UPDATE it looks the user up     *)
(* through the pool, on a second connection.  Every other handler takes    *)
(* one connection at a time, but some wait with it for a row that another  *)
(* has locked: logouts, revocations and password resets for the tokens     *)
(* that refreshes rotate, and failed logins, requests for a reset link and *)
(* updates of a user for the account that a reset has written.             *)
(*                                                                         *)
(* A request of the model is one acquisition of a connection: a handler    *)
(* that takes connections one after the other is as many requests.         *)
(*                                                                         *)
(* The pool grants connections in the order in which they are asked for.   *)
(* It has no acquire timeout, and the server's WriteTimeout cancels no     *)
(* context: a request waits until it is served or its client goes away.    *)
(***************************************************************************)
EXTENDS Naturals, Sequences, FiniteSets, SequencesExt

CONSTANTS
  Refreshers,  \* POST /auth/refresh requests
  Others,      \* requests that hold one connection at a time
  Writers,     \* those of them that write an account or its reset links
  Deleters,    \* those of them that delete the refresh tokens of a user
  Conns,       \* the connections of the pool; MaxConns is their number
  Tokens,
  TokenOf,     \* TokenOf[r]: the refresh token that r presents
  Users,
  UserOf,      \* UserOf[x]: whose token x is, or whose rows x writes or deletes
  NoOne

Requests == Refreshers \cup Others

\* A user's account and reset links are one row: a reset holds them together.
Rows == Tokens \cup Users

ASSUME RefreshPoolAssumption ==
  /\ IsFiniteSet(Conns)
  /\ IsFiniteSet(Refreshers)
  /\ IsFiniteSet(Writers) /\ IsFiniteSet(Deleters)
  /\ Refreshers \cap Others = {}
  /\ Writers \subseteq Others /\ Deleters \subseteq Others
  /\ Tokens \cap Users = {}
  /\ UserOf \in [Tokens \cup Writers \cup Deleters -> Users]
  /\ TokenOf \in [Refreshers -> Tokens]
  /\ NoOne \notin Requests

VARIABLES
  owner,   \* who holds each connection
  queue,   \* who waits for a connection, in order
  pc,      \* where each request is
  token,   \* the row of each token in refresh_tokens
  holder,  \* whose transaction has each row locked
  paired   \* the refreshes that were answered with a new pair of tokens

vars == <<owner, queue, pc, token, holder, paired>>

\* Places where a request stands in the pool's queue.
Queued == {"begin", "lookup"}

TypeOK ==
  /\ owner \in [Conns -> Requests \cup {NoOne}]
  /\ queue \in Seq(Requests)
  /\ pc \in [Requests -> {"new", "run", "store", "sweep", "select", "reading",
                           "rotate", "done"} \cup Queued]
  /\ \A r \in Refreshers : pc[r] \notin {"run", "store", "sweep"}
  /\ \A r \in Others : pc[r] \in {"new", "begin", "run", "store", "sweep", "done"}
  /\ \A r \in Others : pc[r] = "run" => r \notin Writers \cup Deleters
  /\ \A r \in Others : pc[r] = "store" => r \in Writers
  /\ \A r \in Others : pc[r] = "sweep" => r \in Deleters
  /\ token \in [Tokens -> {"live", "expired", "gone"}]
  /\ holder \in [Rows -> Requests \cup {NoOne}]
  /\ paired \subseteq Refreshers

Init ==
  /\ owner = [c \in Conns |-> NoOne]
  /\ queue = <<>>
  /\ pc = [r \in Requests |-> "new"]
  /\ token \in [Tokens -> {"live", "expired", "gone"}]
  /\ holder = [x \in Rows |-> NoOne]
  /\ paired = {}

-----------------------------------------------------------------------------

Goto(r, label) == pc' = [pc EXCEPT ![r] = label]

\* One of the connections that o has; it does not matter which.
ConnOf(o) == CHOOSE c \in Conns : owner[c] = o

\* A request leaves the pool's queue when its context is cancelled.
Dequeue(r) ==
  IF pc[r] \in Queued
  THEN \E i \in DOMAIN queue : queue[i] = r /\ queue' = RemoveAt(queue, i)
  ELSE UNCHANGED queue

Ask(r, label) == Goto(r, label) /\ queue' = Append(queue, r)

\* Mutant: without the deferred Rollback the connection never goes back.
LeaveLeaksConnection(r) ==
  /\ owner' = owner
  /\ Dequeue(r)
  /\ holder' = [x \in Rows |-> IF holder[x] = r THEN NoOne ELSE holder[x]]

\* Mutant: a cancelled acquire keeps its place in the queue.
LeaveKeepsPlace(r) ==
  /\ owner' = [c \in Conns |-> IF owner[c] = r THEN NoOne ELSE owner[c]]
  /\ queue' = queue
  /\ holder' = [x \in Rows |-> IF holder[x] = r THEN NoOne ELSE holder[x]]

\* The end of the transaction, or of the acquire that its context cancels:
\* connections and locked rows are free again.
Leave(r) ==
  /\ owner' = [c \in Conns |-> IF owner[c] = r THEN NoOne ELSE owner[c]]
  /\ Dequeue(r)
  /\ holder' = [x \in Rows |-> IF holder[x] = r THEN NoOne ELSE holder[x]]

\* The handler answers, with whatever status.
Answer(r) == Leave(r) /\ Goto(r, "done")

Exhausted == \A c \in Conns : owner[c] # NoOne

\* Mutant: every granted request runs the refresh handler.
TurnToRefresh(r) == IF pc[r] = "lookup" THEN "reading" ELSE "select"

\* What a request does with the connection that it gets.
Turn(r) ==
  IF pc[r] = "lookup" THEN "reading"
  ELSE IF r \in Refreshers THEN "select"
  ELSE IF r \in Writers THEN "store"
  ELSE IF r \in Deleters THEN "sweep"
  ELSE "run"

Take(r) ==
  /\ ~Exhausted
  /\ owner' = [owner EXCEPT ![ConnOf(NoOne)] = r]
  /\ Goto(r, Turn(r))

\* s.txBegin.Begin, or the query of another handler: it takes a connection, or
\* waits behind everybody who already does.
Arrive(r) ==
  /\ pc[r] = "new"
  /\ \/ queue = <<>> /\ Take(r) /\ UNCHANGED queue
     \/ /\ queue # <<>> \/ Exhausted
        /\ Ask(r, "begin")
        /\ UNCHANGED owner
  /\ UNCHANGED <<token, holder, paired>>

\* The pool serves the head of its queue.
Grant(r) ==
  /\ queue # <<>>
  /\ r = Head(queue)
  /\ pc[r] \in Queued
  /\ Take(r)
  /\ queue' = Tail(queue)
  /\ UNCHANGED <<token, holder, paired>>

\* The statements of a request that is neither writer nor deleter.  Those that
\* wait for rows wait for each other: no refresh and no reset locks their rows.
Run(r) ==
  /\ pc[r] = "run"
  /\ Answer(r)
  /\ UNCHANGED <<token, paired>>

\* Mutant: the token is selected without FOR UPDATE.
RowFreeAlways(x) == TRUE

RowFree(x) == holder[x] = NoOne

\* An UPDATE of the account, or the DELETE of its reset links, waits while a
\* reset has them locked.  A reset keeps them locked and deletes the tokens next.
StoreUser(r) ==
  /\ pc[r] = "store"
  /\ RowFree(UserOf[r])
  /\ \/ r \notin Deleters /\ Answer(r)
     \/ /\ r \in Deleters
        /\ holder' = [holder EXCEPT ![UserOf[r]] = r]
        /\ Goto(r, "sweep")
        /\ UNCHANGED <<owner, queue>>
  /\ UNCHANGED <<token, paired>>

TokensOf(r) == {t \in Tokens : UserOf[t] = UserOf[r] /\ token[t] # "gone"}

\* DELETE FROM refresh_tokens WHERE user_id = $1 locks row by row, in any order.
Claim(r) ==
  /\ pc[r] = "sweep"
  /\ \E t \in TokensOf(r) : RowFree(t) /\ holder' = [holder EXCEPT ![t] = r]
  /\ UNCHANGED <<owner, queue, pc, token, paired>>

\* It ends when no row is left that it has not locked.
Sweep(r) ==
  /\ pc[r] = "sweep"
  /\ \A t \in TokensOf(r) : holder[t] = r
  /\ token' = [t \in Tokens |-> IF t \in TokensOf(r) THEN "gone" ELSE token[t]]
  /\ Answer(r)
  /\ UNCHANGED paired

\* SELECT ... FOR UPDATE waits while the row is locked.  A token that is gone or
\* expired is refused; with a live one its row stays locked and GetUserByID asks
\* for a second connection.
SelectToken(r) ==
  /\ pc[r] = "select"
  /\ RowFree(TokenOf[r])
  /\ \/ token[TokenOf[r]] # "live" /\ Answer(r)
     \/ /\ token[TokenOf[r]] = "live"
        /\ holder' = [holder EXCEPT ![TokenOf[r]] = r]
        /\ Ask(r, "lookup")
        /\ UNCHANGED owner
  /\ UNCHANGED <<token, paired>>

\* GetUserByID returns the second connection; the user may be inactive.
LookupUser(r) ==
  /\ pc[r] = "reading"
  /\ \/ Answer(r)
     \/ /\ owner' = [owner EXCEPT ![ConnOf(r)] = NoOne]
        /\ Goto(r, "rotate")
        /\ UNCHANGED <<queue, holder>>
  /\ UNCHANGED <<token, paired>>

\* DELETE, INSERT and COMMIT.  The acknowledgement of the commit may be lost.
Rotate(r) ==
  /\ pc[r] = "rotate"
  /\ token' = [token EXCEPT ![TokenOf[r]] = "gone"]
  /\ Answer(r)
  /\ paired' = paired \cup {r} \/ UNCHANGED paired

\* The client goes away or the database fails, the detector of deadlocks between
\* transactions included: rollback.
Fail(r) ==
  /\ pc[r] # "done"
  /\ Answer(r)
  /\ UNCHANGED <<token, paired>>

Step(r) ==
  \/ Arrive(r)
  \/ Grant(r)
  \/ Run(r)
  \/ StoreUser(r)
  \/ Claim(r)
  \/ Sweep(r)
  \/ SelectToken(r)
  \/ LookupUser(r)
  \/ Rotate(r)

Next == \E r \in Requests : Step(r) \/ Fail(r)

Spec == Init /\ [][Next]_vars

-----------------------------------------------------------------------------
(* Properties *)

\* Whoever waits for a connection or for a locked row cannot go on by itself.
CanGoOn(r) ==
  \/ pc[r] \in {"run", "reading", "rotate"}
  \/ pc[r] = "select" /\ RowFree(TokenOf[r])
  \/ pc[r] = "store" /\ RowFree(UserOf[r])
  \/ /\ pc[r] = "sweep"
     /\ \/ \E t \in TokensOf(r) : RowFree(t)
        \/ \A t \in TokensOf(r) : holder[t] = r

\* When the pool is exhausted somebody who holds a connection can go on: requests
\* never wait for each other in a circle through the pool and the locked rows.
NoHoldAndWait == Exhausted => \E c \in Conns : CanGoOn(owner[c])

\* A refresh token buys one new pair, however many requests present it at once.
RedeemedOnce ==
  \A r, q \in paired : TokenOf[r] = TokenOf[q] => r = q
=============================================================================
