------------------------------ MODULE Sessions ------------------------------
(***************************************************************************)
(* Login, refresh, logout, forgotten and reset passwords, and the update   *)
(* of a user by an admin, over the three tables they share: users,         *)
(* refresh_tokens and password_reset_tokens.  Every handler works on the   *)
(* rows of one user, so there is one user here.                            *)
(*                                                                         *)
(* A step is one statement, or what a transaction does while it has locked *)
(* the rows it works on.  All of it runs in READ COMMITTED: a statement    *)
(* sees what was committed when it began, and waits for rows that another  *)
(* transaction has locked.  A DELETE of all tokens of the user therefore   *)
(* has two steps: what it sees, and its end, once none of that is locked.  *)
(***************************************************************************)
EXTENDS Naturals, FiniteSets

CONSTANTS
  Requests,
  KindOf,      \* KindOf[r]: which handler serves r
  Tokens0,     \* refresh tokens of earlier logins
  Links0,      \* reset links sent earlier
  Roles, Role0,
  PatchOf,     \* PatchOf[a]: the role and the status that a's body sets
  Unset,       \* a field that a body leaves out
  Password0,
  Limit,       \* the failed attempts that lock the account
  UserRow, NoOne, NoUser

Kinds == {"login", "refresh", "logout", "forgot", "reset", "update"}
Of(kind) == {r \in Requests : KindOf[r] = kind}

\* Tokens and links are named for the request that issues them, passwords for
\* the reset that sets them.
Tokens    == Tokens0 \cup Of("login") \cup Of("refresh")
Links     == Links0 \cup Of("forgot")
Passwords == {Password0} \cup Of("reset")
Rows      == Tokens \cup Links \cup {UserRow}
Statuses  == {"active", "inactive"}
Users     == [role : Roles, status : Statuses, pass : Passwords, failed : Nat]

ASSUME SessionsAssumption ==
  /\ KindOf \in [Requests -> Kinds]
  /\ (Tokens0 \cup Links0) \cap Requests = {}
  /\ Tokens0 \cap Links0 = {}
  /\ UserRow \notin Tokens \cup Links
  /\ Role0 \in Roles
  /\ Unset \notin Roles \cup Statuses
  /\ PatchOf \in [Of("update") -> [role : Roles \cup {Unset},
                                   status : Statuses \cup {Unset}]]
  /\ Limit \in Nat \ {0}
  /\ NoOne \notin Requests
  /\ NoUser \notin Users

VARIABLES
  user,      \* the row of users
  sessions,  \* the rows of refresh_tokens
  links,     \* the rows of password_reset_tokens
  lock,      \* which open transaction has locked each row
  pc,        \* where each request is
  key,       \* the token or link that a request presents, once found
  saw,       \* the user as a login or an update read it
  snap,      \* what a running DELETE sees
  resp,      \* the response of a finished request
  \* history, read by no action:
  origin,    \* the login that began the session of each token
  older,     \* the tokens there were when a revoking request began
  failures   \* the failed logins since somebody last knew the password

tables  == <<user, sessions, links>>
history == <<origin, older, failures>>
vars    == <<tables, lock, pc, key, saw, snap, resp, history>>

Labels == {"new", "wrong", "right", "open", "lookup", "rotate", "unlink",
           "unlinking", "link", "check", "store", "spend", "write", "purge",
           "purging", "done"}
Answers == {"ok", "invalid", "locked", "error"}

TypeOK ==
  /\ user \in Users
  /\ sessions \subseteq Tokens
  /\ links \subseteq Links
  /\ lock \in [Rows -> Requests \cup {NoOne}]
  /\ pc \in [Requests -> Labels]
  /\ key \in [Requests -> Tokens \cup Links \cup {NoOne}]
  /\ saw \in [Requests -> Users \cup {NoUser}]
  /\ snap \in [Requests -> SUBSET (Tokens \cup Links)]
  /\ resp \in [Requests -> Answers \cup {"none"}]
  /\ origin \in [Tokens -> Tokens]
  /\ older \in [Requests -> SUBSET Tokens]
  /\ failures \in Nat

Init ==
  /\ \E status \in Statuses, failed \in 0..Limit :
       user = [role |-> Role0, status |-> status, pass |-> Password0,
               failed |-> failed]
  /\ sessions = Tokens0
  /\ links = Links0
  /\ lock = [x \in Rows |-> NoOne]
  /\ pc = [r \in Requests |-> "new"]
  /\ key = [r \in Requests |-> NoOne]
  /\ saw = [r \in Requests |-> NoUser]
  /\ snap = [r \in Requests |-> {}]
  /\ resp = [r \in Requests |-> "none"]
  /\ origin = [t \in Tokens |-> t]
  /\ older = [r \in Requests |-> {}]
  /\ failures = user.failed

-----------------------------------------------------------------------------
(* Requests and rows *)

At(r, kind, label) == KindOf[r] = kind /\ pc[r] = label

Goto(r, label) ==
  /\ pc' = [pc EXCEPT ![r] = label]
  /\ UNCHANGED resp

\* The response; it ends the transaction, if there is one.
Answer(r, a) ==
  /\ pc' = [pc EXCEPT ![r] = "done"]
  /\ resp' = [resp EXCEPT ![r] = a]
  /\ lock' = [x \in Rows |-> IF lock[x] = r THEN NoOne ELSE lock[x]]

\* No other transaction has locked a row of the set.
Free(rows, r) == \A x \in rows : lock[x] \in {NoOne, r}

\* Mutant: rows are read without a lock.
TakeNothing(x, r) == UNCHANGED lock

Take(x, r) == lock' = [lock EXCEPT ![x] = r]

\* What clients can present: the tokens and links that were sent out.  A link is
\* mailed before the answer; if the mail fails nobody presents it.
KnownTokens == Tokens0 \cup {r \in Tokens \cap Requests : resp[r] = "ok"}
KnownLinks  == Links0 \cup {f \in Of("forgot") : resp[f] = "ok"}

-----------------------------------------------------------------------------
(* POST /auth/login *)

\* GetUserByEmail and the checks on what it returned; the password that the
\* client typed is the right one or not.
ReadLogin(l) ==
  /\ At(l, "login", "new")
  /\ \/ user.status = "inactive" /\ Answer(l, "invalid") /\ UNCHANGED saw
     \/ /\ user.status = "active" /\ user.failed >= Limit
        /\ Answer(l, "locked")
        /\ UNCHANGED saw
     \/ /\ user.status = "active" /\ user.failed < Limit
        /\ Goto(l, "wrong") \/ Goto(l, "right")
        /\ saw' = [saw EXCEPT ![l] = user]
        /\ UNCHANGED lock
  /\ UNCHANGED <<tables, key, snap, history>>

\* Mutant: the new count is computed from the user that the login read.
IncrementedFromRead(l) == saw[l].failed + 1

Incremented(l) == user.failed + 1

\* IncrementFailedAttempts, whose error is ignored.
CountFailure(l) ==
  /\ At(l, "login", "wrong")
  /\ Free({UserRow}, l)
  /\ \/ /\ user' = [user EXCEPT !.failed = Incremented(l)]
        /\ failures' = failures + 1
     \/ UNCHANGED <<user, failures>>
  /\ Answer(l, "invalid")
  /\ UNCHANGED <<sessions, links, key, saw, snap, origin, older>>

\* ResetFailedAttempts, whose error is ignored too.
ClearFailures(l) ==
  /\ At(l, "login", "right")
  /\ Free({UserRow}, l)
  /\ \/ user' = [user EXCEPT !.failed = 0] /\ failures' = 0
     \/ UNCHANGED <<user, failures>>
  /\ Goto(l, "open")
  /\ UNCHANGED <<sessions, links, lock, key, saw, snap, origin, older>>

\* InsertRefreshToken.  From here on the answer to a statement may be lost.
OpenSession(l) ==
  /\ At(l, "login", "open")
  /\ sessions' = sessions \cup {l}
  /\ Answer(l, "ok") \/ Answer(l, "error")
  /\ UNCHANGED <<user, links, key, saw, snap, history>>

Login(l) == ReadLogin(l) \/ CountFailure(l) \/ ClearFailures(l) \/ OpenSession(l)

-----------------------------------------------------------------------------
(* POST /auth/refresh *)

\* SELECT ... FOR UPDATE; a token may have expired.
SelectToken(r) ==
  /\ At(r, "refresh", "new")
  /\ \E t \in KnownTokens :
       /\ Free({t}, r)
       /\ \/ Answer(r, "invalid") /\ UNCHANGED key
          \/ /\ t \in sessions
             /\ Take(t, r)
             /\ Goto(r, "lookup")
             /\ key' = [key EXCEPT ![r] = t]
  /\ UNCHANGED <<tables, saw, snap, history>>

\* GetUserByID; its error counts as an invalid token.
LookupUser(r) ==
  /\ At(r, "refresh", "lookup")
  /\ \/ user.status # "active" /\ Answer(r, "invalid")
     \/ user.status = "active" /\ Goto(r, "rotate") /\ UNCHANGED lock
  /\ UNCHANGED <<tables, key, saw, snap, history>>

\* DELETE, INSERT, COMMIT.
Rotate(r) ==
  /\ At(r, "refresh", "rotate")
  /\ sessions' = (sessions \ {key[r]}) \cup {r}
  /\ origin' = [origin EXCEPT ![r] = origin[key[r]]]
  /\ Answer(r, "ok") \/ Answer(r, "error")
  /\ UNCHANGED <<user, links, key, saw, snap, older, failures>>

Refresh(r) == SelectToken(r) \/ LookupUser(r) \/ Rotate(r)

-----------------------------------------------------------------------------
(* DELETE FROM refresh_tokens WHERE user_id = ... *)

StartPurge(r) ==
  /\ pc[r] = "purge"
  /\ snap' = [snap EXCEPT ![r] = sessions]
  /\ Goto(r, "purging")
  /\ UNCHANGED <<tables, lock, key, saw, history>>

\* A row that a rotation held while the DELETE waited is gone; the row that
\* replaced it was not there when the DELETE began, and stays.
EndPurge(r) ==
  /\ KindOf[r] \in {"logout", "update"} /\ pc[r] = "purging"
  /\ Free(snap[r], r)
  /\ sessions' = sessions \ snap[r]
  /\ snap' = [snap EXCEPT ![r] = {}]
  /\ Answer(r, "ok") \/ Answer(r, "error")
  /\ UNCHANGED <<user, links, key, saw, history>>

-----------------------------------------------------------------------------
(* POST /auth/logout *)

\* GetRefreshTokenByRaw; an unknown token is a success.
FindSession(o) ==
  /\ At(o, "logout", "new")
  /\ \E t \in KnownTokens :
       \/ t \notin sessions /\ Answer(o, "ok") /\ UNCHANGED older
       \/ /\ t \in sessions
          /\ Goto(o, "purge")
          /\ older' = [older EXCEPT ![o] = sessions]
          /\ UNCHANGED lock
  /\ UNCHANGED <<tables, key, saw, snap, origin, failures>>

-----------------------------------------------------------------------------
(* POST /auth/forgot-password, which answers the same whatever happens *)

ReadForgot(f) ==
  /\ At(f, "forgot", "new")
  /\ \/ user.status # "active" /\ Answer(f, "ok")
     \/ user.status = "active" /\ Goto(f, "unlink") /\ UNCHANGED lock
  /\ UNCHANGED <<tables, key, saw, snap, history>>

\* DeletePasswordResetTokensByUserID, with its two steps.
StartUnlink(f) ==
  /\ At(f, "forgot", "unlink")
  /\ snap' = [snap EXCEPT ![f] = links]
  /\ Goto(f, "unlinking")
  /\ UNCHANGED <<tables, lock, key, saw, history>>

EndUnlink(f) ==
  /\ At(f, "forgot", "unlinking")
  /\ Free(snap[f], f)
  /\ links' = links \ snap[f]
  /\ snap' = [snap EXCEPT ![f] = {}]
  /\ \/ Goto(f, "link") /\ UNCHANGED lock
     \/ Answer(f, "ok")
  /\ UNCHANGED <<user, sessions, key, saw, history>>

\* InsertPasswordResetToken.
SendLink(f) ==
  /\ At(f, "forgot", "link")
  /\ links' = links \cup {f}
  /\ Answer(f, "ok")
  /\ UNCHANGED <<user, sessions, key, saw, snap, history>>

Forgot(f) == ReadForgot(f) \/ StartUnlink(f) \/ EndUnlink(f) \/ SendLink(f)

-----------------------------------------------------------------------------
(* POST /auth/reset-password *)

\* GetPasswordResetTokenByRaw; a link may have expired.
FindLink(p) ==
  /\ At(p, "reset", "new")
  /\ \E k \in KnownLinks :
       \/ Answer(p, "invalid") /\ UNCHANGED <<key, older>>
       \/ /\ k \in links
          /\ Goto(p, "check")
          /\ key' = [key EXCEPT ![p] = k]
          /\ older' = [older EXCEPT ![p] = sessions]
          /\ UNCHANGED lock
  /\ UNCHANGED <<tables, saw, snap, origin, failures>>

\* GetUserByID.
CheckUser(p) ==
  /\ At(p, "reset", "check")
  /\ \/ user.status # "active" /\ Answer(p, "invalid")
     \/ user.status = "active" /\ Goto(p, "store") /\ UNCHANGED lock
  /\ UNCHANGED <<tables, key, saw, snap, history>>

\* Begin, and UPDATE users SET password_hash: the row is locked until the end.
StorePassword(p) ==
  /\ At(p, "reset", "store")
  /\ Free({UserRow}, p)
  /\ Take(UserRow, p)
  /\ Goto(p, "spend")
  /\ UNCHANGED <<tables, key, saw, snap, history>>

\* DELETE FROM password_reset_tokens WHERE id = ...: nobody checks that there
\* still was such a row.
SpendLink(p) ==
  /\ At(p, "reset", "spend")
  /\ Free({key[p]}, p)
  /\ \/ key[p] \in links /\ Take(key[p], p)
     \/ key[p] \notin links /\ UNCHANGED lock
  /\ Goto(p, "purge")
  /\ UNCHANGED <<tables, key, saw, snap, history>>

\* Mutant: a reset leaves the sessions alone.
CommitResetKeepsSessions(p) ==
  /\ At(p, "reset", "purging")
  /\ Free(snap[p], p)
  /\ user' = [user EXCEPT !.pass = p]
  /\ links' = links \ {key[p]}
  /\ UNCHANGED sessions
  /\ snap' = [snap EXCEPT ![p] = {}]
  /\ Answer(p, "ok") \/ Answer(p, "error")
  /\ UNCHANGED <<key, saw, history>>

\* The end of the DELETE of the refresh tokens, and COMMIT.
CommitReset(p) ==
  /\ At(p, "reset", "purging")
  /\ Free(snap[p], p)
  /\ user' = [user EXCEPT !.pass = p]
  /\ links' = links \ {key[p]}
  /\ sessions' = sessions \ snap[p]
  /\ snap' = [snap EXCEPT ![p] = {}]
  /\ Answer(p, "ok") \/ Answer(p, "error")
  /\ UNCHANGED <<key, saw, history>>

Reset(p) ==
  FindLink(p) \/ CheckUser(p) \/ StorePassword(p) \/ SpendLink(p) \/ CommitReset(p)

-----------------------------------------------------------------------------
(* PATCH /users/:id *)

ReadUser(a) ==
  /\ At(a, "update", "new")
  /\ saw' = [saw EXCEPT ![a] = user]
  /\ older' = [older EXCEPT ![a] = sessions]
  /\ Goto(a, "write")
  /\ UNCHANGED <<tables, lock, key, snap, origin, failures>>

\* Mutant: a field that the body leaves out is overwritten.
PatchedBlindly(new, old) == new

Patched(new, old) == IF new = Unset THEN old ELSE new

\* MergeUserUpdate: the columns that the UPDATE writes, as patched or as read.
Merged(a) ==
  [role   |-> Patched(PatchOf[a].role, saw[a].role),
   status |-> Patched(PatchOf[a].status, saw[a].status)]

Revokes(a) ==
  \/ PatchOf[a].role \notin {Unset, saw[a].role}
  \/ PatchOf[a].status = "inactive"

\* Mutant: the UPDATE writes the password as it was read, too.
WrittenWhole(a) ==
  [saw[a] EXCEPT !.role = Merged(a).role, !.status = Merged(a).status]

Written(a) ==
  [user EXCEPT !.role = Merged(a).role, !.status = Merged(a).status]

WriteUser(a) ==
  /\ At(a, "update", "write")
  /\ Free({UserRow}, a)
  /\ user' = Written(a)
  /\ \/ Revokes(a) /\ Goto(a, "purge") /\ UNCHANGED lock
     \/ ~Revokes(a) /\ Answer(a, "ok")
     \/ Answer(a, "error")
  /\ UNCHANGED <<sessions, links, key, saw, snap, history>>

-----------------------------------------------------------------------------

\* What the handler answers when a statement fails, or when its client left.
ErrorAnswer(r) ==
  IF KindOf[r] = "forgot" THEN "ok"
  ELSE IF \/ At(r, "login", "new")
          \/ At(r, "reset", "new")
          \/ At(r, "refresh", "lookup")
       THEN "invalid"
  ELSE "error"

\* Mutant: the transaction is not rolled back.
FailKeepsLocks(r) ==
  /\ pc[r] # "done"
  /\ pc' = [pc EXCEPT ![r] = "done"]
  /\ resp' = [resp EXCEPT ![r] = ErrorAnswer(r)]
  /\ snap' = [snap EXCEPT ![r] = {}]
  /\ UNCHANGED <<tables, lock, key, saw, history>>

Fail(r) ==
  /\ pc[r] # "done"
  /\ Answer(r, ErrorAnswer(r))
  /\ snap' = [snap EXCEPT ![r] = {}]
  /\ UNCHANGED <<tables, key, saw, history>>

Step(r) ==
  \/ Login(r)
  \/ Refresh(r)
  \/ FindSession(r)
  \/ Forgot(r)
  \/ Reset(r)
  \/ ReadUser(r)
  \/ WriteUser(r)
  \/ StartPurge(r)
  \/ EndPurge(r)

Next == \E r \in Requests : Step(r) \/ Fail(r)

Spec == Init /\ [][Next]_vars

\* Goroutines and statements run on, and PostgreSQL grants a row lock to those
\* who wait for it; no client is bound to leave and no statement to fail.
FairSpec == Spec /\ \A r \in Requests : WF_vars(Step(r))

-----------------------------------------------------------------------------
(* Properties *)

\* However logins, rotations and revocations interleave, a session has one token:
\* rotating never leaves the old one beside the new one, and no two rotations
\* of one token succeed.
OneTokenPerSession ==
  \A t, u \in sessions : origin[t] = origin[u] => t = u

\* A logout, a reset, or an update that revokes leaves none of the tokens there
\* were when it began, once it is answered with a success.
RevocationComplete ==
  \A r \in Requests :
    /\ resp[r] = "ok"
    /\ KindOf[r] = "update" => Revokes(r)
    => older[r] \cap sessions = {}

\* Only a reset changes the password: an update that read the user earlier
\* writes it back without undoing a reset in between.
PasswordOnlyByReset ==
  [][user'.pass # user.pass =>
       \E p \in Of("reset") : user'.pass = p /\ pc[p] = "purging"]_vars

\* No failed login is lost and none is forgiven to who does not know the password:
\* logins that failed at the same time are all counted, and neither a reset nor
\* an update of the user that read it before writes an older count back.
FailuresCounted == user.failed = failures

\* Every request is answered: row locks are given back.
Answered == \A r \in Requests : <>(pc[r] = "done")

\* docs/openapi.yml:308 "On success, all existing refresh tokens for the account
\* are revoked so all active sessions are terminated."
ResetEndsSessions ==
  \A p \in Of("reset") : resp[p] = "ok" =>
    {origin[t] : t \in older[p]} \cap {origin[t] : t \in sessions} = {}
=============================================================================
