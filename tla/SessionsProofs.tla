--------------------------- MODULE SessionsProofs ---------------------------
(***************************************************************************)
(* For every set of requests: a session never has two tokens, and what     *)
(* answered that it revoked the sessions left none of those it found.      *)
(*                                                                         *)
(* The first rests on the row lock that a rotation holds from the check of *)
(* its token to the commit; the second on what a DELETE sees and on tokens *)
(* being inserted once, by the request they are named for.                 *)
(***************************************************************************)
EXTENDS Sessions, TLAPS

\* A request inserts its token as its last step.
IssuedWhenDone ==
  \A t \in sessions : t \in Requests => pc[t] = "done"

\* A rotation works on a token.
KeyIsToken ==
  \A r \in Of("refresh") : pc[r] \in {"lookup", "rotate"} => key[r] \in Tokens

\* A write follows a read.
SawRead == \A r \in Requests : pc[r] = "write" => saw[r] \in Users

TypeInv == TypeOK /\ KeyIsToken /\ SawRead

\* A rotation has locked its token, and the token is still there.
KeyHeld ==
  \A r \in Of("refresh") : pc[r] \in {"lookup", "rotate"} =>
    /\ key[r] \in sessions
    /\ lock[key[r]] = r

\* A login begins a session of its own, and a token belongs to a session whose
\* login is over.
OriginOfLogin ==
  /\ \A l \in Of("login") : origin[l] = l
  /\ \A t \in sessions :
       /\ origin[t] \in Tokens0 \cup Of("login")
       /\ origin[t] \in Requests => pc[origin[t]] = "done"

SessionInv ==
  /\ TypeInv
  /\ IssuedWhenDone
  /\ KeyHeld
  /\ OriginOfLogin
  /\ OneTokenPerSession

\* Only those who revoke remember what there was before.
OlderOfRevokers ==
  \A r \in Requests :
    \/ KindOf[r] \notin {"logout", "reset", "update"}
    \/ pc[r] = "new"
    => older[r] = {}

\* What there was before is not issued again.
OlderIssued ==
  \A r \in Requests : \A t \in older[r] : t \in Requests => pc[t] = "done"

\* A running DELETE sees what is left of it.
SnapCovers ==
  \A r \in Requests : pc[r] = "purging" => older[r] \cap sessions \subseteq snap[r]

AnswerAtEnd == \A r \in Requests : pc[r] # "done" => resp[r] = "none"

RevokeInv ==
  /\ TypeInv
  /\ AnswerAtEnd
  /\ IssuedWhenDone
  /\ OlderOfRevokers
  /\ OlderIssued
  /\ SnapCovers
  /\ RevocationComplete

-----------------------------------------------------------------------------
(* Type correctness *)

LEMMA Names ==
  /\ Tokens \cap Requests = Of("login") \cup Of("refresh")
  /\ \A r \in Requests, k \in Kinds : r \in Of(k) <=> KindOf[r] = k
  /\ Tokens0 \cap Requests = {}
  /\ Tokens \subseteq Rows /\ Links \subseteq Rows /\ UserRow \in Rows
  /\ \A r \in Requests : KindOf[r] \in Kinds
BY SessionsAssumption DEF Tokens, Links, Rows, Of, Kinds

LEMMA AnswerType ==
  ASSUME TypeOK, NEW r \in Requests, NEW a \in Answers, Answer(r, a)
  PROVE  /\ pc' = [pc EXCEPT ![r] = "done"] /\ pc' \in [Requests -> Labels]
         /\ resp' = [resp EXCEPT ![r] = a]
         /\ resp' \in [Requests -> Answers \cup {"none"}]
         /\ lock' \in [Rows -> Requests \cup {NoOne}]
BY DEF Answer, TypeOK, Labels

LEMMA GotoType ==
  ASSUME TypeOK, NEW r \in Requests, NEW label \in Labels, Goto(r, label)
  PROVE  /\ pc' = [pc EXCEPT ![r] = label] /\ pc' \in [Requests -> Labels]
         /\ resp' = resp
         /\ resp' \in [Requests -> Answers \cup {"none"}]
BY DEF Goto, TypeOK

LEMMA LoginType ==
  ASSUME TypeOK, NEW r \in Requests, Login(r)
  PROVE  TypeOK'
<1>0. r \in Tokens
  BY Names DEF Login, ReadLogin, CountFailure, ClearFailures, OpenSession, At, Kinds
<1>1. CASE ReadLogin(r)
  BY <1>1, AnswerType, GotoType
     DEF ReadLogin, TypeOK, Labels, Answers, tables, history
<1>2. CASE CountFailure(r) \/ ClearFailures(r)
  <2>1. user' \in Users
    BY <1>2 DEF CountFailure, Incremented, ClearFailures, TypeOK, Users
  <2>. QED BY <1>2, <2>1, AnswerType, GotoType
           DEF CountFailure, ClearFailures, TypeOK, Labels, Answers, history
<1>3. CASE OpenSession(r)
  BY <1>0, <1>3, AnswerType DEF OpenSession, TypeOK, Labels, Answers, history
<1>. QED BY <1>1, <1>2, <1>3 DEF Login

LEMMA RefreshType ==
  ASSUME TypeOK, KeyIsToken, NEW r \in Requests, Refresh(r)
  PROVE  TypeOK'
<1>0. r \in Tokens
  BY Names DEF Refresh, SelectToken, LookupUser, Rotate, At, Kinds
<1>1. CASE SelectToken(r)
  <2>1. CASE Answer(r, "invalid") /\ UNCHANGED key
    BY <1>1, <2>1, AnswerType DEF SelectToken, TypeOK, Labels, Answers, tables, history
  <2>2. CASE ~(Answer(r, "invalid") /\ UNCHANGED key)
    <3>1. PICK t \in sessions : Take(t, r) /\ Goto(r, "lookup")
                                 /\ key' = [key EXCEPT ![r] = t]
      BY <1>1, <2>2 DEF SelectToken
    <3>2. t \in Tokens /\ t \in Rows
      BY Names DEF TypeOK
    <3>3. lock' \in [Rows -> Requests \cup {NoOne}]
      BY <3>1 DEF Take, TypeOK
    <3>. QED BY <1>1, <3>1, <3>2, <3>3, GotoType
             DEF SelectToken, TypeOK, Labels, tables, history
  <2>. QED BY <2>1, <2>2
<1>2. CASE LookupUser(r)
  BY <1>2, AnswerType, GotoType
     DEF LookupUser, TypeOK, Labels, Answers, tables, history
<1>3. CASE Rotate(r)
  <2>1. key[r] \in Tokens
    BY <1>3, Names DEF Rotate, At, KeyIsToken, Kinds
  <2>2. Answer(r, "ok") \/ Answer(r, "error")
    BY <1>3 DEF Rotate
  <2>. QED BY <1>0, <1>3, <2>1, <2>2, AnswerType DEF Rotate, TypeOK, Labels, Answers
<1>. QED BY <1>1, <1>2, <1>3 DEF Refresh

LEMMA PurgeType ==
  ASSUME TypeOK, NEW r \in Requests, StartPurge(r) \/ EndPurge(r) \/ FindSession(r)
  PROVE  TypeOK'
<1>1. CASE StartPurge(r)
  BY <1>1, GotoType DEF StartPurge, TypeOK, Labels, tables, history
<1>2. CASE EndPurge(r)
  BY <1>2, AnswerType DEF EndPurge, TypeOK, Labels, Answers, history
<1>3. CASE FindSession(r)
  BY <1>3, AnswerType, GotoType DEF FindSession, TypeOK, Labels, Answers, tables
<1>. QED BY <1>1, <1>2, <1>3

LEMMA ForgotType ==
  ASSUME TypeOK, NEW r \in Requests, Forgot(r)
  PROVE  TypeOK'
<1>0. r \in Links
  BY Names DEF Forgot, ReadForgot, StartUnlink, EndUnlink, SendLink, At, Kinds, Links
<1>1. CASE ReadForgot(r)
  BY <1>1, AnswerType, GotoType
     DEF ReadForgot, TypeOK, Labels, Answers, tables, history
<1>2. CASE StartUnlink(r)
  BY <1>2, GotoType DEF StartUnlink, TypeOK, Labels, tables, history
<1>3. CASE EndUnlink(r)
  BY <1>3, AnswerType, GotoType DEF EndUnlink, TypeOK, Labels, Answers, history
<1>4. CASE SendLink(r)
  BY <1>0, <1>4, AnswerType DEF SendLink, TypeOK, Labels, Answers, history
<1>. QED BY <1>1, <1>2, <1>3, <1>4 DEF Forgot

LEMMA ResetType ==
  ASSUME TypeOK, NEW r \in Requests, Reset(r)
  PROVE  TypeOK'
<1>0. r \in Passwords
  BY Names DEF Reset, FindLink, CheckUser, StorePassword, SpendLink, CommitReset, At,
               Kinds, Passwords
<1>1. CASE FindLink(r)
  <2>1. CASE Answer(r, "invalid") /\ UNCHANGED <<key, older>>
    BY <1>1, <2>1, AnswerType DEF FindLink, TypeOK, Labels, Answers, tables
  <2>2. CASE ~(Answer(r, "invalid") /\ UNCHANGED <<key, older>>)
    BY <1>1, <2>2, GotoType DEF FindLink, TypeOK, Labels, tables
  <2>. QED BY <2>1, <2>2
<1>2. CASE CheckUser(r)
  BY <1>2, AnswerType, GotoType
     DEF CheckUser, TypeOK, Labels, Answers, tables, history
<1>3. CASE StorePassword(r) \/ SpendLink(r)
  <2>1. lock' \in [Rows -> Requests \cup {NoOne}]
    BY <1>3, Names DEF StorePassword, SpendLink, Take, TypeOK
  <2>. QED BY <1>3, <2>1, GotoType
           DEF StorePassword, SpendLink, TypeOK, Labels, tables, history
<1>4. CASE CommitReset(r)
  <2>1. user' \in Users
    BY <1>0, <1>4 DEF CommitReset, TypeOK, Users
  <2>. QED BY <1>4, <2>1, AnswerType
           DEF CommitReset, TypeOK, Labels, Answers, history
<1>. QED BY <1>1, <1>2, <1>3, <1>4 DEF Reset

LEMMA UpdateType ==
  ASSUME TypeOK, NEW r \in Requests, ReadUser(r) \/ WriteUser(r),
         pc[r] = "write" => saw[r] \in Users
  PROVE  TypeOK'
<1>1. CASE ReadUser(r)
  BY <1>1, GotoType DEF ReadUser, TypeOK, Labels, tables
<1>2. CASE WriteUser(r)
  <2>1. saw[r] \in Users /\ r \in Of("update")
    BY <1>2, Names DEF WriteUser, At, Kinds
  <2>2. PatchOf[r] \in [role : Roles \cup {Unset}, status : Statuses \cup {Unset}]
    BY <2>1, SessionsAssumption
  <2>3. Merged(r).role \in Roles /\ Merged(r).status \in Statuses
    BY <2>1, <2>2 DEF Merged, Patched, Users
  <2>4. user' \in Users
    BY <1>2, <2>3 DEF WriteUser, Written, TypeOK, Users
  <2>. QED BY <1>2, <2>4, AnswerType, GotoType
           DEF WriteUser, TypeOK, Labels, Answers, history
<1>. QED BY <1>1, <1>2

LEMMA FailType ==
  ASSUME TypeOK, NEW r \in Requests, Fail(r)
  PROVE  TypeOK'
<1>1. ErrorAnswer(r) \in Answers
  BY DEF ErrorAnswer, Answers
<1>. QED BY <1>1, AnswerType DEF Fail, TypeOK, tables, history

-----------------------------------------------------------------------------
(* What the steps of a request do *)

\* A step of r moves r alone, and lets go of no lock but its own.
LEMMA Frame ==
  ASSUME TypeOK, NEW r \in Requests, Step(r) \/ Fail(r)
  PROVE  /\ pc[r] # "done" /\ pc'[r] # "new"
         /\ \A q \in Requests \ {r} :
              /\ pc'[q] = pc[q] /\ resp'[q] = resp[q] /\ key'[q] = key[q]
              /\ saw'[q] = saw[q] /\ snap'[q] = snap[q] /\ older'[q] = older[q]
         /\ \A t \in Tokens \ {r} : origin'[t] = origin[t]
         /\ \A x \in Rows : lock[x] \notin {NoOne, r} => lock'[x] = lock[x]
<1>1. ASSUME NEW a, Answer(r, a)
      PROVE  /\ pc'[r] = "done"
             /\ \A q \in Requests \ {r} : pc'[q] = pc[q] /\ resp'[q] = resp[q]
             /\ \A x \in Rows : lock[x] \notin {NoOne, r} => lock'[x] = lock[x]
  BY <1>1 DEF Answer, TypeOK
<1>2. ASSUME NEW label, Goto(r, label)
      PROVE  /\ pc'[r] = label /\ resp' = resp
             /\ \A q \in Requests \ {r} : pc'[q] = pc[q]
  BY <1>2 DEF Goto, TypeOK
<1>3. ASSUME NEW x, Take(x, r), lock[x] \in {NoOne, r}
      PROVE  \A y \in Rows : lock[y] \notin {NoOne, r} => lock'[y] = lock[y]
  BY <1>3 DEF Take, TypeOK
<1>4. CASE Login(r)
  BY <1>1, <1>2, <1>4
     DEF Login, ReadLogin, CountFailure, ClearFailures, OpenSession, At, history, TypeOK
<1>5. CASE Refresh(r)
  <2>1. CASE SelectToken(r)
    BY <1>1, <1>2, <1>3, <2>1 DEF SelectToken, At, Free, history, TypeOK
  <2>2. CASE LookupUser(r)
    BY <1>1, <1>2, <2>2 DEF LookupUser, At, history
  <2>3. CASE Rotate(r)
    BY <1>1, <2>3 DEF Rotate, At, TypeOK
  <2>. QED BY <1>5, <2>1, <2>2, <2>3 DEF Refresh
<1>6. CASE StartPurge(r) \/ EndPurge(r) \/ FindSession(r)
  BY <1>1, <1>2, <1>6 DEF StartPurge, EndPurge, FindSession, At, history, TypeOK
<1>7. CASE Forgot(r)
  BY <1>1, <1>2, <1>7
     DEF Forgot, ReadForgot, StartUnlink, EndUnlink, SendLink, At, history, TypeOK
<1>8. CASE Reset(r)
  <2>1. CASE FindLink(r)
    BY <1>1, <1>2, <2>1 DEF FindLink, At, TypeOK
  <2>2. CASE CheckUser(r) \/ CommitReset(r)
    BY <1>1, <1>2, <2>2 DEF CheckUser, CommitReset, At, history, TypeOK
  <2>3. CASE StorePassword(r) \/ SpendLink(r)
    BY <1>2, <1>3, <2>3 DEF StorePassword, SpendLink, At, Free, history, TypeOK
  <2>. QED BY <1>8, <2>1, <2>2, <2>3 DEF Reset
<1>9. CASE ReadUser(r) \/ WriteUser(r)
  BY <1>1, <1>2, <1>9 DEF ReadUser, WriteUser, At, history, TypeOK
<1>10. CASE Fail(r)
  BY <1>1, <1>10 DEF Fail, history
<1>. QED BY <1>4, <1>5, <1>6, <1>7, <1>8, <1>9, <1>10 DEF Step

\* Who gets to the places that the invariants speak of.
LEMMA Moves ==
  ASSUME TypeOK, NEW r \in Requests, Step(r) \/ Fail(r)
  PROVE  /\ pc'[r] = "lookup" => SelectToken(r) /\ ~Answer(r, "invalid")
         /\ pc'[r] = "rotate" => /\ pc[r] = "lookup" /\ UNCHANGED <<sessions, lock, key>>
         /\ pc'[r] = "write" => ReadUser(r)
         /\ pc'[r] = "purging" => StartPurge(r)
<1>1. ASSUME NEW a, Answer(r, a)
      PROVE  pc'[r] = "done"
  BY <1>1 DEF Answer, TypeOK
<1>2. ASSUME NEW label, Goto(r, label)
      PROVE  pc'[r] = label
  BY <1>2 DEF Goto, TypeOK
<1>3. CASE Login(r)
  BY <1>1, <1>2, <1>3 DEF Login, ReadLogin, CountFailure, ClearFailures, OpenSession
<1>4. CASE Refresh(r)
  BY <1>1, <1>2, <1>4 DEF Refresh, SelectToken, LookupUser, Rotate, At, tables
<1>5. CASE StartPurge(r) \/ EndPurge(r) \/ FindSession(r)
  BY <1>1, <1>2, <1>5 DEF StartPurge, EndPurge, FindSession
<1>6. CASE Forgot(r)
  BY <1>1, <1>2, <1>6 DEF Forgot, ReadForgot, StartUnlink, EndUnlink, SendLink
<1>7. CASE Reset(r)
  BY <1>1, <1>2, <1>7
     DEF Reset, FindLink, CheckUser, StorePassword, SpendLink, CommitReset
<1>8. CASE ReadUser(r) \/ WriteUser(r)
  BY <1>1, <1>2, <1>8 DEF ReadUser, WriteUser
<1>9. CASE Fail(r)
  BY <1>1, <1>9 DEF Fail
<1>. QED BY <1>3, <1>4, <1>5, <1>6, <1>7, <1>8, <1>9 DEF Step

\* A step inserts no token but its own, as its last act, and deletes none that
\* another request has locked.
LEMMA Inserts ==
  ASSUME TypeOK, NEW r \in Requests, Step(r) \/ Fail(r)
  PROVE  \/ sessions' \subseteq sessions
         \/ OpenSession(r) /\ sessions' = sessions \cup {r} /\ pc'[r] = "done"
         \/ Rotate(r) /\ sessions' = (sessions \ {key[r]}) \cup {r} /\ pc'[r] = "done"
<1>1. ASSUME NEW a, Answer(r, a)
      PROVE  pc'[r] = "done"
  BY <1>1 DEF Answer, TypeOK
<1>2. CASE Login(r)
  BY <1>1, <1>2
     DEF Login, ReadLogin, CountFailure, ClearFailures, OpenSession, tables
<1>3. CASE Refresh(r)
  BY <1>1, <1>3 DEF Refresh, SelectToken, LookupUser, Rotate, tables
<1>4. CASE StartPurge(r) \/ EndPurge(r) \/ FindSession(r)
  BY <1>4 DEF StartPurge, EndPurge, FindSession, tables
<1>5. CASE Forgot(r)
  BY <1>5 DEF Forgot, ReadForgot, StartUnlink, EndUnlink, SendLink, tables
<1>6. CASE Reset(r)
  BY <1>6 DEF Reset, FindLink, CheckUser, StorePassword, SpendLink, CommitReset, tables
<1>7. CASE ReadUser(r) \/ WriteUser(r) \/ Fail(r)
  BY <1>7 DEF ReadUser, WriteUser, Fail, tables
<1>. QED BY <1>2, <1>3, <1>4, <1>5, <1>6, <1>7 DEF Step

LEMMA Deletes ==
  ASSUME TypeOK, KeyHeld, NEW r \in Requests, Step(r) \/ Fail(r)
  PROVE  \A t \in sessions : t \notin sessions' => lock[t] \in {NoOne, r}
<1>1. CASE Login(r)
  BY <1>1 DEF Login, ReadLogin, CountFailure, ClearFailures, OpenSession, tables
<1>2. CASE Refresh(r)
  <2>1. ASSUME Rotate(r)
        PROVE  lock[key[r]] = r
    BY <2>1, Names DEF Rotate, At, KeyHeld, Kinds
  <2>. QED BY <1>2, <2>1 DEF Refresh, SelectToken, LookupUser, Rotate, tables
<1>3. CASE StartPurge(r) \/ EndPurge(r) \/ FindSession(r)
  BY <1>3 DEF StartPurge, EndPurge, FindSession, Free, tables
<1>4. CASE Forgot(r)
  BY <1>4 DEF Forgot, ReadForgot, StartUnlink, EndUnlink, SendLink, tables
<1>5. CASE Reset(r)
  BY <1>5
     DEF Reset, FindLink, CheckUser, StorePassword, SpendLink, CommitReset, Free, tables
<1>6. CASE ReadUser(r) \/ WriteUser(r) \/ Fail(r)
  BY <1>6 DEF ReadUser, WriteUser, Fail, tables
<1>. QED BY <1>1, <1>2, <1>3, <1>4, <1>5, <1>6 DEF Step

-----------------------------------------------------------------------------
(* Type correctness, continued *)

LEMMA TypeStep ==
  ASSUME TypeInv, NEW r \in Requests, Step(r) \/ Fail(r)
  PROVE  TypeInv'
<1>1. TypeOK'
  BY LoginType, RefreshType, PurgeType, ForgotType, ResetType, UpdateType, FailType
     DEF TypeInv, SawRead, Step
<1>2. KeyIsToken'
  <2> SUFFICES ASSUME NEW q \in Of("refresh"), pc'[q] \in {"lookup", "rotate"}
               PROVE  key'[q] \in Tokens
    BY DEF KeyIsToken
  <2>0. q \in Requests
    BY DEF Of
  <2>1. CASE q # r
    BY <2>0, <2>1, Frame DEF TypeInv, KeyIsToken
  <2>2. CASE q = r /\ pc'[r] = "lookup"
    BY <2>2, Moves DEF SelectToken, TypeInv, TypeOK
  <2>3. CASE q = r /\ pc'[r] = "rotate"
    BY <2>3, Moves DEF TypeInv, KeyIsToken
  <2>. QED BY <2>1, <2>2, <2>3
<1>3. SawRead'
  <2> SUFFICES ASSUME NEW q \in Requests, pc'[q] = "write"
               PROVE  saw'[q] \in Users
    BY DEF SawRead
  <2>1. CASE q # r
    BY <2>1, Frame DEF TypeInv, SawRead
  <2>2. CASE q = r
    BY <2>2, Moves DEF ReadUser, TypeInv, TypeOK
  <2>. QED BY <2>1, <2>2
<1>. QED BY <1>1, <1>2, <1>3 DEF TypeInv

LEMMA TypeInit == Init => TypeInv
<1> SUFFICES ASSUME Init
             PROVE  TypeInv
  OBVIOUS
<1>1. user \in Users
  BY SessionsAssumption DEF Init, Users, Statuses, Passwords
<1>2. sessions \subseteq Tokens /\ links \subseteq Links
  BY DEF Init, Tokens, Links
<1>3. TypeOK
  BY <1>1, <1>2 DEF Init, TypeOK, Labels
<1>4. KeyIsToken /\ SawRead
  BY DEF Init, KeyIsToken, SawRead, Of
<1>. QED BY <1>3, <1>4 DEF TypeInv

\* Every variable keeps its type.
THEOREM TypeCorrect == Spec => []TypeOK
<1>1. TypeInv /\ [Next]_vars => TypeInv'
  <2>1. ASSUME TypeInv, UNCHANGED vars
        PROVE  TypeInv'
    BY <2>1 DEF TypeInv, TypeOK, KeyIsToken, SawRead, vars, tables, history
  <2>. QED BY <2>1, TypeStep DEF Next
<1>2. TypeInv => TypeOK
  BY DEF TypeInv
<1>. QED BY <1>1, <1>2, TypeInit, PTL DEF Spec

-----------------------------------------------------------------------------
(* One token per session *)

LEMMA IssuedWhenDoneStep ==
  ASSUME TypeOK, IssuedWhenDone, NEW r \in Requests, Step(r) \/ Fail(r)
  PROVE  IssuedWhenDone' /\ r \notin sessions
<1>1. r \notin sessions
  BY Frame DEF IssuedWhenDone
<1> SUFFICES ASSUME NEW t \in sessions', t \in Requests
             PROVE  pc'[t] = "done"
  BY <1>1 DEF IssuedWhenDone
<1>2. CASE t = r
  BY <1>1, <1>2, Inserts
<1>3. CASE t # r
  BY <1>3, Inserts, Frame DEF IssuedWhenDone
<1>. QED BY <1>2, <1>3

LEMMA KeyHeldStep ==
  ASSUME TypeInv, KeyHeld, NEW r \in Requests, Step(r) \/ Fail(r)
  PROVE  KeyHeld'
<1> SUFFICES ASSUME NEW q \in Of("refresh"), pc'[q] \in {"lookup", "rotate"}
             PROVE  key'[q] \in sessions' /\ lock'[key'[q]] = q
  BY DEF KeyHeld
<1>0. q \in Requests /\ q # NoOne
  BY SessionsAssumption DEF Of
<1>1. CASE q # r
  <2>1. key'[q] = key[q] /\ key[q] \in sessions /\ lock[key[q]] = q
    BY <1>0, <1>1, Frame DEF TypeInv, KeyHeld
  <2>2. key[q] \in Rows
    BY <2>1, Names DEF TypeInv, TypeOK
  <2>. QED BY <1>0, <1>1, <2>1, <2>2, Frame, Deletes DEF TypeInv
<1>2. CASE q = r /\ pc'[r] = "lookup"
  <2>1. PICK t \in sessions : Take(t, r) /\ key' = [key EXCEPT ![r] = t]
    BY <1>2, Moves DEF SelectToken, TypeInv
  <2>2. sessions' = sessions
    BY <1>2, Moves DEF SelectToken, TypeInv, tables
  <2>3. t \in Rows
    BY <2>1, Names DEF TypeInv, TypeOK
  <2>. QED BY <1>2, <2>1, <2>2, <2>3 DEF Take, TypeInv, TypeOK
<1>3. CASE q = r /\ pc'[r] = "rotate"
  BY <1>3, Moves DEF TypeInv, KeyHeld
<1>. QED BY <1>1, <1>2, <1>3

LEMMA OriginKept ==
  ASSUME TypeOK, NEW r \in Requests, Step(r) \/ Fail(r)
  PROVE  origin' = origin \/ Rotate(r)
<1>1. CASE Login(r) \/ Refresh(r)
  BY <1>1 DEF Login, ReadLogin, CountFailure, ClearFailures, OpenSession,
              Refresh, SelectToken, LookupUser, history
<1>2. CASE StartPurge(r) \/ EndPurge(r) \/ FindSession(r) \/ Forgot(r)
  BY <1>2 DEF StartPurge, EndPurge, FindSession,
              Forgot, ReadForgot, StartUnlink, EndUnlink, SendLink, history
<1>3. CASE Reset(r)
  BY <1>3 DEF Reset, FindLink, CheckUser, StorePassword, SpendLink, CommitReset, history
<1>4. CASE ReadUser(r) \/ WriteUser(r) \/ Fail(r)
  BY <1>4 DEF ReadUser, WriteUser, Fail, history
<1>. QED BY <1>1, <1>2, <1>3, <1>4 DEF Step

LEMMA OriginStep ==
  ASSUME SessionInv, NEW r \in Requests, Step(r) \/ Fail(r)
  PROVE  OriginOfLogin' /\ OneTokenPerSession'
<1>0. /\ r \notin sessions
      /\ pc[r] # "done"
      /\ sessions \subseteq Tokens
  BY Frame, IssuedWhenDoneStep DEF SessionInv, TypeInv, TypeOK
<1>1. \A t \in sessions : origin'[t] = origin[t]
  BY <1>0, Frame DEF SessionInv, TypeInv
<1>2. \A t \in sessions : /\ origin[t] \in Tokens0 \cup Of("login")
                          /\ origin[t] \in Requests => pc'[origin[t]] = "done"
  BY <1>0, Frame DEF SessionInv, TypeInv, OriginOfLogin
<1>3. \A l \in Of("login") : origin'[l] = l
  <2>1. ASSUME Rotate(r)
        PROVE  r \notin Of("login")
    BY <2>1 DEF Rotate, At, Of
  <2>2. \A l \in Of("login") : l \in Tokens
    BY DEF Tokens
  <2>. QED BY <2>1, <2>2, Frame, OriginKept DEF SessionInv, TypeInv, OriginOfLogin
<1>4. CASE sessions' \subseteq sessions
  BY <1>1, <1>2, <1>3, <1>4 DEF SessionInv, OriginOfLogin, OneTokenPerSession
<1>5. CASE OpenSession(r) /\ sessions' = sessions \cup {r} /\ pc'[r] = "done"
  <2>1. r \in Of("login")
    BY <1>5 DEF OpenSession, At, Of
  <2>2. origin'[r] = r
    BY <1>3, <2>1
  <2>3. \A t \in sessions : origin[t] # r
    BY <1>0 DEF SessionInv, OriginOfLogin
  <2>. QED BY <1>1, <1>2, <1>3, <1>5, <2>1, <2>2, <2>3
           DEF SessionInv, OriginOfLogin, OneTokenPerSession
<1>6. CASE Rotate(r) /\ sessions' = (sessions \ {key[r]}) \cup {r} /\ pc'[r] = "done"
  <2>1. key[r] \in sessions /\ r \in Tokens
    BY <1>6, Names DEF Rotate, At, SessionInv, KeyHeld, Kinds
  <2>2. origin'[r] = origin[key[r]]
    BY <1>6, <2>1 DEF Rotate, SessionInv, TypeInv, TypeOK
  <2>. QED BY <1>1, <1>2, <1>3, <1>6, <2>1, <2>2
           DEF SessionInv, OriginOfLogin, OneTokenPerSession
<1>. QED BY <1>4, <1>5, <1>6, Inserts DEF SessionInv, TypeInv

\* However logins, rotations and revocations interleave, and for every number of
\* each: two tokens are never those of one session.
THEOREM OneTokenPerSessionHolds == Spec => []OneTokenPerSession
<1>1. Init => SessionInv
  <2> SUFFICES ASSUME Init
               PROVE  SessionInv
    OBVIOUS
  <2>1. IssuedWhenDone
    BY Names DEF Init, IssuedWhenDone
  <2>2. KeyHeld
    BY DEF Init, KeyHeld, Of
  <2>3. OriginOfLogin /\ OneTokenPerSession
    BY Names DEF Init, OriginOfLogin, OneTokenPerSession, Tokens
  <2>. QED BY <2>1, <2>2, <2>3, TypeInit DEF SessionInv
<1>2. SessionInv /\ [Next]_vars => SessionInv'
  <2>1. ASSUME SessionInv, NEW r \in Requests, Step(r) \/ Fail(r)
        PROVE  SessionInv'
    BY <2>1, TypeStep, IssuedWhenDoneStep, KeyHeldStep, OriginStep
       DEF SessionInv, TypeInv
  <2>2. ASSUME SessionInv, UNCHANGED vars
        PROVE  SessionInv'
    BY <2>2 DEF SessionInv, TypeInv, TypeOK, KeyIsToken, SawRead, IssuedWhenDone,
                KeyHeld, OriginOfLogin, OneTokenPerSession, vars, tables, history
  <2>. QED BY <2>1, <2>2 DEF Next
<1>3. SessionInv => OneTokenPerSession
  BY DEF SessionInv
<1>. QED BY <1>1, <1>2, <1>3, PTL DEF Spec

-----------------------------------------------------------------------------
(* Revocation *)

LEMMA AnswerAtEndStep ==
  ASSUME TypeOK, AnswerAtEnd, NEW r \in Requests, Step(r) \/ Fail(r)
  PROVE  AnswerAtEnd'
<1>1. ASSUME NEW a, Answer(r, a)
      PROVE  pc'[r] = "done"
  BY <1>1 DEF Answer, TypeOK
<1>2. pc'[r] = "done" \/ resp' = resp
  <2>1. CASE Login(r) \/ Refresh(r)
    BY <1>1, <2>1 DEF Login, ReadLogin, CountFailure, ClearFailures, OpenSession,
                      Refresh, SelectToken, LookupUser, Rotate, Goto
  <2>2. CASE StartPurge(r) \/ EndPurge(r) \/ FindSession(r) \/ Forgot(r)
    BY <1>1, <2>2 DEF StartPurge, EndPurge, FindSession,
                      Forgot, ReadForgot, StartUnlink, EndUnlink, SendLink, Goto
  <2>3. CASE Reset(r)
    BY <1>1, <2>3 DEF Reset, FindLink, CheckUser, StorePassword, SpendLink,
                      CommitReset, Goto
  <2>4. CASE ReadUser(r) \/ WriteUser(r) \/ Fail(r)
    BY <1>1, <2>4 DEF ReadUser, WriteUser, Fail, Goto
  <2>. QED BY <2>1, <2>2, <2>3, <2>4 DEF Step
<1>. QED BY <1>2, Frame DEF AnswerAtEnd

\* A revoking request looks at the sessions in its first step.
LEMMA OlderKept ==
  ASSUME TypeOK, NEW r \in Requests, Step(r) \/ Fail(r)
  PROVE  \/ older'[r] = older[r]
         \/ /\ older'[r] = sessions /\ sessions' = sessions
            /\ KindOf[r] \in {"logout", "reset", "update"}
<1>1. CASE Login(r) \/ Refresh(r)
  BY <1>1 DEF Login, ReadLogin, CountFailure, ClearFailures, OpenSession,
              Refresh, SelectToken, LookupUser, Rotate, history
<1>2. CASE StartPurge(r) \/ EndPurge(r) \/ FindSession(r) \/ Forgot(r)
  BY <1>2 DEF StartPurge, EndPurge, FindSession, At, tables, TypeOK,
              Forgot, ReadForgot, StartUnlink, EndUnlink, SendLink, history
<1>3. CASE Reset(r)
  BY <1>3 DEF Reset, FindLink, CheckUser, StorePassword, SpendLink, CommitReset, At,
              tables, history, TypeOK
<1>4. CASE ReadUser(r) \/ WriteUser(r) \/ Fail(r)
  BY <1>4 DEF ReadUser, WriteUser, Fail, At, tables, history, TypeOK
<1>. QED BY <1>1, <1>2, <1>3, <1>4 DEF Step

\* Which steps answer with a success.
LEMMA Successes ==
  ASSUME TypeOK, NEW r \in Requests, Step(r) \/ Fail(r), resp[r] = "none",
         resp'[r] = "ok"
  PROVE  \/ KindOf[r] \in {"login", "refresh", "forgot"}
         \/ pc[r] = "new" /\ older' = older
         \/ /\ pc[r] = "purging" /\ older' = older
            /\ sessions' = sessions \ snap[r]
         \/ KindOf[r] = "update" /\ ~Revokes(r) /\ saw' = saw
<1>1. ASSUME NEW a, Answer(r, a)
      PROVE  resp'[r] = a
  BY <1>1 DEF Answer, TypeOK
<1>2. ASSUME NEW label, Goto(r, label)
      PROVE  FALSE
  BY <1>2 DEF Goto
<1>3. CASE Login(r) \/ Refresh(r) \/ Forgot(r)
  BY <1>3 DEF Login, ReadLogin, CountFailure, ClearFailures, OpenSession,
              Refresh, SelectToken, LookupUser, Rotate,
              Forgot, ReadForgot, StartUnlink, EndUnlink, SendLink, At
<1>4. CASE StartPurge(r) \/ EndPurge(r) \/ FindSession(r)
  BY <1>1, <1>2, <1>4 DEF StartPurge, EndPurge, FindSession, At, history
<1>5. CASE Reset(r)
  BY <1>1, <1>2, <1>5
     DEF Reset, FindLink, CheckUser, StorePassword, SpendLink, CommitReset, At, history
<1>6. CASE ReadUser(r) \/ WriteUser(r)
  BY <1>1, <1>2, <1>6 DEF ReadUser, WriteUser, At
<1>7. CASE Fail(r)
  BY <1>1, <1>7 DEF Fail, ErrorAnswer
<1>. QED BY <1>3, <1>4, <1>5, <1>6, <1>7 DEF Step

LEMMA RevokeStep ==
  ASSUME RevokeInv, NEW r \in Requests, Step(r) \/ Fail(r)
  PROVE  RevokeInv'
<1>0. TypeOK /\ r \notin sessions /\ pc[r] # "done" /\ resp[r] = "none"
  BY Frame, IssuedWhenDoneStep DEF RevokeInv, TypeInv, AnswerAtEnd
<1>1. TypeInv' /\ AnswerAtEnd' /\ IssuedWhenDone'
  BY TypeStep, AnswerAtEndStep, IssuedWhenDoneStep DEF RevokeInv, TypeInv
<1>2. OlderOfRevokers'
  BY <1>0, Frame, OlderKept DEF RevokeInv, OlderOfRevokers
<1>3. OlderIssued'
  <2> SUFFICES ASSUME NEW q \in Requests, NEW t \in older'[q], t \in Requests
               PROVE  pc'[t] = "done"
    BY DEF OlderIssued
  <2>1. pc[t] = "done"
    BY <1>0, Frame, OlderKept DEF RevokeInv, OlderIssued, IssuedWhenDone
  <2>. QED BY <1>0, <2>1, Frame
<1>4. \A q \in Requests \ {r} : older'[q] \cap sessions' \subseteq sessions
  <2>1. \A q \in Requests \ {r} : older'[q] = older[q] /\ r \notin older[q]
    BY <1>0, Frame DEF RevokeInv, OlderIssued
  <2>. QED BY <1>0, <2>1, Inserts
<1>5. SnapCovers'
  <2> SUFFICES ASSUME NEW q \in Requests, pc'[q] = "purging"
               PROVE  older'[q] \cap sessions' \subseteq snap'[q]
    BY DEF SnapCovers
  <2>1. CASE q # r
    BY <1>0, <1>4, <2>1, Frame DEF RevokeInv, SnapCovers
  <2>2. CASE q = r
    BY <1>0, <2>2, Moves DEF StartPurge, tables, TypeOK
  <2>. QED BY <2>1, <2>2
<1>6. RevocationComplete'
  <2> SUFFICES ASSUME NEW q \in Requests, resp'[q] = "ok",
                      KindOf[q] = "update" => Revokes(q)'
               PROVE  older'[q] \cap sessions' = {}
    BY DEF RevocationComplete
  <2>1. CASE q # r
    <3>1. resp[q] = "ok" /\ older'[q] = older[q] /\ saw'[q] = saw[q]
      BY <1>0, <2>1, Frame
    <3>2. KindOf[q] = "update" => Revokes(q)
      BY <3>1 DEF Revokes
    <3>. QED BY <1>4, <2>1, <3>1, <3>2 DEF RevokeInv, RevocationComplete
  <2>2. CASE q = r
    <3>1. CASE KindOf[r] \in {"login", "refresh", "forgot"}
      BY <1>2, <2>2, <3>1 DEF OlderOfRevokers
    <3>2. CASE pc[r] = "new" /\ older' = older
      BY <2>2, <3>2 DEF RevokeInv, OlderOfRevokers
    <3>3. CASE pc[r] = "purging" /\ older' = older /\ sessions' = sessions \ snap[r]
      BY <2>2, <3>3 DEF RevokeInv, SnapCovers
    <3>4. CASE KindOf[r] = "update" /\ ~Revokes(r) /\ saw' = saw
      BY <2>2, <3>4 DEF Revokes
    <3>. QED BY <1>0, <2>2, <3>1, <3>2, <3>3, <3>4, Successes
  <2>. QED BY <2>1, <2>2
<1>. QED BY <1>1, <1>2, <1>3, <1>5, <1>6 DEF RevokeInv

\* For every number of requests: a logout, a reset or a revoking update that was
\* answered with a success left none of the tokens it found.
THEOREM RevocationCompleteHolds == Spec => []RevocationComplete
<1>1. Init => RevokeInv
  <2> SUFFICES ASSUME Init
               PROVE  RevokeInv
    OBVIOUS
  <2>1. IssuedWhenDone /\ AnswerAtEnd
    BY Names DEF Init, IssuedWhenDone, AnswerAtEnd
  <2>2. OlderOfRevokers /\ OlderIssued /\ SnapCovers /\ RevocationComplete
    BY DEF Init, OlderOfRevokers, OlderIssued, SnapCovers, RevocationComplete
  <2>. QED BY <2>1, <2>2, TypeInit DEF RevokeInv
<1>2. RevokeInv /\ [Next]_vars => RevokeInv'
  <2>1. ASSUME RevokeInv, UNCHANGED vars
        PROVE  RevokeInv'
    BY <2>1 DEF RevokeInv, TypeInv, TypeOK, KeyIsToken, SawRead, AnswerAtEnd,
                IssuedWhenDone, OlderOfRevokers, OlderIssued, SnapCovers,
                RevocationComplete, Revokes, vars, tables, history
  <2>. QED BY <2>1, RevokeStep DEF Next
<1>3. RevokeInv => RevocationComplete
  BY DEF RevokeInv
<1>. QED BY <1>1, <1>2, <1>3, PTL DEF Spec

-----------------------------------------------------------------------------
(* The row of the user *)

\* Four steps write the row of the user, and each its own columns.
LEMMA UserStep ==
  ASSUME TypeOK, NEW r \in Requests, Step(r) \/ Fail(r)
  PROVE  /\ user'.pass # user.pass =>
              r \in Of("reset") /\ user'.pass = r /\ pc[r] = "purging"
         /\ user.failed = failures => user'.failed = failures'
<1>0. user \in Users /\ user.failed \in Nat
  BY DEF TypeOK, Users
<1>1. CASE Login(r)
  <2>1. CASE ReadLogin(r) \/ OpenSession(r)
    BY <1>0, <2>1 DEF ReadLogin, OpenSession, tables, history
  <2>2. CASE CountFailure(r)
    <3>1. CASE UNCHANGED <<user, failures>>
      BY <1>0, <3>1
    <3>2. CASE user' = [user EXCEPT !.failed = Incremented(r)] /\ failures' = failures + 1
      <4>1. user'.failed = user.failed + 1 /\ user'.pass = user.pass
        BY <1>0, <3>2 DEF Users, Incremented
      <4>. QED BY <3>2, <4>1
    <3>. QED BY <2>2, <3>1, <3>2 DEF CountFailure
  <2>3. CASE ClearFailures(r)
    <3>1. CASE UNCHANGED <<user, failures>>
      BY <1>0, <3>1
    <3>2. CASE user' = [user EXCEPT !.failed = 0] /\ failures' = 0
      <4>1. user'.failed = 0 /\ user'.pass = user.pass
        BY <1>0, <3>2 DEF Users
      <4>. QED BY <3>2, <4>1
    <3>. QED BY <2>3, <3>1, <3>2 DEF ClearFailures
  <2>. QED BY <1>1, <2>1, <2>2, <2>3 DEF Login
<1>2. CASE CommitReset(r)
  <2>1. /\ user' = [user EXCEPT !.pass = r] /\ At(r, "reset", "purging")
        /\ failures' = failures
    BY <1>2 DEF CommitReset, history
  <2>2. user'.pass = r /\ user'.failed = user.failed
    BY <1>0, <2>1 DEF Users
  <2>. QED BY <1>0, <2>1, <2>2 DEF At, Of
<1>3. CASE WriteUser(r)
  <2>1. user'.pass = user.pass /\ user'.failed = user.failed /\ failures' = failures
    BY <1>0, <1>3 DEF WriteUser, Written, Users, history
  <2>. QED BY <1>0, <2>1
<1>4. CASE UNCHANGED <<user, failures>>
  BY <1>0, <1>4
<1>5. Login(r) \/ CommitReset(r) \/ WriteUser(r) \/ UNCHANGED <<user, failures>>
  BY DEF Step, Fail, Refresh, SelectToken, LookupUser, Rotate, FindSession, Forgot,
         ReadForgot, StartUnlink, EndUnlink, SendLink, Reset, FindLink, CheckUser,
         StorePassword, SpendLink, ReadUser, StartPurge, EndPurge, tables, history
<1>. QED BY <1>1, <1>2, <1>3, <1>4, <1>5

\* For every number of updates that write back a user they read earlier: the
\* password is only ever what a reset made it.
THEOREM PasswordOnlyByResetHolds == Spec => PasswordOnlyByReset
<1>1. TypeOK /\ [Next]_vars =>
        [user'.pass # user.pass =>
           \E p \in Of("reset") : user'.pass = p /\ pc[p] = "purging"]_vars
  BY UserStep DEF Next
<1>. QED BY <1>1, TypeCorrect, PTL DEF Spec, PasswordOnlyByReset

\* For every number of logins, resets and updates: the row of the user counts
\* every failed login since somebody last knew the password.
THEOREM FailuresCountedHolds == Spec => []FailuresCounted
<1>1. Init => FailuresCounted
  BY DEF Init, FailuresCounted
<1>2. TypeOK /\ FailuresCounted /\ [Next]_vars => FailuresCounted'
  <2>1. ASSUME UNCHANGED vars
        PROVE  UNCHANGED <<user, failures>>
    BY <2>1 DEF vars, tables, history
  <2>. QED BY <2>1, UserStep DEF Next, FailuresCounted
<1>. QED BY <1>1, <1>2, TypeCorrect, PTL DEF Spec
=============================================================================
