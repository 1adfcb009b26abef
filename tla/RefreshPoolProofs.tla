------------------------- MODULE RefreshPoolProofs -------------------------
(***************************************************************************)
(* Two facts about POST /auth/refresh, for every number of requests: with  *)
(* fewer requests that may wait for a row than connections the pool never  *)
(* deadlocks, because each of them holds exactly one connection while it   *)
(* waits; and a token is redeemed once, because its row stays locked from  *)
(* the check to the commit.                                                *)
(***************************************************************************)
EXTENDS RefreshPool, FiniteSetTheorems, SequenceTheorems, TLAPS

\* Where a request may have to wait although it holds a connection.
Waiting == {"select", "lookup", "store", "sweep"}

\* A request in a place where it owns nothing owns nothing.
OwnersBusy ==
  \A c \in Conns : owner[c] # NoOne => pc[owner[c]] \notin {"new", "begin", "done"}

\* A request that may have to wait holds one connection.
OneEach ==
  \A c, d \in Conns :
    /\ owner[c] # NoOne
    /\ owner[c] = owner[d]
    /\ pc[owner[c]] \in Waiting
    => c = d

\* From the check of the token to the commit its row is locked and live.
LockedLive ==
  \A r \in Refreshers :
    pc[r] \in {"lookup", "reading", "rotate"} =>
      /\ holder[TokenOf[r]] = r
      /\ token[TokenOf[r]] = "live"

PairMeansGone == \A r \in paired : token[TokenOf[r]] = "gone"

Inv ==
  /\ TypeOK
  /\ OwnersBusy
  /\ OneEach
  /\ LockedLive
  /\ PairMeansGone
  /\ RedeemedOnce

-----------------------------------------------------------------------------
(* Type correctness *)

LEMMA ConnOfOwner ==
  ASSUME NEW o, NEW c \in Conns, owner[c] = o
  PROVE  ConnOf(o) \in Conns /\ owner[ConnOf(o)] = o
BY DEF ConnOf

\* A connection that is taken was free, and belongs to the request now.
LEMMA TakeOne ==
  ASSUME TypeOK, NEW r \in Requests, Take(r)
  PROVE  /\ \E c \in Conns : owner[c] = NoOne /\ owner' = [owner EXCEPT ![c] = r]
         /\ owner' \in [Conns -> Requests \cup {NoOne}]
         /\ pc' = [pc EXCEPT ![r] = Turn(r)]
<1>1. PICK c \in Conns : owner[c] = NoOne
  BY DEF Take, Exhausted
<1>2. ConnOf(NoOne) \in Conns /\ owner[ConnOf(NoOne)] = NoOne
  BY <1>1, ConnOfOwner
<1>. QED BY <1>2 DEF Take, Goto, TypeOK

LEMMA DequeueType ==
  ASSUME TypeOK, NEW r \in Requests, Dequeue(r)
  PROVE  queue' \in Seq(Requests)
<1>1. CASE queue' = queue
  BY <1>1 DEF TypeOK
<1>2. ASSUME NEW i \in DOMAIN queue, queue' = RemoveAt(queue, i)
      PROVE  queue' \in Seq(Requests)
  <2>1. /\ i \in 1..Len(queue) /\ Len(queue) \in Nat
        /\ \A j \in 1..Len(queue) : queue[j] \in Requests
    BY <1>2 DEF TypeOK
  <2>2. SubSeq(queue, 1, i - 1) \in Seq(Requests)
    <3>1. \A j \in 1..(i - 1) : queue[j] \in Requests
      BY <2>1
    <3>. QED BY <2>1, <3>1, SubSeqProperties
  <2>3. SubSeq(queue, i + 1, Len(queue)) \in Seq(Requests)
    <3>1. \A j \in (i + 1)..Len(queue) : queue[j] \in Requests
      BY <2>1
    <3>. QED BY <2>1, <3>1, SubSeqProperties
  <2>. QED BY <1>2, <2>2, <2>3, ConcatProperties DEF RemoveAt
<1>. QED BY <1>1, <1>2 DEF Dequeue

LEMMA AnswerType ==
  ASSUME TypeOK, NEW r \in Requests, Answer(r),
         token' \in [Tokens -> {"live", "expired", "gone"}], paired' \subseteq Refreshers
  PROVE  TypeOK'
<1>1. queue' \in Seq(Requests)
  BY DequeueType DEF Answer, Leave
<1>2. /\ owner' \in [Conns -> Requests \cup {NoOne}]
      /\ holder' \in [Rows -> Requests \cup {NoOne}]
  BY DEF Answer, Leave, TypeOK
<1>3. pc' = [pc EXCEPT ![r] = "done"]
  BY DEF Answer, Goto
<1>. QED BY <1>1, <1>2, <1>3, RefreshPoolAssumption DEF TypeOK, Requests, Queued

LEMMA AskType ==
  ASSUME TypeOK, NEW r \in Requests, NEW label \in Queued, Ask(r, label)
  PROVE  queue' \in Seq(Requests)
BY AppendProperties DEF TypeOK, Ask

\* Where a request goes with its connection fits what it is.
LEMMA TurnType ==
  ASSUME TypeOK, NEW r \in Requests, pc[r] \in {"new"} \cup Queued
  PROVE  /\ r \in Refreshers => Turn(r) \in {"select", "reading"}
         /\ r \in Others => Turn(r) \in {"run", "store", "sweep"}
         /\ Turn(r) = "run" => r \notin Writers \cup Deleters
         /\ Turn(r) = "store" => r \in Writers
         /\ Turn(r) = "sweep" => r \in Deleters
BY RefreshPoolAssumption DEF TypeOK, Turn, Requests, Queued

LEMMA TakeType ==
  ASSUME TypeOK, NEW r \in Requests, pc[r] \in {"new"} \cup Queued, Take(r),
         queue' \in Seq(Requests), UNCHANGED <<token, holder, paired>>
  PROVE  TypeOK'
<1>. DEFINE to == Turn(r)
<1>1. owner' \in [Conns -> Requests \cup {NoOne}] /\ pc' = [pc EXCEPT ![r] = to]
  BY TakeOne
<1>2. /\ r \in Refreshers => to \in {"select", "reading"}
      /\ r \in Others => to \in {"run", "store", "sweep"}
      /\ to = "run" => r \notin Writers \cup Deleters
      /\ to = "store" => r \in Writers
      /\ to = "sweep" => r \in Deleters
  BY TurnType
<1>. HIDE DEF to
<1>. QED BY <1>1, <1>2, RefreshPoolAssumption DEF TypeOK, Requests, Queued

LEMMA ArriveType ==
  ASSUME TypeOK, NEW r \in Requests, Arrive(r)
  PROVE  TypeOK'
<1>1. CASE Take(r) /\ UNCHANGED queue
  BY <1>1, TakeType DEF Arrive, TypeOK
<1>2. CASE Ask(r, "begin") /\ UNCHANGED owner
  <2>1. queue' \in Seq(Requests)
    BY <1>2, AskType DEF Queued
  <2>2. pc' = [pc EXCEPT ![r] = "begin"]
    BY <1>2 DEF Ask, Goto
  <2>. QED BY <1>2, <2>1, <2>2 DEF Arrive, TypeOK, Requests, Queued
<1>. QED BY <1>1, <1>2 DEF Arrive

LEMMA GrantType ==
  ASSUME TypeOK, NEW r \in Requests, Grant(r)
  PROVE  TypeOK'
<1>1. queue' \in Seq(Requests)
  BY HeadTailProperties DEF TypeOK, Grant
<1>. QED BY <1>1, TakeType DEF Grant

LEMMA StoreUserType ==
  ASSUME TypeOK, NEW r \in Requests, StoreUser(r)
  PROVE  TypeOK'
<1>1. CASE Answer(r)
  BY <1>1, AnswerType DEF StoreUser, TypeOK
<1>2. CASE ~Answer(r)
  <2>1. r \in Deleters /\ r \in Others /\ UserOf[r] \in Rows
    BY <1>2, RefreshPoolAssumption DEF StoreUser, Rows
  <2>2. /\ pc' = [pc EXCEPT ![r] = "sweep"]
        /\ holder' = [holder EXCEPT ![UserOf[r]] = r]
        /\ UNCHANGED <<owner, queue, token, paired>>
    BY <1>2 DEF StoreUser, Goto
  <2>. QED BY <2>1, <2>2, RefreshPoolAssumption DEF TypeOK, Requests, Queued
<1>. QED BY <1>1, <1>2

LEMMA ClaimType ==
  ASSUME TypeOK, NEW r \in Requests, Claim(r)
  PROVE  TypeOK'
<1>1. PICK t \in Tokens : holder' = [holder EXCEPT ![t] = r]
  BY DEF Claim, TokensOf
<1>2. holder' \in [Rows -> Requests \cup {NoOne}]
  BY <1>1 DEF TypeOK
<1>. QED BY <1>2 DEF Claim, TypeOK

LEMMA SweepType ==
  ASSUME TypeOK, NEW r \in Requests, Sweep(r)
  PROVE  TypeOK'
<1>1. token' \in [Tokens -> {"live", "expired", "gone"}]
  BY DEF Sweep, TypeOK
<1>. QED BY <1>1, AnswerType DEF Sweep, TypeOK

LEMMA SelectTokenType ==
  ASSUME TypeOK, NEW r \in Requests, SelectToken(r)
  PROVE  TypeOK'
<1>0. r \in Refreshers /\ TokenOf[r] \in Rows
  BY RefreshPoolAssumption DEF TypeOK, SelectToken, Requests, Rows
<1>1. CASE Answer(r)
  BY <1>1, AnswerType DEF SelectToken, TypeOK
<1>2. CASE ~Answer(r)
  <2>1. queue' \in Seq(Requests)
    BY <1>2, AskType DEF SelectToken, Queued
  <2>2. /\ pc' = [pc EXCEPT ![r] = "lookup"]
        /\ holder' = [holder EXCEPT ![TokenOf[r]] = r]
        /\ UNCHANGED <<owner, token, paired>>
    BY <1>2 DEF SelectToken, Ask, Goto
  <2>. QED BY <1>0, <2>1, <2>2, RefreshPoolAssumption
           DEF TypeOK, Requests, Queued
<1>. QED BY <1>1, <1>2

LEMMA LookupUserType ==
  ASSUME TypeOK, NEW r \in Requests, LookupUser(r)
  PROVE  TypeOK'
<1>1. CASE Answer(r)
  BY <1>1, AnswerType DEF LookupUser, TypeOK
<1>2. CASE ~Answer(r)
  <2>1. /\ owner' \in [Conns -> Requests \cup {NoOne}]
        /\ pc' = [pc EXCEPT ![r] = "rotate"]
        /\ UNCHANGED <<queue, token, holder, paired>>
    BY <1>2 DEF LookupUser, Goto, TypeOK
  <2>. QED BY <2>1, RefreshPoolAssumption DEF LookupUser, TypeOK, Requests, Queued
<1>. QED BY <1>1, <1>2

LEMMA RotateType ==
  ASSUME TypeOK, NEW r \in Requests, Rotate(r)
  PROVE  TypeOK'
<1>1. r \in Refreshers
  BY DEF Rotate, TypeOK, Requests
<1>2. paired' \subseteq Refreshers /\ token' \in [Tokens -> {"live", "expired", "gone"}]
  BY <1>1 DEF Rotate, TypeOK
<1>. QED BY <1>2, AnswerType DEF Rotate

LEMMA TypeStep ==
  ASSUME TypeOK, [Next]_vars
  PROVE  TypeOK'
<1>1. ASSUME NEW r \in Requests, Run(r) \/ Fail(r)
      PROVE  TypeOK'
  BY <1>1, AnswerType DEF Run, Fail, TypeOK
<1>2. CASE UNCHANGED vars
  BY <1>2 DEF vars, TypeOK
<1>. QED BY <1>1, <1>2, ArriveType, GrantType, StoreUserType, ClaimType, SweepType,
            SelectTokenType, LookupUserType, RotateType DEF Next, Step

\* Every variable keeps its type: the pool's queue holds requests, and no handler
\* gets to the statements of another.
THEOREM TypeCorrect == Spec => []TypeOK
<1>1. Init => TypeOK
  <2>1. <<>> \in Seq(Requests)
    OBVIOUS
  <2>. QED BY <2>1 DEF Init, TypeOK, Queued, Requests
<1>. QED BY <1>1, TypeStep, PTL DEF Spec

-----------------------------------------------------------------------------
(* What the steps of a request do *)

\* A step of r moves only r, and gives connections to r alone.
LEMMA Frame ==
  ASSUME TypeOK, NEW r \in Requests, Step(r) \/ Fail(r)
  PROVE  /\ \A q \in Requests \ {r} : pc'[q] = pc[q]
         /\ \A c \in Conns : owner'[c] # owner[c] =>
              \/ owner'[c] = NoOne
              \/ owner[c] = NoOne /\ owner'[c] = r /\ pc[r] \in {"new"} \cup Queued
         /\ pc'[r] = "done" => \A c \in Conns : owner'[c] # r
<1>0. r # NoOne
  BY RefreshPoolAssumption
<1>1. ASSUME Answer(r)
      PROVE  /\ \A q \in Requests \ {r} : pc'[q] = pc[q]
             /\ \A c \in Conns : owner'[c] # owner[c] => owner'[c] = NoOne
             /\ \A c \in Conns : owner'[c] # r
  BY <1>0, <1>1 DEF TypeOK, Answer, Leave, Goto
<1>2. CASE Run(r) \/ Sweep(r) \/ Rotate(r) \/ Fail(r)
  BY <1>1, <1>2 DEF Run, Sweep, Rotate, Fail
<1>3. ASSUME Take(r), pc[r] \in {"new"} \cup Queued
      PROVE  /\ \A q \in Requests \ {r} : pc'[q] = pc[q]
             /\ \A c \in Conns : owner'[c] # owner[c] =>
                  owner[c] = NoOne /\ owner'[c] = r
             /\ pc'[r] # "done"
  <2>1. PICK c \in Conns : owner[c] = NoOne /\ owner' = [owner EXCEPT ![c] = r]
    BY <1>3, TakeOne
  <2>2. pc' = [pc EXCEPT ![r] = Turn(r)] /\ Turn(r) # "done"
    BY <1>3, TakeOne, TurnType DEF Requests
  <2>. QED BY <2>1, <2>2 DEF TypeOK
<1>4. CASE Arrive(r) /\ ~Take(r)
  BY <1>4 DEF TypeOK, Arrive, Ask, Goto
<1>5. CASE Arrive(r) /\ Take(r)
  BY <1>3, <1>5 DEF Arrive
<1>6. CASE Grant(r)
  BY <1>3, <1>6 DEF Grant
<1>7. CASE StoreUser(r)
  BY <1>1, <1>7 DEF TypeOK, StoreUser, Goto
<1>8. CASE Claim(r)
  BY <1>8 DEF TypeOK, Claim
<1>9. CASE SelectToken(r)
  BY <1>1, <1>9 DEF TypeOK, SelectToken, Ask, Goto
<1>10. CASE LookupUser(r)
  BY <1>1, <1>10 DEF TypeOK, LookupUser, Goto
<1>. QED BY <1>2, <1>4, <1>5, <1>6, <1>7, <1>8, <1>9, <1>10 DEF Step

\* How r gets to each place.
LEMMA Moves ==
  ASSUME TypeOK, NEW r \in Requests, Step(r) \/ Fail(r)
  PROVE  /\ pc'[r] = "select" => pc[r] \in {"new", "begin"} /\ Take(r)
         /\ pc'[r] = "store" => pc[r] \in {"new", "begin"} /\ Take(r)
         /\ pc'[r] = "sweep" =>
              \/ pc[r] \in {"new", "begin"} /\ Take(r)
              \/ pc[r] \in {"store", "sweep"} /\ owner' = owner
         /\ pc'[r] = "lookup" => SelectToken(r) /\ pc[r] = "select" /\ owner' = owner
         /\ pc'[r] = "reading" => Grant(r) /\ pc[r] = "lookup"
         /\ pc'[r] = "rotate" => LookupUser(r) /\ pc[r] = "reading"
         /\ pc'[r] \in {"new", "begin"} => Arrive(r) /\ pc[r] = "new" /\ owner' = owner
<1>1. ASSUME Answer(r)
      PROVE  pc'[r] = "done"
  BY <1>1 DEF TypeOK, Answer, Goto
<1>2. CASE Run(r) \/ Sweep(r) \/ Rotate(r) \/ Fail(r)
  BY <1>1, <1>2 DEF Run, Sweep, Rotate, Fail
<1>3. ASSUME Take(r), pc[r] \in {"new"} \cup Queued
      PROVE  /\ pc'[r] \in {"run", "select", "store", "sweep", "reading"}
             /\ pc'[r] = "reading" <=> pc[r] = "lookup"
  BY <1>3, TakeOne DEF TypeOK, Turn, Queued
<1>4. CASE Arrive(r) /\ ~Take(r)
  BY <1>4 DEF TypeOK, Arrive, Ask, Goto
<1>5. CASE Arrive(r) /\ Take(r)
  BY <1>3, <1>5 DEF Arrive
<1>6. CASE Grant(r)
  BY <1>3, <1>6 DEF Grant, Queued
<1>7. CASE StoreUser(r)
  BY <1>1, <1>7 DEF TypeOK, StoreUser, Goto
<1>8. CASE Claim(r)
  BY <1>8 DEF TypeOK, Claim
<1>9. CASE SelectToken(r)
  BY <1>1, <1>9 DEF TypeOK, SelectToken, Ask, Goto
<1>10. CASE LookupUser(r)
  BY <1>1, <1>10 DEF TypeOK, LookupUser, Goto
<1>. QED BY <1>2, <1>4, <1>5, <1>6, <1>7, <1>8, <1>9, <1>10 DEF Step

LEMMA OwnersBusyStep ==
  ASSUME TypeOK, OwnersBusy, NEW r \in Requests, Step(r) \/ Fail(r)
  PROVE  OwnersBusy'
<1> SUFFICES ASSUME NEW c \in Conns, owner'[c] # NoOne
             PROVE  pc'[owner'[c]] \notin {"new", "begin", "done"}
  BY DEF OwnersBusy
<1>0. owner'[c] \in Requests
  BY TypeStep DEF Next, TypeOK
<1>1. CASE owner'[c] # r
  BY <1>0, <1>1, Frame DEF OwnersBusy
<1>2. CASE owner'[c] = r
  <2>1. pc'[r] # "done"
    BY <1>2, Frame
  <2>2. CASE pc'[r] \in {"new", "begin"}
    <3>1. pc[r] = "new" /\ owner[c] = r
      BY <1>2, <2>2, Moves
    <3>. QED BY <1>0, <1>2, <3>1, RefreshPoolAssumption DEF OwnersBusy
  <2>. QED BY <1>2, <2>1, <2>2
<1>. QED BY <1>1, <1>2

LEMMA OneEachStep ==
  ASSUME TypeOK, OwnersBusy, OneEach, NEW r \in Requests, Step(r) \/ Fail(r)
  PROVE  OneEach'
<1> SUFFICES ASSUME NEW c \in Conns, NEW d \in Conns, owner'[c] # NoOne,
                    owner'[c] = owner'[d], pc'[owner'[c]] \in Waiting
             PROVE  c = d
  BY DEF OneEach, Waiting
<1>0. owner'[c] \in Requests
  BY TypeStep DEF Next, TypeOK
<1>1. CASE owner'[c] # r
  BY <1>0, <1>1, Frame DEF OneEach
<1>2. CASE owner'[c] = r /\ pc[r] \in {"select", "store", "sweep"} /\ owner' = owner
  BY <1>2 DEF OneEach, Waiting
<1>3. CASE owner'[c] = r /\ pc[r] \in {"new", "begin"} /\ Take(r)
  <2>1. owner[c] # r /\ owner[d] # r
    BY <1>3, RefreshPoolAssumption DEF OwnersBusy
  <2>2. PICK e \in Conns : owner' = [owner EXCEPT ![e] = r]
    BY <1>3, TakeOne
  <2>3. \A k \in Conns : k # e => owner'[k] = owner[k]
    BY <2>2 DEF TypeOK
  <2>. QED BY <1>3, <2>1, <2>3
<1>. QED BY <1>1, <1>2, <1>3, Moves DEF Waiting

LEMMA LockedLiveStep ==
  ASSUME TypeOK, LockedLive, NEW r \in Requests, Step(r) \/ Fail(r)
  PROVE  LockedLive'
<1> SUFFICES ASSUME NEW q \in Refreshers, pc'[q] \in {"lookup", "reading", "rotate"}
             PROVE  holder'[TokenOf[q]] = q /\ token'[TokenOf[q]] = "live"
  BY DEF LockedLive
<1>. DEFINE key == TokenOf[q]
<1>0. q \in Requests /\ key \in Tokens /\ key \in Rows
  BY RefreshPoolAssumption DEF Requests, Rows
<1>1. CASE q # r
  <2>0. holder[key] = q /\ token[key] = "live"
    BY <1>0, <1>1, Frame DEF LockedLive
  <2>1. Answer(r) => holder'[key] = q
    BY <1>0, <1>1, <2>0 DEF Answer, Leave, TypeOK
  <2>2. ASSUME NEW x \in Rows, holder[x] = NoOne, holder' = [holder EXCEPT ![x] = r]
        PROVE  holder'[key] = q
    <3>1. x # key
      BY <1>0, <2>0, <2>2, RefreshPoolAssumption
    <3>. QED BY <1>0, <2>0, <2>2, <3>1 DEF TypeOK
  <2>3. CASE Rotate(r)
    <3>1. r \in Refreshers /\ TokenOf[r] # key
      BY <1>1, <2>0, <2>3 DEF Rotate, TypeOK, Requests, LockedLive
    <3>2. token'[key] = token[key]
      BY <1>0, <2>3, <3>1 DEF Rotate, TypeOK
    <3>. QED BY <2>0, <2>1, <2>3, <3>2 DEF Rotate
  <2>4. CASE Sweep(r)
    <3>1. key \notin TokensOf(r)
      BY <1>1, <2>0, <2>4 DEF Sweep
    <3>2. token'[key] = token[key]
      BY <1>0, <2>4, <3>1 DEF Sweep
    <3>. QED BY <2>0, <2>1, <2>4, <3>2 DEF Sweep
  <2>5. CASE SelectToken(r)
    <3>1. TokenOf[r] \in Rows /\ holder[TokenOf[r]] = NoOne
      BY <2>5, RefreshPoolAssumption DEF SelectToken, RowFree, TypeOK, Requests, Rows
    <3>. QED BY <2>0, <2>1, <2>2, <2>5, <3>1 DEF SelectToken
  <2>6. CASE StoreUser(r)
    <3>1. CASE ~Answer(r)
      <4>1. UserOf[r] \in Rows /\ holder[UserOf[r]] = NoOne
        BY <2>6, <3>1, RefreshPoolAssumption DEF StoreUser, RowFree, Rows
      <4>. QED BY <2>0, <2>2, <2>6, <3>1, <4>1 DEF StoreUser
    <3>. QED BY <2>0, <2>1, <2>6, <3>1 DEF StoreUser
  <2>7. CASE Claim(r)
    <3>1. PICK t \in Rows : holder[t] = NoOne /\ holder' = [holder EXCEPT ![t] = r]
      BY <2>7 DEF Claim, TokensOf, RowFree, Rows
    <3>. QED BY <2>0, <2>2, <2>7, <3>1 DEF Claim
  <2>8. CASE Run(r) \/ Fail(r) \/ LookupUser(r)
    BY <2>0, <2>1, <2>8 DEF Run, Fail, LookupUser
  <2>9. CASE Arrive(r) \/ Grant(r)
    BY <2>0, <2>9 DEF Arrive, Grant
  <2>. QED BY <2>3, <2>4, <2>5, <2>6, <2>7, <2>8, <2>9 DEF Step
<1>2. CASE q = r /\ pc'[r] = "lookup"
  <2>1. SelectToken(r) /\ ~Answer(r)
    BY <1>2, Moves DEF Answer, Goto, TypeOK
  <2>. QED BY <1>0, <1>2, <2>1 DEF SelectToken, TypeOK
<1>3. CASE q = r /\ pc'[r] = "reading"
  BY <1>3, Moves DEF LockedLive, Grant
<1>4. CASE q = r /\ pc'[r] = "rotate"
  <2>1. LookupUser(r) /\ pc[r] = "reading" /\ ~Answer(r)
    BY <1>4, Moves DEF Answer, Goto, TypeOK
  <2>. QED BY <1>4, <2>1 DEF LookupUser, LockedLive
<1>. QED BY <1>1, <1>2, <1>3, <1>4

LEMMA PairStep ==
  ASSUME TypeOK, LockedLive, PairMeansGone, RedeemedOnce,
         NEW r \in Requests, Step(r) \/ Fail(r)
  PROVE  PairMeansGone' /\ RedeemedOnce'
<1>0. \A q \in paired : TokenOf[q] \in Tokens
  BY RefreshPoolAssumption DEF TypeOK
<1>1. CASE Rotate(r)
  <2>1. r \in Refreshers /\ TokenOf[r] \in Tokens
    BY <1>1, RefreshPoolAssumption DEF Rotate, TypeOK, Requests
  <2>2. token[TokenOf[r]] = "live" /\ token' = [token EXCEPT ![TokenOf[r]] = "gone"]
    BY <1>1, <2>1 DEF Rotate, LockedLive
  <2>3. \A q \in paired : token[TokenOf[q]] = "gone" /\ TokenOf[q] # TokenOf[r]
    BY <2>2 DEF PairMeansGone
  <2>4. \A q \in paired \cup {r} : token'[TokenOf[q]] = "gone"
    BY <1>0, <2>1, <2>2, <2>3 DEF TypeOK
  <2>5. \A p, q \in paired \cup {r} : TokenOf[p] = TokenOf[q] => p = q
    BY <2>3 DEF RedeemedOnce
  <2>6. paired' \subseteq paired \cup {r}
    BY <1>1 DEF Rotate
  <2>. QED BY <2>4, <2>5, <2>6 DEF PairMeansGone, RedeemedOnce
<1>2. CASE Sweep(r)
  <2>1. \A t \in Tokens : token[t] = "gone" => token'[t] = "gone"
    BY <1>2 DEF Sweep
  <2>. QED BY <1>0, <1>2, <2>1 DEF Sweep, PairMeansGone, RedeemedOnce
<1>3. CASE ~Rotate(r) /\ ~Sweep(r)
  <2>1. UNCHANGED <<token, paired>>
    BY <1>3 DEF Step, Arrive, Grant, Run, StoreUser, Claim, SelectToken, LookupUser, Fail
  <2>. QED BY <2>1 DEF PairMeansGone, RedeemedOnce
<1>. QED BY <1>1, <1>2, <1>3

-----------------------------------------------------------------------------
(* The theorems *)

LEMMA Invariance == Spec => []Inv
<1>1. Init => Inv
  <2>1. Init => TypeOK
    <3>1. <<>> \in Seq(Requests)
      OBVIOUS
    <3>. QED BY <3>1 DEF Init, TypeOK, Queued, Requests
  <2>2. Init => OwnersBusy /\ OneEach
    BY DEF Init, OwnersBusy, OneEach
  <2>3. Init => LockedLive /\ PairMeansGone /\ RedeemedOnce
    BY DEF Init, LockedLive, PairMeansGone, RedeemedOnce, Requests
  <2>. QED BY <2>1, <2>2, <2>3 DEF Inv
<1>2. Inv /\ [Next]_vars => Inv'
  <2> SUFFICES ASSUME Inv, [Next]_vars
               PROVE  Inv'
    OBVIOUS
  <2>1. TypeOK'
    BY TypeStep DEF Inv
  <2>2. ASSUME NEW r \in Requests, Step(r) \/ Fail(r)
        PROVE  Inv'
    BY <2>1, <2>2, OwnersBusyStep, OneEachStep, LockedLiveStep, PairStep DEF Inv
  <2>3. CASE UNCHANGED vars
    BY <2>1, <2>3 DEF vars, Inv, OwnersBusy, OneEach, LockedLive, PairMeansGone,
                      RedeemedOnce
  <2>. QED BY <2>2, <2>3 DEF Next
<1>. QED BY <1>1, <1>2, PTL DEF Spec

\* However many requests present a refresh token, at most one is answered with a
\* new pair: the others find the row gone once they get its lock.
THEOREM RedeemedOnceHolds == Spec => []RedeemedOnce
<1>1. Inv => RedeemedOnce
  BY DEF Inv
<1>. QED BY <1>1, Invariance, PTL

Waiters == Refreshers \cup Writers \cup Deleters

\* Without anybody who can go on, each connection belongs to a waiter of its own.
LEMMA StuckMeansOwnWaiters ==
  ASSUME Inv, Exhausted, \A c \in Conns : ~CanGoOn(owner[c])
  PROVE  owner \in Injection(Conns, Waiters)
<1>1. ASSUME NEW c \in Conns
      PROVE  owner[c] \in Waiters /\ pc[owner[c]] \in Waiting
  <2>1. owner[c] \in Requests
    BY DEF Inv, TypeOK, Exhausted
  <2>2. pc[owner[c]] \notin {"new", "begin", "done", "run", "reading", "rotate"}
    BY DEF Inv, OwnersBusy, CanGoOn, Exhausted
  <2>3. pc[owner[c]] \in Waiting
    BY <2>1, <2>2 DEF Inv, TypeOK, Queued, Waiting
  <2>. QED BY <2>1, <2>3 DEF Inv, TypeOK, Requests, Waiters, Waiting
<1>2. \A c, d \in Conns : owner[c] = owner[d] => c = d
  BY <1>1 DEF Inv, OneEach, Exhausted
<1>3. owner \in [Conns -> Waiters]
  BY <1>1 DEF Inv, TypeOK
<1>. QED BY <1>2, <1>3 DEF Injection, IsInjective

\* With fewer requests at a time that may wait for a row than connections, an
\* exhausted pool always has an owner that can go on, whatever the requests do
\* that only share the pool.  ServerExhausted: with as many it may have none.
THEOREM NoDeadlock ==
  ASSUME Cardinality(Refreshers \cup Writers \cup Deleters) < Cardinality(Conns)
  PROVE  Spec => []NoHoldAndWait
<1>1. ASSUME Inv
      PROVE  NoHoldAndWait
  <2> SUFFICES ASSUME Exhausted, \A c \in Conns : ~CanGoOn(owner[c])
               PROVE  FALSE
    BY DEF NoHoldAndWait
  <2>1. owner \in Injection(Conns, Waiters)
    BY <1>1, StuckMeansOwnWaiters
  <2>2. IsFiniteSet(Conns) /\ IsFiniteSet(Waiters)
    BY RefreshPoolAssumption, FS_Union DEF Waiters
  <2>3. Cardinality(Conns) <= Cardinality(Waiters)
    BY <2>1, <2>2, FS_Injection
  <2>4. Cardinality(Conns) \in Nat /\ Cardinality(Waiters) \in Nat
    BY <2>2, FS_CardinalityType
  <2>. QED BY <2>3, <2>4 DEF Waiters
<1>. QED BY <1>1, Invariance, PTL
=============================================================================
