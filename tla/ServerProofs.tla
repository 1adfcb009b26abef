---------------------------- MODULE ServerProofs ----------------------------
(***************************************************************************)
(* What holds of the process for any number of requests, connections,      *)
(* tokens, workers and jobs.  Whatever the shutdown does, the pool takes   *)
(* only the steps of RefreshPool, so that RefreshPool's theorems hold of   *)
(* the process; the WaitGroup counts the goroutines exactly; and a         *)
(* transaction always owns a connection, for which Close waits.            *)
(***************************************************************************)
EXTENDS Server, RefreshPoolProofs

-----------------------------------------------------------------------------
(* The pool within the process *)

LEMMA PoolStep ==
  ASSUME [ServerNext]_serverVars
  PROVE  [Next]_vars
<1>1. ASSUME NEW r \in Requests, Serve(r) \/ Break(r) \/ Refuse(r)
      PROVE  Next
  BY <1>1 DEF Serve, Break, Refuse, Next, Step
<1>2. CASE UNCHANGED serverVars
  BY <1>2 DEF serverVars
<1>3. ASSUME NEW w \in Workers, WorkOn(w)
      PROVE  UNCHANGED vars
  BY <1>3 DEF WorkOn
<1>4. ASSUME NEW job \in Jobs, HandOver(job)
      PROVE  UNCHANGED vars
  BY <1>4 DEF HandOver
<1>5. CASE Signal \/ ShutDown \/ Drain \/ Close \/ ListenFails
  BY <1>5 DEF Signal, ShutDown, Drain, Close, ListenFails
<1>. QED BY <1>1, <1>2, <1>3, <1>4, <1>5 DEF ServerNext

\* The process with its shutdown and its workers implements the pool without
\* them: a signal, a timeout or a closed pool adds no behaviour to a refresh.
THEOREM ServerImplementsPool == ServerSpec => Spec
<1>1. ServerInit => Init
  BY DEF ServerInit
<1>2. [ServerNext]_serverVars => [Next]_vars
  BY PoolStep
<1>. QED BY <1>1, <1>2, PTL DEF ServerSpec, Spec

\* A refresh token buys one pair, in a process that is shut down too.
THEOREM ServerRedeemsOnce == ServerSpec => []RedeemedOnce
BY ServerImplementsPool, RedeemedOnceHolds, PTL

\* With fewer requests that may wait for a row than connections an exhausted pool
\* has an owner that can go on, in every phase of the process.
THEOREM ServerNoDeadlock ==
  ASSUME Cardinality(Refreshers \cup Writers \cup Deleters) < Cardinality(Conns)
  PROVE  ServerSpec => []NoHoldAndWait
BY ServerImplementsPool, NoDeadlock, PTL

-----------------------------------------------------------------------------
(* Types *)

LEMMA InitWorkerType ==
  ASSUME ServerInit
  PROVE  WorkerTypeOK
<1>1. IsFiniteSet(Workers) /\ Cardinality(Workers) \in Nat
  BY WorkerAssumption, FS_CardinalityType
<1>2. <<>> \in Seq(Jobs) /\ Len(<<>>) = 0
  BY EmptySeq
<1>3. jobs \in Seq(Jobs) /\ Len(jobs) <= BufferSize
  <2>1. jobs = <<>>
    BY DEF ServerInit, WorkerInit
  <2>. QED BY <1>2, <2>1, WorkerAssumption
<1>4. wg \in Int
  BY <1>1 DEF ServerInit, WorkerInit
<1>. QED BY <1>3, <1>4 DEF ServerInit, WorkerInit, WorkerTypeOK

LEMMA WorkerTypeStep ==
  ASSUME WorkerTypeOK, [ServerNext]_serverVars
  PROVE  WorkerTypeOK'
<1>1. ASSUME NEW r \in Requests, Serve(r) \/ Break(r) \/ Refuse(r)
      PROVE  WorkerTypeOK'
  BY <1>1 DEF Serve, Break, Refuse, WorkerTypeOK, workerVars
<1>2. ASSUME NEW w \in Workers, WorkOn(w)
      PROVE  WorkerTypeOK'
  <2>1. CASE TakeJob(w)
    <3>1. Tail(jobs) \in Seq(Jobs) /\ Len(Tail(jobs)) = Len(jobs) - 1
      BY <2>1, HeadTailProperties DEF TakeJob, WorkerTypeOK
    <3>2. Len(jobs) \in Nat
      BY LenProperties DEF WorkerTypeOK
    <3>. QED BY <2>1, <3>1, <3>2, WorkerAssumption DEF TakeJob, Goes, WorkerTypeOK
  <2>2. CASE StopWorker(w) \/ FinishJob(w) \/ Restart(w) \/ LeaveGroup(w)
    BY <2>2 DEF StopWorker, FinishJob, Restart, LeaveGroup, Goes, WorkerTypeOK
  <2>. QED BY <1>2, <2>1, <2>2 DEF WorkOn, Work
<1>3. ASSUME NEW job \in Jobs, HandOver(job)
      PROVE  WorkerTypeOK'
  <2>1. CASE Len(jobs) < BufferSize
    <3>1. Append(jobs, job) \in Seq(Jobs) /\ Len(Append(jobs, job)) = Len(jobs) + 1
      BY AppendProperties DEF WorkerTypeOK
    <3>2. Len(jobs) \in Nat
      BY LenProperties DEF WorkerTypeOK
    <3>. QED BY <1>3, <2>1, <3>1, <3>2, WorkerAssumption
             DEF HandOver, Dispatch, WorkerTypeOK
  <2>2. CASE ~(Len(jobs) < BufferSize)
    BY <1>3, <2>2 DEF HandOver, Dispatch, WorkerTypeOK
  <2>. QED BY <2>1, <2>2
<1>4. CASE Signal \/ ShutDown \/ Drain \/ Close \/ ListenFails
  BY <1>4 DEF Signal, Cancel, ShutDown, Drain, Close, ListenFails, WorkerTypeOK, workerVars
<1>5. CASE UNCHANGED serverVars
  BY <1>5 DEF serverVars, workerVars, WorkerTypeOK
<1>. QED BY <1>1, <1>2, <1>3, <1>4, <1>5 DEF ServerNext

LEMMA MainTypeStep ==
  ASSUME phase \in Phases, drained \in BOOLEAN, [ServerNext]_serverVars
  PROVE  phase' \in Phases /\ drained' \in BOOLEAN
<1>1. ASSUME NEW r \in Requests, Serve(r) \/ Break(r) \/ Refuse(r)
      PROVE  phase' = phase /\ drained' = drained
  BY <1>1 DEF Serve, Break, Refuse
<1>2. ASSUME NEW w \in Workers, WorkOn(w)
      PROVE  phase' = phase /\ drained' = drained
  BY <1>2 DEF WorkOn
<1>3. ASSUME NEW job \in Jobs, HandOver(job)
      PROVE  phase' = phase /\ drained' = drained
  BY <1>3 DEF HandOver
<1>4. CASE Signal \/ ShutDown \/ Drain \/ Close \/ ListenFails
  BY <1>4 DEF Signal, ShutDown, Drain, Close, ListenFails, Advance, Phases
<1>5. CASE UNCHANGED serverVars
  BY <1>5 DEF serverVars
<1>. QED BY <1>1, <1>2, <1>3, <1>4, <1>5 DEF ServerNext

\* Type correctness of requests, pool, workers and main.
THEOREM ServerTypeCorrect == ServerSpec => []ServerTypeOK
<1>1. ServerSpec => []TypeOK
  BY ServerImplementsPool, TypeCorrect, PTL
<1>. DEFINE Types == WorkerTypeOK /\ phase \in Phases /\ drained \in BOOLEAN
<1>2. ServerInit => Types
  BY InitWorkerType DEF ServerInit, Phases
<1>3. Types /\ [ServerNext]_serverVars => Types'
  BY WorkerTypeStep, MainTypeStep
<1>4. TypeOK /\ Types => ServerTypeOK
  BY DEF ServerTypeOK
<1>. HIDE DEF Types
<1>. QED BY <1>1, <1>2, <1>3, <1>4, PTL DEF ServerSpec

-----------------------------------------------------------------------------
(* Drain counts right *)

\* The goroutines that were started and have not stopped, and those that were
\* replaced and are still in the WaitGroup.
Members == {w \in Workers : worker[w] # "stopped"}
Leavers == {p \in Workers \X Nat : p[2] \in 1 .. leaving[p[1]]}

Counted ==
  /\ IsFiniteSet(Members)
  /\ IsFiniteSet(Leavers)
  /\ wg = Cardinality(Members) + Cardinality(Leavers)

DrainInv ==
  /\ WorkerTypeOK
  /\ Counted
  /\ drained => Members = {} /\ Leavers = {}

LEMMA StopCounts ==
  ASSUME WorkerTypeOK, Counted, NEW w \in Workers, StopWorker(w)
  PROVE  Counted'
<1>1. w \in Members
  BY DEF StopWorker, Goes, Members
<1>2. Members' = Members \ {w}
  BY DEF StopWorker, Goes, Members, WorkerTypeOK
<1>3. Leavers' = Leavers
  BY DEF StopWorker, Leavers
<1>4. IsFiniteSet(Members \ {w}) /\ Cardinality(Members \ {w}) = Cardinality(Members) - 1
  BY <1>1, FS_RemoveElement DEF Counted
<1>5. Cardinality(Members) \in Nat /\ Cardinality(Leavers) \in Nat
  BY FS_CardinalityType DEF Counted
<1>6. wg' = wg - 1
  BY DEF StopWorker
<1>. QED BY <1>2, <1>3, <1>4, <1>5, <1>6 DEF Counted

LEMMA RestartCounts ==
  ASSUME WorkerTypeOK, Counted, NEW w \in Workers, Restart(w)
  PROVE  Counted'
<1>. DEFINE left == <<w, leaving[w] + 1>>
<1>0. leaving[w] \in Nat
  BY DEF WorkerTypeOK
<1>1. Members' = Members
  BY DEF Restart, Goes, Members, WorkerTypeOK
<1>2. left \in Workers \X Nat /\ left \notin Leavers
  BY <1>0 DEF Leavers
<1>3. Leavers' = Leavers \cup {left}
  <2>1. /\ leaving'[w] = leaving[w] + 1
        /\ \A v \in Workers \ {w} : leaving'[v] = leaving[v]
    BY DEF Restart, WorkerTypeOK
  <2>2. ASSUME NEW v \in Workers, NEW n \in Nat
        PROVE  n \in 1 .. leaving'[v] <=> n \in 1 .. leaving[v] \/ <<v, n>> = left
    <3>1. CASE v = w
      BY <1>0, <2>1, <3>1
    <3>2. CASE v # w
      BY <2>1, <3>2
    <3>. QED BY <3>1, <3>2
  <2>. QED BY <1>2, <2>2 DEF Leavers
<1>4. IsFiniteSet(Leavers \cup {left}) /\ Cardinality(Leavers \cup {left}) = Cardinality(Leavers) + 1
  BY <1>2, FS_AddElement DEF Counted
<1>5. Cardinality(Members) \in Nat /\ Cardinality(Leavers) \in Nat
  BY FS_CardinalityType DEF Counted
<1>6. wg' = wg + 1
  BY DEF Restart
<1>. HIDE DEF left
<1>. QED BY <1>1, <1>3, <1>4, <1>5, <1>6 DEF Counted

LEMMA LeaveCounts ==
  ASSUME WorkerTypeOK, Counted, NEW w \in Workers, LeaveGroup(w)
  PROVE  Counted'
<1>. DEFINE left == <<w, leaving[w]>>
<1>0. leaving[w] \in Nat /\ leaving[w] > 0
  BY DEF LeaveGroup, WorkerTypeOK
<1>1. Members' = Members
  BY DEF LeaveGroup, Members
<1>2. left \in Leavers
  BY <1>0 DEF Leavers
<1>3. Leavers' = Leavers \ {left}
  <2>1. /\ leaving'[w] = leaving[w] - 1
        /\ \A v \in Workers \ {w} : leaving'[v] = leaving[v]
    BY DEF LeaveGroup, WorkerTypeOK
  <2>2. ASSUME NEW v \in Workers, NEW n \in Nat
        PROVE  n \in 1 .. leaving'[v] <=> n \in 1 .. leaving[v] /\ <<v, n>> # left
    <3>1. CASE v = w
      BY <1>0, <2>1, <3>1
    <3>2. CASE v # w
      BY <2>1, <3>2
    <3>. QED BY <3>1, <3>2
  <2>. QED BY <2>2 DEF Leavers
<1>4. IsFiniteSet(Leavers \ {left}) /\ Cardinality(Leavers \ {left}) = Cardinality(Leavers) - 1
  BY <1>2, FS_RemoveElement DEF Counted
<1>5. Cardinality(Members) \in Nat /\ Cardinality(Leavers) \in Nat
  BY FS_CardinalityType DEF Counted
<1>6. wg' = wg - 1
  BY DEF LeaveGroup
<1>. HIDE DEF left
<1>. QED BY <1>1, <1>3, <1>4, <1>5, <1>6 DEF Counted

LEMMA DrainStep ==
  ASSUME DrainInv, [ServerNext]_serverVars
  PROVE  DrainInv'
<1>0. WorkerTypeOK'
  BY WorkerTypeStep DEF DrainInv
<1>1. CASE /\ UNCHANGED <<worker, leaving, wg, drained>>
  BY <1>0, <1>1 DEF DrainInv, Counted, Members, Leavers
<1>2. ASSUME NEW r \in Requests, Serve(r) \/ Break(r) \/ Refuse(r)
      PROVE  UNCHANGED <<worker, leaving, wg, drained>>
  BY <1>2 DEF Serve, Break, Refuse, workerVars
<1>3. ASSUME NEW job \in Jobs, HandOver(job)
      PROVE  UNCHANGED <<worker, leaving, wg, drained>>
  BY <1>3 DEF HandOver, Dispatch
<1>4. CASE Signal \/ ShutDown \/ Close \/ ListenFails
  BY <1>1, <1>4 DEF Signal, Cancel, ShutDown, Close, ListenFails, workerVars
<1>5. CASE Drain
  <2>1. UNCHANGED <<worker, leaving, wg>>
    BY <1>5 DEF Drain, workerVars
  <2>2. Cardinality(Members) \in Nat /\ Cardinality(Leavers) \in Nat
    BY FS_CardinalityType DEF DrainInv, Counted
  <2>3. ASSUME Idle
        PROVE  Members = {} /\ Leavers = {}
    <3>1. Cardinality(Members) = 0 /\ Cardinality(Leavers) = 0
      BY <2>2, <2>3 DEF Idle, DrainInv, Counted
    <3>. QED BY <3>1, FS_EmptySet DEF DrainInv, Counted
  <2>4. drained' => drained \/ Idle
    BY <1>5 DEF Drain
  <2>. QED BY <1>0, <2>1, <2>3, <2>4 DEF DrainInv, Counted, Members, Leavers
<1>6. ASSUME NEW w \in Workers, WorkOn(w)
      PROVE  DrainInv'
  <2>0. drained' = drained
    BY <1>6 DEF WorkOn
  <2>1. Counted'
    <3>1. CASE TakeJob(w) \/ FinishJob(w)
      <4>1. Members' = Members /\ Leavers' = Leavers /\ wg' = wg
        BY <3>1 DEF TakeJob, FinishJob, Goes, Members, Leavers, DrainInv, WorkerTypeOK
      <4>. QED BY <4>1 DEF DrainInv, Counted
    <3>. QED BY <1>6, <3>1, StopCounts, RestartCounts, LeaveCounts DEF DrainInv, WorkOn, Work
  <2>2. ASSUME Members = {}, Leavers = {}
        PROVE  FALSE
    <3>1. worker[w] = "stopped"
      BY <2>2 DEF Members
    <3>2. LeaveGroup(w)
      BY <1>6, <3>1 DEF WorkOn, Work, TakeJob, StopWorker, FinishJob, Restart, Goes
    <3>3. leaving[w] \in Nat /\ leaving[w] > 0
      BY <3>2 DEF LeaveGroup, DrainInv, WorkerTypeOK
    <3>4. <<w, leaving[w]>> \in Leavers
      BY <3>3 DEF Leavers
    <3>. QED BY <2>2, <3>4
  <2>. QED BY <1>0, <2>0, <2>1, <2>2 DEF DrainInv
<1>7. CASE UNCHANGED serverVars
  BY <1>1, <1>7 DEF serverVars, workerVars
<1>. QED BY <1>1, <1>2, <1>3, <1>4, <1>5, <1>6, <1>7 DEF ServerNext

\* When Drain says that the workers have stopped they have, and no job is at
\* work then or later, for any number of panics and replacements.
THEOREM DrainCompleteHolds == ServerSpec => []DrainComplete
<1>1. ServerInit => WorkerTypeOK
  BY InitWorkerType
<1>2. ASSUME ServerInit
      PROVE  Counted
  <2>1. Members = Workers
    BY <1>2 DEF ServerInit, WorkerInit, Members
  <2>2. Leavers = {}
    BY <1>2 DEF ServerInit, WorkerInit, Leavers
  <2>3. Cardinality(Workers) \in Nat
    BY WorkerAssumption, FS_CardinalityType
  <2>. QED BY <1>2, <2>1, <2>2, <2>3, WorkerAssumption, FS_EmptySet
           DEF ServerInit, WorkerInit, Counted
<1>3. ServerInit => DrainInv
  BY <1>1, <1>2 DEF DrainInv, ServerInit
<1>4. DrainInv => DrainComplete
  BY DEF DrainInv, DrainComplete, Members
<1>. QED BY <1>3, <1>4, DrainStep, PTL DEF ServerSpec

-----------------------------------------------------------------------------
(* main returns outside every transaction *)

\* Whoever is between the statements of a transaction owns a connection, and two
\* while it reads its user; nobody else has a row locked.
Owns(r) ==
  /\ pc[r] \in {"run", "store", "sweep", "select", "lookup", "rotate"} =>
       \E c \in Conns : owner[c] = r
  /\ pc[r] = "reading" => \E c, d \in Conns : c # d /\ owner[c] = r /\ owner[d] = r

Locking == {"lookup", "reading", "rotate", "sweep"}

Lockers == \A x \in Rows : holder[x] # NoOne => pc[holder[x]] \in Locking

ExitInv ==
  /\ TypeOK
  /\ \A r \in Requests : Owns(r)
  /\ Lockers
  /\ ExitClean

\* What a step of one request does to the connections of the others.
LEMMA OthersKeepTheirs ==
  ASSUME TypeOK, NEW r \in Requests, Owns(r), Step(r) \/ Fail(r),
         NEW q \in Requests \ {r}, NEW c \in Conns, owner[c] = q
  PROVE  owner'[c] = q
<1>0. q # NoOne /\ q # r
  BY RefreshPoolAssumption
<1>1. Answer(r) => owner'[c] = q
  BY <1>0 DEF Answer, Leave, TypeOK
<1>2. ASSUME Take(r)
      PROVE  owner'[c] = q
  <2>1. PICK e \in Conns : owner[e] = NoOne /\ owner' = [owner EXCEPT ![e] = r]
    BY <1>2, TakeOne
  <2>. QED BY <1>0, <2>1 DEF TypeOK
<1>3. CASE LookupUser(r)
  <2>1. ConnOf(r) \in Conns /\ owner[ConnOf(r)] = r
    BY <1>3, ConnOfOwner DEF LookupUser, Owns
  <2>2. owner' = [owner EXCEPT ![ConnOf(r)] = NoOne] => owner'[c] = q
    BY <1>0, <2>1 DEF TypeOK
  <2>. QED BY <1>1, <1>3, <2>2 DEF LookupUser
<1>. QED BY <1>1, <1>2, <1>3 DEF Step, Arrive, Grant, Run, StoreUser, Claim, Sweep,
                                 SelectToken, Rotate, Fail

LEMMA OwnsStep ==
  ASSUME TypeOK, NEW r \in Requests, Owns(r), Step(r) \/ Fail(r)
  PROVE  Owns(r)'
<1>0. r # NoOne
  BY RefreshPoolAssumption
<1>1. Answer(r) => Owns(r)'
  BY DEF TypeOK, Answer, Goto, Owns
<1>2. ASSUME Take(r), pc[r] \in {"new"} \cup Queued
      PROVE  Owns(r)'
  <2>1. PICK c \in Conns : owner[c] = NoOne /\ owner' = [owner EXCEPT ![c] = r]
    BY <1>2, TakeOne
  <2>2. owner'[c] = r /\ \A d \in Conns : owner[d] = r => d # c /\ owner'[d] = r
    BY <1>0, <2>1 DEF TypeOK
  <2>3. pc'[r] = "reading" => pc[r] = "lookup"
    BY <1>2, TakeOne DEF TypeOK, Turn, Queued
  <2>4. CASE pc[r] = "lookup"
    <3>1. PICK d \in Conns : owner[d] = r
      BY <2>4 DEF Owns
    <3>2. d # c /\ owner'[d] = r
      BY <2>2, <3>1
    <3>. QED BY <2>2, <3>2 DEF Owns
  <2>5. CASE pc[r] # "lookup"
    BY <2>2, <2>3, <2>5 DEF Owns
  <2>. QED BY <2>4, <2>5
<1>3. CASE Arrive(r) /\ ~Take(r)
  BY <1>3 DEF TypeOK, Arrive, Ask, Goto, Owns
<1>4. CASE Arrive(r) /\ Take(r)
  BY <1>2, <1>4 DEF Arrive
<1>5. CASE Grant(r)
  BY <1>2, <1>5 DEF Grant
<1>6. CASE SelectToken(r)
  BY <1>1, <1>6 DEF TypeOK, SelectToken, Ask, Goto, Owns
<1>7. CASE StoreUser(r)
  BY <1>1, <1>7 DEF TypeOK, StoreUser, Goto, Owns
<1>8. CASE Claim(r)
  BY <1>8 DEF Claim, Owns
<1>9. CASE LookupUser(r)
  <2>1. PICK c \in Conns, d \in Conns : c # d /\ owner[c] = r /\ owner[d] = r
    BY <1>9 DEF LookupUser, Owns
  <2>2. CASE ~Answer(r)
    <3>1. owner' = [owner EXCEPT ![ConnOf(r)] = NoOne] /\ pc' = [pc EXCEPT ![r] = "rotate"]
      BY <1>9, <2>2 DEF LookupUser, Goto
    <3>2. ConnOf(r) # c => owner'[c] = r
      BY <2>1, <3>1 DEF TypeOK
    <3>3. ConnOf(r) # d => owner'[d] = r
      BY <2>1, <3>1 DEF TypeOK
    <3>4. \E e \in Conns : owner'[e] = r
      BY <2>1, <3>2, <3>3
    <3>. QED BY <3>1, <3>4 DEF Owns, TypeOK
  <2>. QED BY <1>1, <2>2
<1>10. CASE Run(r) \/ Sweep(r) \/ Rotate(r) \/ Fail(r)
  BY <1>1, <1>10 DEF Run, Sweep, Rotate, Fail
<1>. QED BY <1>3, <1>4, <1>5, <1>6, <1>7, <1>8, <1>9, <1>10 DEF Step

LEMMA LockersStep ==
  ASSUME TypeOK, Lockers, NEW r \in Requests, Step(r) \/ Fail(r)
  PROVE  Lockers'
<1> SUFFICES ASSUME NEW x \in Rows, holder'[x] # NoOne
             PROVE  pc'[holder'[x]] \in Locking
  BY DEF Lockers, Locking
<1>0. holder[x] # NoOne => holder[x] \in Requests /\ pc[holder[x]] \in Locking
  BY DEF Lockers, TypeOK
<1>1. \A q \in Requests \ {r} : pc'[q] = pc[q]
  BY Frame
<1>2. CASE Answer(r)
  <2>1. holder'[x] = holder[x] /\ holder[x] # r /\ holder[x] # NoOne
    BY <1>2 DEF Answer, Leave, TypeOK
  <2>. QED BY <1>0, <1>1, <2>1
<1>3. ASSUME holder'[x] = holder[x] \/ holder'[x] = r, pc'[r] \in Locking
      PROVE  pc'[holder'[x]] \in Locking
  BY <1>0, <1>1, <1>3
<1>4. CASE SelectToken(r) /\ ~Answer(r)
  <2>1. holder'[x] = holder[x] \/ holder'[x] = r
    BY <1>4 DEF SelectToken, TypeOK
  <2>2. pc'[r] \in Locking
    BY <1>4 DEF SelectToken, Ask, Goto, TypeOK, Locking
  <2>. QED BY <1>3, <2>1, <2>2
<1>5. CASE StoreUser(r) /\ ~Answer(r)
  <2>1. holder'[x] = holder[x] \/ holder'[x] = r
    BY <1>5 DEF StoreUser, TypeOK
  <2>2. pc'[r] \in Locking
    BY <1>5 DEF StoreUser, Goto, TypeOK, Locking
  <2>. QED BY <1>3, <2>1, <2>2
<1>6. CASE Claim(r)
  <2>1. holder'[x] = holder[x] \/ holder'[x] = r
    BY <1>6 DEF Claim, TypeOK
  <2>2. pc'[r] \in Locking
    BY <1>6 DEF Claim, TypeOK, Locking
  <2>. QED BY <1>3, <2>1, <2>2
<1>7. ASSUME holder' = holder, pc[r] \notin Locking \/ pc'[r] \in Locking
      PROVE  pc'[holder'[x]] \in Locking
  BY <1>0, <1>1, <1>7
<1>8. CASE Arrive(r)
  <2>1. pc[r] \notin Locking /\ holder' = holder
    BY <1>8 DEF Arrive, Locking
  <2>. QED BY <1>7, <2>1
<1>9. CASE Grant(r)
  <2>1. pc[r] = "lookup" => pc'[r] = "reading"
    BY <1>9, TakeOne DEF Grant, Turn, TypeOK
  <2>2. (pc[r] \notin Locking \/ pc'[r] \in Locking) /\ holder' = holder
    BY <1>9, <2>1 DEF Grant, Queued, Locking
  <2>. QED BY <1>7, <2>2
<1>10. CASE LookupUser(r) /\ ~Answer(r)
  <2>1. pc'[r] \in Locking /\ holder' = holder
    BY <1>10 DEF LookupUser, Goto, TypeOK, Locking
  <2>. QED BY <1>7, <2>1
<1>. QED BY <1>2, <1>4, <1>5, <1>6, <1>8, <1>9, <1>10
         DEF Step, Run, Sweep, Rotate, Fail

LEMMA ExitStep ==
  ASSUME ExitInv, [ServerNext]_serverVars
  PROVE  ExitInv'
<1>0. TypeOK'
  BY PoolStep, TypeStep DEF ExitInv
<1>1. ASSUME NEW r \in Requests, Serve(r) \/ Break(r) \/ Refuse(r)
      PROVE  ExitInv'
  <2>1. Step(r) \/ Fail(r)
    BY <1>1 DEF Serve, Break, Refuse, Step
  <2>2. Lockers'
    BY <2>1, LockersStep DEF ExitInv
  <2>3. ASSUME NEW q \in Requests \ {r}
        PROVE  Owns(q)'
    <3>1. pc'[q] = pc[q]
      BY <2>1, Frame DEF ExitInv
    <3>2. \A c \in Conns : owner[c] = q => owner'[c] = q
      BY <2>1, OthersKeepTheirs DEF ExitInv
    <3>. QED BY <3>1, <3>2 DEF ExitInv, Owns
  <2>4. Owns(r)'
    BY <2>1, OwnsStep DEF ExitInv
  <2>5. ExitClean'
    <3>1. phase' = phase /\ phase # "exited"
      BY <1>1 DEF Serve, Break, Refuse, Running
    <3>. QED BY <3>1 DEF ExitClean
  <2>. QED BY <1>0, <2>2, <2>3, <2>4, <2>5 DEF ExitInv
<1>2. CASE Close
  <2>1. \A c \in Conns : owner[c] = NoOne
    BY <1>2 DEF Close
  <2>2. UNCHANGED vars
    BY <1>2 DEF Close
  <2>3. ASSUME NEW r \in Requests
        PROVE  pc[r] \in {"new", "begin", "done"}
    BY <2>1, RefreshPoolAssumption DEF ExitInv, Owns, TypeOK, Queued
  <2>4. \A x \in Rows : holder[x] = NoOne
    BY <2>3 DEF ExitInv, Lockers, Locking, TypeOK
  <2>. QED BY <1>0, <2>2, <2>3, <2>4 DEF ExitInv, ExitClean, Owns, Lockers, vars
<1>3. CASE UNCHANGED <<vars, phase>>
  BY <1>0, <1>3 DEF ExitInv, ExitClean, Owns, Lockers, vars
<1>4. CASE Signal \/ ShutDown \/ Drain \/ ListenFails
  <2>1. UNCHANGED vars /\ phase' # "exited"
    BY <1>4 DEF Signal, ShutDown, Drain, ListenFails, Advance
  <2>. QED BY <1>0, <2>1 DEF ExitInv, ExitClean, Owns, Lockers, vars
<1>5. ASSUME NEW w \in Workers, WorkOn(w)
      PROVE  UNCHANGED <<vars, phase>>
  BY <1>5 DEF WorkOn
<1>6. ASSUME NEW job \in Jobs, HandOver(job)
      PROVE  UNCHANGED <<vars, phase>>
  BY <1>6 DEF HandOver
<1>7. CASE UNCHANGED serverVars
  BY <1>3, <1>7 DEF serverVars
<1>. QED BY <1>1, <1>2, <1>3, <1>4, <1>5, <1>6, <1>7 DEF ServerNext

\* However the timeouts fall, main returns when no transaction is open: no row is
\* left locked and no request is cut off between its statements.  Of the exit of a
\* failed listener this is not claimed: it waits for nothing.
THEOREM ExitCleanHolds == ServerSpec => []ExitClean
<1>1. ServerInit => ExitInv
  <2>1. ASSUME ServerInit
        PROVE  TypeOK
    <3>1. <<>> \in Seq(Requests)
      OBVIOUS
    <3>. QED BY <2>1, <3>1 DEF ServerInit, Init, TypeOK, Queued, Requests
  <2>. QED BY <2>1 DEF ServerInit, Init, ExitInv, Owns, Lockers, ExitClean
<1>2. ExitInv => ExitClean
  BY DEF ExitInv
<1>. QED BY <1>1, <1>2, ExitStep, PTL DEF ServerSpec
=============================================================================
