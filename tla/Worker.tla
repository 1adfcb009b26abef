------------------------------- MODULE Worker -------------------------------
(***************************************************************************)
(* The pool of worker goroutines: a buffered channel of jobs, goroutines   *)
(* that take them until the context is cancelled, and a WaitGroup that     *)
(* Drain waits for.                                                        *)
(*                                                                         *)
(* A goroutine whose job panics outside Execute is replaced: its deferred  *)
(* functions first start another goroutine, which is added to the          *)
(* WaitGroup, and then take the old one out of it.  Nothing in the         *)
(* repository dispatches a job yet: who does, and what jobs do, is         *)
(* external.  Log lines, back-off times and the dropped counter are left   *)
(* out.                                                                    *)
(***************************************************************************)
EXTENDS Integers, Sequences, FiniteSets

CONSTANTS
  Workers,     \* the goroutines that Start starts
  Jobs,        \* what is dispatched, each once
  BufferSize   \* the capacity of the channel

ASSUME WorkerAssumption == BufferSize \in Nat /\ IsFiniteSet(Workers)

VARIABLES
  jobs,       \* the channel
  fresh,      \* the jobs that were not yet dispatched
  worker,     \* where each goroutine is
  leaving,    \* replaced goroutines that are still in the WaitGroup
  wg,         \* the WaitGroup's counter
  cancelled   \* ctx.Done() is closed

workerVars == <<jobs, fresh, worker, leaving, wg, cancelled>>

WorkerTypeOK ==
  /\ jobs \in Seq(Jobs) /\ Len(jobs) <= BufferSize
  /\ fresh \subseteq Jobs
  /\ worker \in [Workers -> {"waiting", "working", "recovering", "stopped"}]
  /\ leaving \in [Workers -> Nat]
  /\ wg \in Int
  /\ cancelled \in BOOLEAN

\* After Start.
WorkerInit ==
  /\ jobs = <<>>
  /\ fresh = Jobs
  /\ worker = [w \in Workers |-> "waiting"]
  /\ leaving = [w \in Workers |-> 0]
  /\ wg = Cardinality(Workers)
  /\ cancelled = FALSE

Goes(w, from, to) == worker[w] = from /\ worker' = [worker EXCEPT ![w] = to]

\* A job that finds the channel full is dropped.
Dispatch(job) ==
  /\ job \in fresh
  /\ fresh' = fresh \ {job}
  /\ jobs' = IF Len(jobs) < BufferSize THEN Append(jobs, job) ELSE jobs
  /\ UNCHANGED <<worker, leaving, wg, cancelled>>

\* The select of startWorker: when both are ready, either is taken.
TakeJob(w) ==
  /\ Goes(w, "waiting", "working")
  /\ jobs # <<>> /\ jobs' = Tail(jobs)
  /\ UNCHANGED <<fresh, leaving, wg, cancelled>>

StopWorker(w) ==
  /\ cancelled
  /\ Goes(w, "waiting", "stopped")
  /\ wg' = wg - 1
  /\ UNCHANGED <<jobs, fresh, leaving, cancelled>>

\* executeJob returns, whether Execute did or panicked; a panic of job.Type()
\* is not caught by it.
FinishJob(w) ==
  /\ Goes(w, "working", "waiting") \/ Goes(w, "working", "recovering")
  /\ UNCHANGED <<jobs, fresh, leaving, wg, cancelled>>

\* Mutant: the replacement is not added to the WaitGroup.
RestartUncounted(w) ==
  /\ Goes(w, "recovering", "waiting")
  /\ leaving' = [leaving EXCEPT ![w] = @ + 1]
  /\ UNCHANGED <<jobs, fresh, wg, cancelled>>

\* The deferred recovery starts another goroutine, after a pause ...
Restart(w) ==
  /\ Goes(w, "recovering", "waiting")
  /\ wg' = wg + 1
  /\ leaving' = [leaving EXCEPT ![w] = @ + 1]
  /\ UNCHANGED <<jobs, fresh, cancelled>>

\* ... and the deferred wg.Done comes after it.
LeaveGroup(w) ==
  /\ leaving[w] > 0
  /\ leaving' = [leaving EXCEPT ![w] = @ - 1]
  /\ wg' = wg - 1
  /\ UNCHANGED <<jobs, fresh, worker, cancelled>>

Cancel ==
  /\ cancelled' = TRUE
  /\ UNCHANGED <<jobs, fresh, worker, leaving, wg>>

Work(w) == TakeJob(w) \/ StopWorker(w) \/ FinishJob(w) \/ Restart(w) \/ LeaveGroup(w)

\* wg.Wait returns.
Idle == wg = 0
=============================================================================
