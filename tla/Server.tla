------------------------------- MODULE Server -------------------------------
(***************************************************************************)
(* The process of cmd/server: requests over the connection pool            *)
(* (RefreshPool), the worker goroutines (Worker), and their shutdown.      *)
(*                                                                         *)
(* The signal cancels the context of the workers at once.  main then waits *)
(* for the requests with a timeout, for the workers with a timeout, and    *)
(* for the connections of the pool without one.  Neither timeout ends      *)
(* what it waited for: requests and workers run on until the process ends. *)
(* A listener that fails ends the process without any of this.             *)
(***************************************************************************)
EXTENDS RefreshPool, Worker

VARIABLES
  phase,    \* where main is
  drained   \* Drain returned because the workers had stopped

serverVars == <<vars, workerVars, phase, drained>>

Phases == {"serving", "shutdown", "drain", "close", "exited", "aborted"}

ServerTypeOK ==
  /\ TypeOK
  /\ WorkerTypeOK
  /\ phase \in Phases
  /\ drained \in BOOLEAN

ServerInit ==
  /\ Init
  /\ WorkerInit
  /\ phase = "serving"
  /\ drained = FALSE

Running == phase \notin {"exited", "aborted"}

\* A request that has asked for a connection is active until it is answered.
Active(r) == pc[r] \notin {"new", "done"}

\* The listener is closed by Shutdown, the pool by Close.
Serve(r) ==
  /\ Running
  /\ \/ phase = "serving" /\ Arrive(r)
     \/ phase # "close" /\ Grant(r)
     \/ Run(r) \/ StoreUser(r) \/ Claim(r) \/ Sweep(r)
     \/ SelectToken(r) \/ LookupUser(r) \/ Rotate(r)
  /\ UNCHANGED <<workerVars, phase, drained>>

\* Clients that leave and queries that fail; the handler answers.
Break(r) ==
  /\ Running
  /\ Active(r)
  /\ Fail(r)
  /\ UNCHANGED <<workerVars, phase, drained>>

\* A closed pool refuses who waited for a connection, once one is returned.
Refuse(r) ==
  /\ phase = "close"
  /\ queue # <<>> /\ r = Head(queue)
  /\ \E c \in Conns : owner[c] = NoOne
  /\ Fail(r)
  /\ UNCHANGED <<workerVars, phase, drained>>

WorkOn(w) == Running /\ Work(w) /\ UNCHANGED <<vars, phase, drained>>

HandOver(job) == Running /\ Dispatch(job) /\ UNCHANGED <<vars, phase, drained>>

Advance(from, to) == phase = from /\ phase' = to

\* SIGTERM ends signal.NotifyContext.
Signal ==
  /\ Advance("serving", "shutdown")
  /\ Cancel
  /\ UNCHANGED <<vars, drained>>

\* srv.Shutdown returns, with every request answered or after 30 seconds.
ShutDown ==
  /\ Advance("shutdown", "drain")
  /\ UNCHANGED <<vars, workerVars, drained>>

\* w.Drain returns, with the workers stopped or after 10 seconds.
Drain ==
  /\ Advance("drain", "close")
  /\ \/ Idle /\ drained' = TRUE
     \/ UNCHANGED drained
  /\ UNCHANGED <<vars, workerVars>>

\* Mutant: nobody waits for the connections that are in use.
CloseAtOnce ==
  /\ Advance("close", "exited")
  /\ UNCHANGED <<vars, workerVars, drained>>

\* pool.Close returns when every connection was returned, and main ends.
Close ==
  /\ Advance("close", "exited")
  /\ \A c \in Conns : owner[c] = NoOne
  /\ UNCHANGED <<vars, workerVars, drained>>

\* ListenAndServe returns an error of its own: os.Exit(1), in the goroutine of the
\* listener and therefore at any time until main returns.
ListenFails ==
  /\ Running
  /\ phase' = "aborted"
  /\ UNCHANGED <<vars, workerVars, drained>>

ServerNext ==
  \/ \E r \in Requests : Serve(r) \/ Break(r) \/ Refuse(r)
  \/ \E w \in Workers : WorkOn(w)
  \/ \E job \in Jobs : HandOver(job)
  \/ Signal \/ ShutDown \/ Drain \/ Close \/ ListenFails

ServerSpec == ServerInit /\ [][ServerNext]_serverVars

\* Requests and queries run on, jobs return, the pool serves its queue, and main
\* goes on after the signal: its timers fire.  No client is bound to go away, no
\* query or listener to fail, and no signal to come.
ServerFairness ==
  /\ \A r \in Requests : WF_serverVars(Serve(r) \/ Refuse(r))
  /\ \A w \in Workers : WF_serverVars(WorkOn(w))
  /\ WF_serverVars(ShutDown \/ Drain \/ Close)

FairServerSpec == ServerSpec /\ ServerFairness

-----------------------------------------------------------------------------
(* Properties *)

\* When Drain says that the workers have stopped, none is at work and none will
\* be: a worker that is being replaced counts all the while.
DrainComplete == drained => \A w \in Workers : worker[w] = "stopped"

\* main never returns within a transaction: no row is locked and no request is
\* between the statements of one, whatever timed out before.  The exit of a
\* failed listener ("aborted") gives no such promise, and cuts transactions off.
ExitClean ==
  phase = "exited" =>
    /\ \A x \in Rows : holder[x] = NoOne
    /\ \A r \in Requests : pc[r] \in {"new", "begin", "done"}

\* While the server is told nothing every request is answered: the refreshes,
\* those that wait for rows and those that only share the pool with them.
AnsweredUnlessStopped == \A r \in Requests : <>(pc[r] = "done" \/ phase # "serving")

\* README.md:173 "30-second drain window before hard stop": after the signal the
\* process ends, whatever still runs.
Stops == phase = "shutdown" ~> phase \in {"exited", "aborted"}
=============================================================================
