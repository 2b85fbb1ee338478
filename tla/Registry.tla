------------------------------ MODULE Registry ------------------------------
(***************************************************************************)
(* The registry of OLT stacks (app/registry.go) with the SNMP pool of one  *)
(* OLT, from the end of Reconcile to the end of the process (app/app.go,   *)
(* pkg/graceful/graceful.go, cmd/api/main.go).                             *)
(*                                                                         *)
(* Goroutines look the stack up under a read lock and keep it after the    *)
(* lock is released; HealthCheck alone pings the OLT while it holds the    *)
(* lock.  Close takes the write lock and closes the pool.  Handlers are    *)
(* the goroutines the HTTP server waits for when it shuts down, for ten    *)
(* seconds at most; nobody waits for the others: the poller, the pre-warm  *)
(* loop, the background refreshes and the ping of the readiness probe.     *)
(*                                                                         *)
(* Reconcile runs once, before anyone else does, and a process without an  *)
(* OLT ends there; the stacks of several OLTs share only the lock.         *)
(***************************************************************************)
EXTENDS SnmpPool

CONSTANTS Handlers,    \* goroutines of HTTP requests
          Background   \* all others

ASSUME RolesAssumption ==
  /\ Callers = Handlers \cup Background
  /\ Handlers \cap Background = {}

VARIABLES phase,    \* of the process
          entry,    \* the map has an entry of the OLT
          writer,   \* the write lock: "none", "waiting" or "closing"
          held,     \* what a goroutine holds: nothing, the entry, or the read lock
          drained   \* the server saw every handler end before it shut down

registryVars == <<phase, entry, writer, held, drained>>
vars == <<registryVars, poolVars>>

-----------------------------------------------------------------------------
Alive == phase \notin {"crashed", "exited"}

Readers == {p \in Callers : held[p] = "lock"}

\* A read lock is not granted while a writer waits.
RLock == writer = "none"

Init ==
  /\ PoolInit
  /\ phase = "serving" /\ entry = TRUE /\ writer = "none"
  /\ held = [p \in Callers |-> "nothing"]
  /\ drained = FALSE

\* The server takes no request after the signal.
MayStart(p) == Alive /\ (p \in Handlers => phase = "serving")

\* resolveOLT and GetDefault for requests, Targets for the poller, List and Get for
\* the pre-warm loop.  Without an entry nothing is done.
Get(p) ==
  /\ MayStart(p) /\ held[p] = "nothing" /\ op[p] = "idle"
  /\ RLock /\ entry
  /\ held' = [held EXCEPT ![p] = "entry"]
  /\ UNCHANGED <<phase, entry, writer, drained, poolVars>>

\* The read lock is held until the ping is over.
HealthCheck(p) ==
  /\ p \in Handlers /\ MayStart(p)
  /\ held[p] = "nothing" /\ RLock /\ entry
  /\ Request(p)
  /\ held' = [held EXCEPT ![p] = "lock"]
  /\ UNCHANGED <<phase, entry, writer, drained>>

\* Whoever holds the entry uses its pool, whatever became of the registry.
Use(p) ==
  /\ Alive /\ held[p] = "entry"
  /\ Request(p)
  /\ UNCHANGED registryVars

\* Mutant: the read lock is not released.
Return_KeepsLock(p) ==
  /\ Alive /\ held[p] = "entry" /\ op[p] = "idle"
  /\ held' = [held EXCEPT ![p] = "nothing"]
  /\ UNCHANGED <<phase, entry, writer, drained, poolVars>>

Return(p) ==
  /\ Alive /\ held[p] # "nothing" /\ op[p] = "idle"
  /\ held' = [held EXCEPT ![p] = "nothing"]
  /\ UNCHANGED <<phase, entry, writer, drained, poolVars>>

\* A panic in a request is recovered by the server (and releases the read lock); any
\* other one ends the process.
Operate(p) ==
  /\ Alive
  /\ Step(p)
  /\ IF op'[p] = "panicked"
       THEN /\ held' = [held EXCEPT ![p] = "nothing"]
            /\ phase' = IF p \in Background THEN "crashed" ELSE phase
       ELSE UNCHANGED <<phase, held>>
  /\ UNCHANGED <<entry, writer, drained>>

-----------------------------------------------------------------------------
(***************************************************************************)
(* The end of the process.                                                 *)
(***************************************************************************)
Signal ==
  /\ phase = "serving"
  /\ phase' = "draining"
  /\ UNCHANGED <<entry, writer, held, drained, poolVars>>

HandlersIdle == \A p \in Handlers : held[p] = "nothing"

\* Mutant: the deferred calls run without waiting for the requests.
ServerShutdown_AtOnce ==
  /\ phase = "draining"
  /\ phase' = "closing"
  /\ drained' = TRUE
  /\ writer' = "waiting"
  /\ UNCHANGED <<entry, held, poolVars>>

\* server.Shutdown returns when every request ended or after ten seconds.  Then the
\* deferred reg.Close asks for the write lock.
ServerShutdown ==
  /\ phase = "draining"
  /\ phase' = "closing"
  /\ drained' = HandlersIdle
  /\ writer' = "waiting"
  /\ UNCHANGED <<entry, held, poolVars>>

\* The listener fails: Start returns at once, whatever the requests are doing.
ServerFails ==
  /\ phase = "serving"
  /\ phase' = "closing"
  /\ writer' = "waiting"
  /\ UNCHANGED <<entry, held, drained, poolVars>>

\* Mutant: Close does not lock.
CloseEntry_NoLock ==
  /\ phase = "closing" /\ writer = "waiting"
  /\ CloseChannel
  /\ writer' = "closing"
  /\ UNCHANGED <<phase, entry, held, drained>>

CloseEntry ==
  /\ phase = "closing" /\ writer = "waiting" /\ Readers = {}
  /\ CloseChannel
  /\ writer' = "closing"
  /\ UNCHANGED <<phase, entry, held, drained>>

CloseSocket ==
  /\ phase = "closing"
  /\ Drain
  /\ UNCHANGED registryVars

\* The entry is deleted and the lock released.
CloseReturns ==
  /\ phase = "closing" /\ writer = "closing" /\ pool = {}
  /\ entry' = FALSE /\ writer' = "none" /\ phase' = "closed"
  /\ UNCHANGED <<held, drained, poolVars>>

\* main returns.
Exit ==
  /\ phase = "closed"
  /\ phase' = "exited"
  /\ UNCHANGED <<entry, writer, held, drained, poolVars>>

-----------------------------------------------------------------------------
Next ==
  \/ \E p \in Callers :
       Get(p) \/ HealthCheck(p) \/ Use(p) \/ Return(p) \/ Operate(p)
  \/ Signal \/ ServerShutdown \/ ServerFails
  \/ CloseEntry \/ CloseSocket \/ CloseReturns \/ Exit

Spec == Init /\ [][Next]_vars

\* A goroutine inside an operation is scheduled, and every exchange has a timeout.  A
\* channel serves those who wait in the order they came, so nobody is overtaken for
\* ever: strong fairness.  The end of the process is driven by one goroutine; the wait
\* for the requests is bounded.  Nothing obliges anyone to start an operation.
Fairness ==
  /\ \A p \in Callers : SF_vars(Operate(p))
  /\ \A p \in Callers : WF_vars(held[p] = "lock" /\ Return(p))
  /\ WF_vars(ServerShutdown \/ CloseEntry \/ CloseSocket \/ CloseReturns \/ Exit)

FairSpec == Spec /\ Fairness
-----------------------------------------------------------------------------
(***************************************************************************)
(* Properties.                                                             *)
(***************************************************************************)

\* Type invariant of the registry and of the pool.
TypeOK ==
  /\ PoolTypeOK
  /\ phase \in {"serving", "draining", "closing", "closed", "crashed", "exited"}
  /\ entry \in BOOLEAN
  /\ writer \in {"none", "waiting", "closing"}
  /\ held \in [Callers -> {"nothing", "entry", "lock"}]
  /\ drained \in BOOLEAN

\* The read lock protects the ping of the health check: the pool is not closed under
\* it, however long it waits for a connection.
HealthCheckIsProtected ==
  \A p \in Callers : held[p] = "lock" => ~closed /\ op[p] # "panicked"

\* No operation panics before the registry is closed; and if the server saw every
\* request end in time, no request ever does.
RequestsAreSafe ==
  \A p \in Callers : op[p] = "panicked" => closed /\ (p \in Handlers => ~drained)

\* An operation that was admitted to the queue ends, though the health check holds
\* the lock that Close waits for while it waits for a connection itself.
OperationsEnd ==
  \A p \in Callers : op[p] = "sem" ~> op[p] \in {"idle", "panicked"} \/ ~Alive

\* A signal ends the process, and so does the end of the server: nobody is waited for
\* who waits for the end.
ShutdownEnds == phase \in {"draining", "closing"} ~> ~Alive

\* The claim of app.go on Start: it handles graceful shutdown and ensures proper
\* cleanup of resources.  So a process that takes a signal does not
\* crash on its way out.
ShutdownIsClean == [](phase = "draining" => [](phase # "crashed"))
=============================================================================
