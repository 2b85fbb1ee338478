--------------------------- MODULE Registry_proofs ---------------------------
(***************************************************************************)
(* Proofs about the connection pool of an OLT and about the registry that  *)
(* closes it, for any number of goroutines and connections and any limit.  *)
(***************************************************************************)
EXTENDS Registry, FiniteSetTheorems, TLAPS

-----------------------------------------------------------------------------
(***************************************************************************)
(* The pool.  Connections are conserved because a goroutine gives back     *)
(* what it took before it leaves the semaphore; and the pool implements    *)
(* ExchangeLimit because the goroutines that exchange are among those the  *)
(* semaphore admitted, and each of them holds a connection of its own.     *)
(***************************************************************************)
Exchanging == {p \in Callers : op[p] = "exchange"}

AdmittedBounded == Cardinality(Admitted) <= Limit

PanicsAfterClose == \A p \in Callers : op[p] = "panicked" => closed

\* The inductive invariant.
PoolInv == PoolTypeOK /\ ConnectionsAreConserved /\ AdmittedBounded /\ PanicsAfterClose

-----------------------------------------------------------------------------
LEMMA LimitType == Limit \in Nat /\ Limit > 0
BY LimitAssumption DEF Limit, DefaultMaxConcurrent

\* A set of goroutines is finite, and counts no more than one that contains it.
LEMMA CallerSets ==
  ASSUME NEW S \in SUBSET Callers, NEW T \in SUBSET S
  PROVE  /\ IsFiniteSet(S) /\ Cardinality(S) \in Nat
         /\ Cardinality(T) \in Nat /\ Cardinality(T) <= Cardinality(S)
<1>1. IsFiniteSet(S)
  BY CallersAssumption, FS_Subset
<1>2. IsFiniteSet(T) /\ Cardinality(T) <= Cardinality(S)
  BY <1>1, FS_Subset
<1> QED BY <1>1, <1>2, FS_CardinalityType

LEMMA PoolInitial ==
  ASSUME PoolInit
  PROVE  PoolInv
<1>1. PoolTypeOK
  BY DEF PoolInit, PoolTypeOK, Positions
<1>2. ConnectionsAreConserved
  BY DEF PoolInit, ConnectionsAreConserved, InUse
<1>3. Admitted = {}
  BY DEF PoolInit, Admitted
<1>4. AdmittedBounded
  BY <1>3, FS_EmptySet, LimitType DEF AdmittedBounded
<1>5. PanicsAfterClose
  BY DEF PoolInit, PanicsAfterClose
<1> QED BY <1>1, <1>2, <1>4, <1>5 DEF PoolInv

\* What the goroutines and Close do to the channel, the sockets and the connections
\* in use keeps the types and loses or shares no connection.
LEMMA ConnectionsStep ==
  ASSUME PoolInv, [PoolNext]_poolVars
  PROVE  PoolTypeOK' /\ ConnectionsAreConserved' /\ PanicsAfterClose'
<1> USE DEF PoolInv, PoolTypeOK, PanicsAfterClose
<1>1. CASE UNCHANGED poolVars
  BY <1>1 DEF poolVars, ConnectionsAreConserved, InUse
<1>2. CASE CloseChannel
  BY <1>2 DEF CloseChannel, ConnectionsAreConserved, InUse
<1>3. CASE Drain
  BY <1>3 DEF Drain, ConnectionsAreConserved, InUse
<1>4. ASSUME NEW p \in Callers, Request(p) \/ EnterSem(p) \/ AcquireNil(p) \/ LeaveSem(p)
      PROVE  PoolTypeOK' /\ ConnectionsAreConserved' /\ PanicsAfterClose'
  <2>1. /\ \A q \in Callers : op'[q] = "exchange" <=> op[q] = "exchange"
        /\ UNCHANGED <<pool, made, closed, open, conn>>
    BY <1>4 DEF Request, EnterSem, AcquireNil, LeaveSem
  <2>2. op' \in [Callers -> Positions]
    BY <1>4 DEF Request, EnterSem, AcquireNil, LeaveSem, Positions
  <2>3. ConnectionsAreConserved'
    BY <2>1 DEF ConnectionsAreConserved, InUse
  <2>4. PanicsAfterClose'
    BY <1>4 DEF Request, EnterSem, AcquireNil, LeaveSem
  <2> QED BY <2>1, <2>2, <2>3, <2>4
<1>5. ASSUME NEW p \in Callers, Acquire(p)
      PROVE  PoolTypeOK' /\ ConnectionsAreConserved' /\ PanicsAfterClose'
  <2>1. PICK c \in pool : pool' = pool \ {c} /\ conn' = [conn EXCEPT ![p] = c]
    BY <1>5 DEF Acquire
  <2>2. /\ op[p] = "acquire" /\ op' = [op EXCEPT ![p] = "exchange"]
        /\ UNCHANGED <<made, closed, open>>
    BY <1>5 DEF Acquire
  <2>3. InUse' = InUse \cup {c}
    BY <2>1, <2>2 DEF InUse
  <2>4. PoolTypeOK' /\ PanicsAfterClose'
    BY <2>1, <2>2 DEF Positions
  <2>5. c \in open /\ c \notin InUse
    BY <2>1 DEF ConnectionsAreConserved
  <2> QED BY <2>1, <2>2, <2>3, <2>4, <2>5 DEF ConnectionsAreConserved, InUse
<1>6. ASSUME NEW p \in Callers, Release(p)
      PROVE  PoolTypeOK' /\ ConnectionsAreConserved' /\ PanicsAfterClose'
  <2>1. op[p] = "exchange" /\ UNCHANGED <<made, closed, open>>
    BY <1>6 DEF Release
  <2>2. conn[p] \in InUse
    BY <2>1 DEF InUse
  <2>3. CASE closed
    <3>1. op' = [op EXCEPT ![p] = "panicked"] /\ UNCHANGED <<pool, conn>>
      BY <1>6, <2>3 DEF Release
    <3>2. InUse' \subseteq InUse
      BY <2>1, <3>1 DEF InUse
    <3>3. PoolTypeOK' /\ PanicsAfterClose'
      BY <2>1, <2>3, <3>1 DEF Positions
    <3> QED BY <2>1, <2>3, <3>1, <3>2, <3>3 DEF ConnectionsAreConserved
  <2>4. CASE ~closed
    <3>1. /\ op' = [op EXCEPT ![p] = "leave"]
          /\ conn' = [conn EXCEPT ![p] = NoConn]
          /\ pool' = pool \cup {conn[p]}
      BY <1>6, <2>4 DEF Release
    <3>2. InUse' = InUse \ {conn[p]}
      BY <2>1, <3>1 DEF ConnectionsAreConserved, InUse
    <3>3. PoolTypeOK' /\ PanicsAfterClose'
      BY <2>1, <2>2, <3>1 DEF Positions, ConnectionsAreConserved
    <3> QED BY <2>1, <2>2, <3>1, <3>2, <3>3 DEF ConnectionsAreConserved
  <2> QED BY <2>3, <2>4
<1> QED BY <1>1, <1>2, <1>3, <1>4, <1>5, <1>6 DEF PoolNext, Step

\* Only EnterSem adds to the semaphore, and only one that has room.
LEMMA AdmittedStep ==
  ASSUME PoolInv, [PoolNext]_poolVars
  PROVE  AdmittedBounded'
<1> USE DEF PoolInv, PoolTypeOK
<1>0. Cardinality(Admitted) \in Nat /\ IsFiniteSet(Admitted) /\ Limit \in Nat
  BY CallerSets, LimitType DEF Admitted
<1>1. ASSUME Admitted' \subseteq Admitted
      PROVE  AdmittedBounded'
  <2>1. Cardinality(Admitted') <= Cardinality(Admitted) /\ Cardinality(Admitted') \in Nat
    BY <1>1, CallerSets DEF Admitted
  <2> QED BY <1>0, <2>1 DEF AdmittedBounded, Limit
<1>2. CASE UNCHANGED poolVars \/ CloseChannel \/ Drain
  BY <1>1, <1>2 DEF poolVars, CloseChannel, Drain, Admitted
<1>3. ASSUME NEW p \in Callers,
             Request(p) \/ Acquire(p) \/ AcquireNil(p) \/ Release(p) \/ LeaveSem(p)
      PROVE  AdmittedBounded'
  BY <1>1, <1>3 DEF Request, Acquire, AcquireNil, Release, LeaveSem, Admitted
<1>4. ASSUME NEW p \in Callers, EnterSem(p)
      PROVE  AdmittedBounded'
  <2>1. Cardinality(Admitted) < Limit
    BY <1>4 DEF EnterSem
  <2>2. Admitted' = Admitted \cup {p} /\ p \notin Admitted
    BY <1>4 DEF EnterSem, Admitted
  <2>3. Cardinality(Admitted') = Cardinality(Admitted) + 1
    BY <1>0, <2>2, FS_AddElement
  <2> QED BY <1>0, <2>1, <2>3 DEF AdmittedBounded, Limit
<1> QED BY <1>2, <1>3, <1>4 DEF PoolNext, Step

\* PoolInv is an invariant.
THEOREM PoolInvariance == PoolSpec => []PoolInv
<1>1. PoolInv /\ [PoolNext]_poolVars => PoolInv'
  BY ConnectionsStep, AdmittedStep DEF PoolInv
<1> QED BY <1>1, PoolInitial, PTL DEF PoolSpec

-----------------------------------------------------------------------------
\* While a connection is left in the pool, fewer goroutines exchange than there are
\* connections.
LEMMA ConnectionsBoundExchanges ==
  ASSUME PoolInv, pool # {}
  PROVE  Cardinality(Exchanging) < Cardinality(Conns)
<1> USE DEF PoolInv, PoolTypeOK
<1> DEFINE used == [p \in Exchanging |-> conn[p]]
<1>1. PICK c : c \in pool
  OBVIOUS
<1>2. used \in Injection(Exchanging, Conns \ {c})
  BY <1>1 DEF ConnectionsAreConserved, InUse, Exchanging, Injection, IsInjective
<1>3. IsFiniteSet(Conns \ {c}) /\ Cardinality(Conns \ {c}) = Cardinality(Conns) - 1
  BY <1>1, ConnsAssumption, FS_RemoveElement
<1>4. Cardinality(Exchanging) <= Cardinality(Conns \ {c})
  <2> HIDE DEF used
  <2> QED BY <1>2, <1>3, FS_Injection
<1>5. Cardinality(Conns) \in Nat /\ Cardinality(Exchanging) \in Nat
  BY CallerSets, ConnsAssumption, FS_CardinalityType DEF Exchanging
<1> QED BY <1>3, <1>4, <1>5

\* A goroutine that is about to exchange is admitted and does not exchange yet.
LEMMA SemaphoreBoundsExchanges ==
  ASSUME PoolInv, NEW p \in Callers, op[p] = "acquire"
  PROVE  Cardinality(Exchanging) < Limit
<1>1. Exchanging \cup {p} \subseteq Admitted /\ p \notin Exchanging
  BY DEF Exchanging, Admitted
<1>2. IsFiniteSet(Exchanging) /\ Cardinality(Exchanging) \in Nat
  BY CallerSets DEF Exchanging
<1>3. Cardinality(Exchanging \cup {p}) = Cardinality(Exchanging) + 1
  BY <1>1, <1>2, FS_AddElement
<1>4. Cardinality(Exchanging \cup {p}) <= Cardinality(Admitted) /\ Cardinality(Admitted) \in Nat
  BY <1>1, CallerSets DEF Admitted
<1> QED BY <1>2, <1>3, <1>4, LimitType DEF PoolInv, AdmittedBounded

\* The instance counts as this module does.
LEMMA SameCardinality == ASSUME NEW S PROVE Exchanges!Cardinality(S) = Cardinality(S)
BY DEF Exchanges!Cardinality, Cardinality

\* A step of the pool is a Begin, an End or a stutter of ExchangeLimit.
LEMMA ExchangeStep ==
  ASSUME PoolInv, [PoolNext]_poolVars
  PROVE  [Exchanges!Next]_Exchanging
<1> USE DEF PoolInv, PoolTypeOK
<1>1. CASE UNCHANGED poolVars \/ CloseChannel \/ Drain
  BY <1>1 DEF poolVars, CloseChannel, Drain, Exchanging
<1>2. ASSUME NEW p \in Callers, Request(p) \/ EnterSem(p) \/ AcquireNil(p) \/ LeaveSem(p)
      PROVE  Exchanging' = Exchanging
  BY <1>2 DEF Request, EnterSem, AcquireNil, LeaveSem, Exchanging
<1>3. ASSUME NEW p \in Callers, Acquire(p)
      PROVE  Exchanges!Begin(p)
  <2>1. op[p] = "acquire" /\ pool # {} /\ op' = [op EXCEPT ![p] = "exchange"]
    BY <1>3 DEF Acquire
  <2>2. p \notin Exchanging /\ Exchanging' = Exchanging \cup {p}
    BY <2>1 DEF Exchanging
  <2>3. Cardinality(Exchanging) < Limit /\ Cardinality(Exchanging) < Cardinality(Conns)
    BY <2>1, SemaphoreBoundsExchanges, ConnectionsBoundExchanges
  <2> QED BY <2>2, <2>3, SameCardinality DEF Exchanges!Begin, Exchanging
<1>4. ASSUME NEW p \in Callers, Release(p)
      PROVE  Exchanges!End(p)
  BY <1>4 DEF Release, Exchanges!End
<1> QED BY <1>1, <1>2, <1>3, <1>4 DEF PoolNext, Step, Exchanges!Next

\* The pool never lets more goroutines exchange packets with the OLT than the
\* semaphore admits or than there are connections.
THEOREM PoolLimitsExchanges == PoolSpec => ExchangesAreLimited
<1>1. PoolInit => Exchanges!Init
  BY DEF PoolInit, Exchanges!Init
<1>2. PoolInv /\ [PoolNext]_poolVars => [Exchanges!Next]_Exchanging
  BY ExchangeStep
<1> QED BY <1>1, <1>2, PoolInvariance, PTL
        DEF PoolSpec, ExchangesAreLimited, Exchanges!Spec, Exchanging

\* No connection is lost or shared before Close, and none that is in use is closed.
THEOREM PoolConserves == PoolSpec => [](PoolTypeOK /\ ConnectionsAreConserved)
BY PoolInvariance, PTL DEF PoolInv

-----------------------------------------------------------------------------
(***************************************************************************)
(* The registry.  Its steps are steps of SnmpPool or leave the pool alone, *)
(* so what holds of the pool holds in it.  The rest follows from the lock: *)
(* once the pool is closed nobody reads, since the write lock waits for    *)
(* the readers and the entry is gone before it is released.                *)
(***************************************************************************)
RegistryTypeOK ==
  /\ phase \in {"serving", "draining", "closing", "closed", "crashed", "exited"}
  /\ entry \in BOOLEAN
  /\ writer \in {"none", "waiting", "closing"}
  /\ held \in [Callers -> {"nothing", "entry", "lock"}]
  /\ drained \in BOOLEAN

\* The pool is closed by a writer that met no reader, and no reader comes after it.
ClosedToReaders ==
  /\ closed => writer = "closing" \/ ~entry
  /\ writer = "closing" \/ ~entry => Readers = {}

\* A goroutine that holds nothing operates on nothing.
HoldersOperate == \A p \in Callers : held[p] = "nothing" => op[p] \in {"idle", "panicked"}

\* Nothing is closed before the server shut down, and requests the server saw end
\* have ended.
ShutdownInOrder ==
  /\ phase \in {"serving", "draining"} => ~closed /\ ~drained
  /\ drained => \A p \in Handlers : held[p] = "nothing" /\ op[p] = "idle"

\* The inductive invariant.
IInv == RegistryTypeOK /\ ClosedToReaders /\ HoldersOperate /\ ShutdownInOrder

-----------------------------------------------------------------------------
LEMMA Roles == \A p \in Callers : p \in Handlers <=> p \notin Background
BY RolesAssumption

LEMMA HandlersCall == Handlers \subseteq Callers
BY RolesAssumption

\* A step of the registry is a step of the pool or leaves the pool alone.
LEMMA PoolStep ==
  ASSUME [Next]_vars
  PROVE  [PoolNext]_poolVars
BY DEF Next, vars, poolVars, PoolNext, Get, HealthCheck, Use, Return, Operate, Signal,
       ServerShutdown, ServerFails, CloseEntry, CloseSocket, CloseReturns, Exit

\* The registry uses the pool as SnmpPool describes it.
THEOREM UsesPool == Spec => PoolSpec
<1>1. Init => PoolInit
  BY DEF Init
<1>2. [Next]_vars => [PoolNext]_poolVars
  BY PoolStep
<1> QED BY <1>1, <1>2, PTL DEF Spec, PoolSpec

LEMMA Initial == Init => IInv
BY RolesAssumption
   DEF Init, PoolInit, IInv, RegistryTypeOK, ClosedToReaders, Readers, HoldersOperate, ShutdownInOrder

\* The steps of the goroutines.
LEMMA CallerStep ==
  ASSUME PoolInv, IInv, NEW p \in Callers,
         Get(p) \/ HealthCheck(p) \/ Use(p) \/ Return(p)
  PROVE  IInv'
<1> USE HandlersCall DEF IInv, PoolInv, PoolTypeOK, RegistryTypeOK
<1>1. CASE Get(p)
  BY <1>1 DEF Get, MayStart, RLock, poolVars, ClosedToReaders, Readers, HoldersOperate, ShutdownInOrder
<1>2. CASE HealthCheck(p)
  <2>1. /\ op[p] = "idle" /\ op' = [op EXCEPT ![p] = "sem"]
        /\ p \in Handlers /\ phase = "serving" /\ writer = "none" /\ entry
        /\ held' = [held EXCEPT ![p] = "lock"]
        /\ UNCHANGED <<phase, entry, writer, drained, closed>>
    BY <1>2 DEF HealthCheck, MayStart, RLock, Request
  <2> QED BY <2>1 DEF ClosedToReaders, Readers, HoldersOperate, ShutdownInOrder
<1>3. CASE Use(p)
  <2>1. /\ held[p] = "entry" /\ op[p] = "idle" /\ op' = [op EXCEPT ![p] = "sem"]
        /\ UNCHANGED <<phase, entry, writer, held, drained, closed>>
    BY <1>3 DEF Use, Request, registryVars
  <2> QED BY <2>1 DEF ClosedToReaders, Readers, HoldersOperate, ShutdownInOrder
<1>4. CASE Return(p)
  <2>1. /\ op[p] = "idle" /\ held' = [held EXCEPT ![p] = "nothing"]
        /\ UNCHANGED <<phase, entry, writer, drained, closed, op>>
    BY <1>4 DEF Return, poolVars
  <2> QED BY <2>1 DEF ClosedToReaders, Readers, HoldersOperate, ShutdownInOrder
<1> QED BY <1>1, <1>2, <1>3, <1>4

LEMMA OperateStep ==
  ASSUME PoolInv, IInv, NEW p \in Callers, Operate(p)
  PROVE  IInv'
<1> USE HandlersCall DEF IInv, PoolInv, PoolTypeOK, RegistryTypeOK
<1>1. /\ op[p] \in {"sem", "acquire", "exchange", "leave"}
      /\ op' = [op EXCEPT ![p] = op'[p]]
      /\ UNCHANGED <<closed, entry, writer, drained>>
  BY DEF Operate, Step, EnterSem, Acquire, AcquireNil, Release, LeaveSem
<1>2. held[p] # "nothing" /\ (p \in Handlers => ~drained)
  BY <1>1 DEF HoldersOperate, ShutdownInOrder
<1>3. CASE op'[p] = "panicked"
  <2>1. /\ held' = [held EXCEPT ![p] = "nothing"]
        /\ phase' = IF p \in Background THEN "crashed" ELSE phase
    BY <1>3 DEF Operate
  <2> QED BY <1>1, <1>2, <1>3, <2>1 DEF ClosedToReaders, Readers, HoldersOperate, ShutdownInOrder
<1>4. CASE op'[p] # "panicked"
  <2>1. UNCHANGED <<phase, held>>
    BY <1>4 DEF Operate
  <2> QED BY <1>1, <1>2, <2>1 DEF ClosedToReaders, Readers, HoldersOperate, ShutdownInOrder
<1> QED BY <1>3, <1>4

\* The end of the process.
LEMMA EndStep ==
  ASSUME PoolInv, IInv,
         \/ Signal \/ ServerShutdown \/ ServerFails
         \/ CloseEntry \/ CloseSocket \/ CloseReturns \/ Exit
  PROVE  IInv'
<1> USE HandlersCall DEF IInv, PoolInv, PoolTypeOK, RegistryTypeOK
<1>1. CASE Signal \/ Exit
  BY <1>1 DEF Signal, Exit, poolVars, ClosedToReaders, Readers, HoldersOperate, ShutdownInOrder
<1>2. CASE ServerShutdown
  <2>1. /\ phase = "draining" /\ phase' = "closing" /\ writer' = "waiting"
        /\ drained' = HandlersIdle
        /\ UNCHANGED <<entry, held, op, closed>>
    BY <1>2 DEF ServerShutdown, poolVars
  <2>2. \A p \in Callers : op[p] # "panicked"
    BY <2>1 DEF ShutdownInOrder, PanicsAfterClose
  <2>3. ShutdownInOrder'
    BY <2>1, <2>2 DEF ShutdownInOrder, HandlersIdle, HoldersOperate
  <2>4. ClosedToReaders'
    BY <2>1 DEF ClosedToReaders, Readers, ShutdownInOrder
  <2>5. RegistryTypeOK' /\ HoldersOperate'
    BY <2>1 DEF HandlersIdle, HoldersOperate
  <2> QED BY <2>3, <2>4, <2>5
<1>3. CASE CloseEntry
  <2>1. /\ phase = "closing" /\ Readers = {} /\ writer' = "closing"
        /\ UNCHANGED <<phase, entry, held, drained, op>>
    BY <1>3 DEF CloseEntry, CloseChannel
  <2> QED BY <2>1 DEF ClosedToReaders, Readers, HoldersOperate, ShutdownInOrder
<1>4. CASE CloseSocket
  BY <1>4 DEF CloseSocket, Drain, registryVars, ClosedToReaders, Readers, HoldersOperate, ShutdownInOrder
<1>5. CASE CloseReturns
  <2>1. /\ writer = "closing" /\ entry' = FALSE /\ phase' = "closed" /\ writer' = "none"
        /\ UNCHANGED <<held, drained, op, closed>>
    BY <1>5 DEF CloseReturns, poolVars
  <2> QED BY <2>1 DEF ClosedToReaders, Readers, HoldersOperate, ShutdownInOrder
<1>6. CASE ServerFails
  <2>1. /\ phase = "serving" /\ phase' = "closing" /\ writer' = "waiting"
        /\ UNCHANGED <<entry, held, drained, op, closed>>
    BY <1>6 DEF ServerFails, poolVars
  <2> QED BY <2>1 DEF ClosedToReaders, Readers, HoldersOperate, ShutdownInOrder
<1> QED BY <1>1, <1>2, <1>3, <1>4, <1>5, <1>6

LEMMA RegistryInvariance == Spec => [](PoolInv /\ IInv)
<1>1. Spec => []PoolInv
  BY UsesPool, PoolInvariance, PTL
<1>2. ASSUME PoolInv, IInv, [Next]_vars
      PROVE  IInv'
  <2>1. CASE UNCHANGED vars
    BY <1>2, <2>1 DEF vars, registryVars, poolVars, IInv, RegistryTypeOK, ClosedToReaders,
                      Readers, HoldersOperate, ShutdownInOrder
  <2> QED BY <1>2, <2>1, CallerStep, OperateStep, EndStep DEF Next
<1>3. Spec => []IInv
  BY <1>1, <1>2, Initial, PTL DEF Spec
<1> QED BY <1>1, <1>3, PTL

-----------------------------------------------------------------------------
\* The registry, the pool and what every goroutine holds keep their types.
THEOREM TypeCorrect == Spec => []TypeOK
<1>1. PoolInv /\ IInv => TypeOK
  BY DEF PoolInv, IInv, RegistryTypeOK, TypeOK
<1> QED BY <1>1, RegistryInvariance, PTL

\* No connection is lost, shared or closed in use by requests, health checks, poller
\* and Close.
THEOREM Conserved == Spec => []ConnectionsAreConserved
<1>1. PoolInv /\ IInv => ConnectionsAreConserved
  BY DEF PoolInv
<1> QED BY <1>1, RegistryInvariance, PTL

\* The limit on exchanges with the OLT holds until the end of the process.
THEOREM Limited == Spec => ExchangesAreLimited
BY UsesPool, PoolLimitsExchanges, PTL

\* The pool is not closed under a health check.
THEOREM HealthChecksProtected == Spec => []HealthCheckIsProtected
<1>1. PoolInv /\ IInv => HealthCheckIsProtected
  BY DEF PoolInv, PanicsAfterClose, IInv, ClosedToReaders, Readers, HealthCheckIsProtected
<1> QED BY <1>1, RegistryInvariance, PTL

\* No operation panics before the registry is closed, and no request does that the
\* server waited for.
THEOREM RequestsSafe == Spec => []RequestsAreSafe
<1>1. PoolInv /\ IInv => RequestsAreSafe
  BY DEF PoolInv, PanicsAfterClose, IInv, ShutdownInOrder, RequestsAreSafe
<1> QED BY <1>1, RegistryInvariance, PTL
=============================================================================
