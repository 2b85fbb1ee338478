------------------------------ MODULE SnmpPool ------------------------------
(***************************************************************************)
(* The SNMP repository of one OLT (internal/repository/snmp.go): a         *)
(* semaphore that bounds the operations, a channel that holds the          *)
(* connections, and Close, which closes the channel whatever the           *)
(* operations are doing.                                                   *)
(*                                                                         *)
(* Get, Walk, BulkWalk and Ping differ in what they exchange with the OLT  *)
(* and not in how they get a connection: each is an operation.  An         *)
(* exchange may fail; the connection goes back the same way.  A goroutine  *)
(* that receives from the closed, empty channel gets nil and panics in the *)
(* exchange; one that sends to the closed channel panics.  Either way the  *)
(* deferred calls free its place in the semaphore.                         *)
(***************************************************************************)
EXTENDS Integers, FiniteSets

CONSTANTS Callers,        \* goroutines
          Conns,          \* connections the pool has room for (DefaultPoolSize)
          NoConn,         \* no connection
          MaxConcurrent   \* configured limit of concurrent operations

ASSUME CallersAssumption == IsFiniteSet(Callers)
ASSUME ConnsAssumption   == IsFiniteSet(Conns) /\ NoConn \notin Conns
ASSUME LimitAssumption   == MaxConcurrent \in Int

VARIABLES pool,    \* connections in the channel
          made,    \* connections that were created
          closed,  \* the channel is closed
          open,    \* connections whose socket is open
          op,      \* where the operation of a goroutine is
          conn     \* the connection a goroutine holds

poolVars == <<pool, made, closed, open, op, conn>>

-----------------------------------------------------------------------------
DefaultMaxConcurrent == 5

\* A limit that is not positive means the default.
Limit == IF MaxConcurrent <= 0 THEN DefaultMaxConcurrent ELSE MaxConcurrent

\* Goroutines that occupy the semaphore.
Admitted == {p \in Callers : op[p] \in {"acquire", "exchange", "leave"}}

\* The pool holds the seed and what could be connected besides.
PoolInit ==
  /\ made \in SUBSET Conns \ {{}}
  /\ pool = made /\ open = made
  /\ closed = FALSE
  /\ op = [p \in Callers |-> "idle"]
  /\ conn = [p \in Callers |-> NoConn]

\* Get, Walk, BulkWalk, Ping.
Request(p) ==
  /\ op[p] = "idle"
  /\ op' = [op EXCEPT ![p] = "sem"]
  /\ UNCHANGED <<pool, made, closed, open, conn>>

\* Mutant: the semaphore has room for one more.
EnterSem_OneMore(p) ==
  /\ op[p] = "sem"
  /\ Cardinality(Admitted) <= Limit
  /\ op' = [op EXCEPT ![p] = "acquire"]
  /\ UNCHANGED <<pool, made, closed, open, conn>>

EnterSem(p) ==
  /\ op[p] = "sem"
  /\ Cardinality(Admitted) < Limit
  /\ op' = [op EXCEPT ![p] = "acquire"]
  /\ UNCHANGED <<pool, made, closed, open, conn>>

\* A closed channel still hands out what is in it.
Acquire(p) ==
  /\ op[p] = "acquire"
  /\ \E c \in pool :
       /\ pool' = pool \ {c}
       /\ conn' = [conn EXCEPT ![p] = c]
  /\ op' = [op EXCEPT ![p] = "exchange"]
  /\ UNCHANGED <<made, closed, open>>

AcquireNil(p) ==
  /\ op[p] = "acquire" /\ closed /\ pool = {}
  /\ op' = [op EXCEPT ![p] = "panicked"]
  /\ UNCHANGED <<pool, made, closed, open, conn>>

\* Mutant: after an exchange that failed the connection is not given back.
Release_UnlessFailed(p) ==
  /\ op[p] = "exchange"
  /\ IF closed
       THEN /\ op' = [op EXCEPT ![p] = "panicked"]
            /\ UNCHANGED <<pool, conn>>
       ELSE /\ op' = [op EXCEPT ![p] = "leave"]
            /\ conn' = [conn EXCEPT ![p] = NoConn]
            /\ pool' = pool \/ pool' = pool \cup {conn[p]}
  /\ UNCHANGED <<made, closed, open>>

\* The exchange is over, well or badly.
Release(p) ==
  /\ op[p] = "exchange"
  /\ IF closed
       THEN /\ op' = [op EXCEPT ![p] = "panicked"]
            /\ UNCHANGED <<pool, conn>>
       ELSE /\ op' = [op EXCEPT ![p] = "leave"]
            /\ conn' = [conn EXCEPT ![p] = NoConn]
            /\ pool' = pool \cup {conn[p]}
  /\ UNCHANGED <<made, closed, open>>

LeaveSem(p) ==
  /\ op[p] = "leave"
  /\ op' = [op EXCEPT ![p] = "idle"]
  /\ UNCHANGED <<pool, made, closed, open, conn>>

CloseChannel ==
  /\ ~closed
  /\ closed' = TRUE
  /\ UNCHANGED <<pool, made, open, op, conn>>

\* Mutant: Close closes the sockets of the connections in use, too.
Drain_All ==
  /\ closed
  /\ \E c \in open : open' = open \ {c} /\ pool' = pool \ {c}
  /\ UNCHANGED <<made, closed, op, conn>>

\* The loop of Close competes with the goroutines that wait for a connection.
Drain ==
  /\ closed
  /\ \E c \in pool : open' = open \ {c} /\ pool' = pool \ {c}
  /\ UNCHANGED <<made, closed, op, conn>>

-----------------------------------------------------------------------------
Step(p) == EnterSem(p) \/ Acquire(p) \/ AcquireNil(p) \/ Release(p) \/ LeaveSem(p)

PoolNext == CloseChannel \/ Drain \/ \E p \in Callers : Request(p) \/ Step(p)

PoolSpec == PoolInit /\ [][PoolNext]_poolVars

-----------------------------------------------------------------------------
(***************************************************************************)
(* Properties.                                                             *)
(***************************************************************************)
Positions == {"idle", "sem", "acquire", "exchange", "leave", "panicked"}

\* Type invariant of the pool and of what each goroutine holds.
PoolTypeOK ==
  /\ made \in SUBSET Conns
  /\ pool \in SUBSET open
  /\ open \in SUBSET made
  /\ closed \in BOOLEAN
  /\ op \in [Callers -> Positions]
  /\ conn \in [Callers -> made \cup {NoConn}]

InUse == {conn[p] : p \in {q \in Callers : op[q] = "exchange"}}

\* Until Close, every connection is either in the channel or in use by exactly one
\* goroutine, whatever fails: none is lost, none is shared, and giving one back never
\* finds the channel full.  And none that is in use has its socket closed, not even
\* while Close drains the pool.
ConnectionsAreConserved ==
  /\ ~closed => pool \cup InUse = made
  /\ InUse \subseteq open \ pool
  /\ \A p, q \in Callers :
       p # q /\ op[p] = "exchange" /\ op[q] = "exchange" => conn[p] # conn[q]

\* The pool keeps the promise of ExchangeLimit: as many exchanges as the semaphore
\* admits and as there are connections, whichever is less, before, during and after
\* Close.
Exchanges ==
  INSTANCE ExchangeLimit
    WITH busy  <- {p \in Callers : op[p] = "exchange"},
         Slots <- IF Limit < Cardinality(Conns) THEN Limit ELSE Cardinality(Conns)

ExchangesAreLimited == Exchanges!Spec
=============================================================================
