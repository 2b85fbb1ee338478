------------------------------ MODULE EventLog ------------------------------
(***************************************************************************)
(* How the store derives change events from samples (internal/store/       *)
(* events.go): the pure part that the poller's RecordSampleTransitions,    *)
(* the migration's backfill and the in-memory store share.                 *)
(*                                                                         *)
(* A sample is [serial, time, status, expected, ports]: "expected" is the  *)
(* number of UNI ports of the ONU's model (0: unknown model) and "ports" a *)
(* function from the port numbers the walk saw to the state of each, admin *)
(* and link state together.  A serial without an identity, and a port      *)
(* without a row, has no previous state: None.  Statuses are compared      *)
(* without case in the code; here they have none.                          *)
(***************************************************************************)
EXTENDS Naturals, Sequences, FiniteSets

None  == ""   \* no previous state
Blank == ""   \* the serial number of a row that could not be read

-----------------------------------------------------------------------------
\* A walk that saw fewer ports than the model has is padded to the ports 1..expected;
\* a port above them is dropped.
ApplyExpectedPorts(x) ==
  IF Cardinality(DOMAIN x.ports) >= x.expected THEN x
  ELSE [x EXCEPT !.ports = [i \in 1..x.expected |->
          IF i \in DOMAIN x.ports THEN x.ports[i] ELSE "unknown"]]

StatusChanged(previous, x) == x.serial # Blank /\ previous # x.status

StatusEventFrom(previous, x, source) ==
  [time |-> x.time, status |-> x.status, previous |-> previous, source |-> source]

StatusEventsFrom(previous, x, source) ==
  IF StatusChanged(previous, x) THEN <<StatusEventFrom(previous, x, source)>> ELSE <<>>

\* The state of a port in a table of known ports.
PortState(table, p) == IF p \in DOMAIN table THEN table[p] ELSE None

PortsChanged(table, x) == {p \in DOMAIN x.ports : PortState(table, p) # x.ports[p]}

EthEventFrom(table, x, p, source) ==
  [time |-> x.time, port |-> p, link |-> x.ports[p],
   previous |-> PortState(table, p), source |-> source]

\* The ports of a sample come in the order of their numbers.
EthEventsFrom(table, x, source) ==
  LET changed == PortsChanged(table, x)
      highest == IF changed = {} THEN 0 ELSE CHOOSE p \in changed : \A q \in changed : q <= p
      from[p \in 0..highest] ==
        IF p = 0 THEN <<>>
        ELSE IF p \in changed THEN Append(from[p - 1], EthEventFrom(table, x, p, source))
        ELSE from[p - 1] IN
  from[highest]

\* Mutant: ports a walk did not see are forgotten.
UpdatePorts_Replaces(table, x) == x.ports

\* A sample's ports overwrite those of the table; ports it does not list stay.
UpdatePorts(table, x) ==
  [p \in DOMAIN table \cup DOMAIN x.ports |->
     IF p \in DOMAIN x.ports THEN x.ports[p] ELSE table[p]]

NoPorts == [p \in {} |-> None]
=============================================================================
