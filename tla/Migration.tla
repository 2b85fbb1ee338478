------------------------------ MODULE Migration ------------------------------
(***************************************************************************)
(* The upgrade of a history database to version 3 when the process opens   *)
(* it (internal/store/timescale.go, timescale_v3.go), and the first polls  *)
(* of the upgraded process.                                                *)
(*                                                                         *)
(* Versions 1 and 2 stored samples and identities only.  Version 3 derives *)
(* from the samples what the poller has recorded since: the event logs,    *)
(* the port states, and the identities' "status since".  This is a dozen   *)
(* statements with no transaction around them; the version is recorded     *)
(* last, and a start that finds a lower version does all of them again.    *)
(* Any statement may fail, applied or not; a crash looks the same to the   *)
(* next start, which begins from the first statement.  The store is in     *)
(* nobody's hands before the last one, so nothing else writes.  What only  *)
(* creates tables, columns and indexes that are not there yet is left out. *)
(*                                                                         *)
(* The time of a sample is its position in the table.  Bound: the rows of  *)
(* a serial number have different times.                                   *)
(***************************************************************************)
EXTENDS EventLog

CONSTANTS Serials,     \* serial numbers
          Statuses,    \* operational states
          Links,       \* states of a UNI port
          Ports,       \* numbers of the ports a walk may see
          Models,      \* numbers of ports of the ONU models (0: unknown model)
          MaxOld,      \* bound on the samples there are before the upgrade
          MaxSamples   \* bound on the samples there are at all

ASSUME SerialsAssumption == Blank \notin Serials
ASSUME StatesAssumption  == None \notin Statuses \cup Links /\ "unknown" \in Links
ASSUME PortsAssumption   == Ports \subseteq Nat \ {0} /\ IsFiniteSet(Ports) /\ Models \subseteq Nat
ASSUME BoundsAssumption  == MaxOld \in Nat /\ MaxSamples \in Nat

VARIABLES pc,           \* the statement the process is about to execute
          version,      \* the highest row of schema_migrations
          samples,      \* onu_samples
          onus,         \* onus: identity by serial
          statusEvents, \* onu_status_events, by serial
          ethEvents,    \* onu_eth_events, by serial
          ethState,     \* onu_eth_state, by serial
          old,          \* history: how many samples there were before the upgrade
          upToDate      \* history: serials whose identity was that of the newest sample

db == <<version, samples, onus, statusEvents, ethEvents, ethState>>
vars == <<pc, db, old, upToDate>>

-----------------------------------------------------------------------------
\* What a walk sees of the ports.
PortTables == UNION {[P -> Links \ {"unknown"}] : P \in SUBSET Ports}

\* Rows without a serial number are never read: one of each status stands for all.
Samples(n) ==
  [time : {n}, serial : Serials, status : Statuses, expected : Models, ports : PortTables]
    \cup [time : {n}, serial : {Blank}, status : Statuses, expected : {0}, ports : {NoPorts}]

NoONU == [status |-> None, previous |-> None, since |-> 0, expected |-> 0,
          model |-> 0, seen |-> 0]

\* An identity as the versions before left it: the new columns are empty.
OldIdentity(x) == [NoONU EXCEPT !.status = x.status, !.model = x.expected, !.seen = x.time]

Times(s) == {i \in 1..Len(samples) : samples[i].serial = s}

Newest(s) == samples[CHOOSE i \in Times(s) : \A j \in Times(s) : j <= i]

Histories == UNION {{q \in [1..n -> UNION {Samples(i) : i \in 1..n}] :
                       \A i \in 1..n : q[i].time = i} : n \in 0..MaxOld}

\* A poll inserts its samples before it updates the identities: an identity is that
\* of some sample, or there is none yet.  Version 1 has no ports.
Init ==
  /\ pc = "closed"
  /\ version \in 0..2
  /\ samples \in Histories
  /\ version = 0 => samples = <<>>
  /\ version = 1 => \A i \in DOMAIN samples : samples[i].ports = NoPorts
  /\ onus \in [Serials -> {NoONU} \cup {OldIdentity(samples[i]) : i \in DOMAIN samples}]
  /\ \A s \in Serials : onus[s] # NoONU => samples[onus[s].seen].serial = s
  /\ upToDate = {s \in Serials : Times(s) = {} \/ onus[s].status = Newest(s).status}
  /\ old = Len(samples)
  /\ statusEvents = [s \in Serials |-> <<>>]
  /\ ethEvents = [s \in Serials |-> <<>>]
  /\ ethState = [s \in Serials |-> NoPorts]

-----------------------------------------------------------------------------
(***************************************************************************)
(* The statements.                                                         *)
(***************************************************************************)
\* Mutant: the version is recorded as soon as the columns are there.
After_RecordFirst(here) ==
  CASE here = "record1" -> "record2" [] here = "record2" -> "record3"
    [] here = "record3" -> "delete status" [] here = "delete status" -> "delete eth"
    [] here = "delete eth" -> "truncate" [] here = "truncate" -> "insert status"
    [] here = "insert status" -> "insert eth" [] here = "insert eth" -> "eth state"
    [] here = "eth state" -> "since" [] here = "since" -> "no since"
    [] here = "no since" -> "expected" [] here = "expected" -> "open"

After(here) ==
  CASE here = "record1" -> "record2" [] here = "record2" -> "delete status"
    [] here = "delete status" -> "delete eth" [] here = "delete eth" -> "truncate"
    [] here = "truncate" -> "insert status" [] here = "insert status" -> "insert eth"
    [] here = "insert eth" -> "eth state" [] here = "eth state" -> "since"
    [] here = "since" -> "no since" [] here = "no since" -> "expected"
    [] here = "expected" -> "record3" [] here = "record3" -> "open"

\* Mutant: the error of a statement is only logged.
Execute_Logged(here, Effect) ==
  /\ pc = here
  /\ (Effect \/ UNCHANGED db) /\ pc' = After(here)
  /\ UNCHANGED <<old, upToDate>>

\* A failed statement makes OpenTimescale close the pool and give up: the process
\* ends, or serves without history until its next start.
Execute(here, Effect) ==
  /\ pc = here
  /\ \/ Effect /\ pc' = After(here)
     \/ (Effect \/ UNCHANGED db) /\ pc' = "closed"
  /\ UNCHANGED <<old, upToDate>>

\* Mutant: the backfill is done at every start.
OpenTimescale_Always ==
  /\ pc = "closed"
  /\ pc' = CASE version = 0 -> "record1" [] version = 1 -> "record2" [] OTHER -> "delete status"
  /\ UNCHANGED <<db, old, upToDate>>

OpenTimescale ==
  /\ pc = "closed"
  /\ pc' = CASE version = 0 -> "record1" [] version = 1 -> "record2"
             [] version = 2 -> "delete status" [] OTHER -> "open"
  /\ UNCHANGED <<db, old, upToDate>>

RecordVersion(here, n) ==
  Execute(here, /\ version' = n
                /\ UNCHANGED <<samples, onus, statusEvents, ethEvents, ethState>>)

\* What the DELETE of the backfill's rows leaves of a log.
WithoutBackfill(log) ==
  LET kept[i \in 0..Len(log)] ==
        IF i = 0 THEN <<>>
        ELSE IF log[i].source = "backfill" THEN kept[i - 1] ELSE Append(kept[i - 1], log[i]) IN
  kept[Len(log)]

\* Mutant: what an attempt that failed has left behind stays.
DeleteStatusEvents_Skipped == Execute("delete status", UNCHANGED db)

DeleteStatusEvents ==
  Execute("delete status",
    /\ statusEvents' = [s \in Serials |-> WithoutBackfill(statusEvents[s])]
    /\ UNCHANGED <<version, samples, onus, ethEvents, ethState>>)

DeleteEthEvents ==
  Execute("delete eth",
    /\ ethEvents' = [s \in Serials |-> WithoutBackfill(ethEvents[s])]
    /\ UNCHANGED <<version, samples, onus, statusEvents, ethState>>)

TruncateEthState ==
  Execute("truncate",
    /\ ethState' = [s \in Serials |-> NoPorts]
    /\ UNCHANGED <<version, samples, onus, statusEvents, ethEvents>>)

\* One row of a serial: the status and the ports after it, and the events up to it.
ScanRow(was, x) ==
  [status |-> x.status,
   ports  |-> UpdatePorts(was.ports, x),
   events |-> was.events \o StatusEventsFrom(was.status, x, "backfill"),
   eth    |-> was.eth \o EthEventsFrom(was.ports, x, "backfill")]

NothingScanned == [status |-> None, ports |-> NoPorts, events |-> <<>>, eth |-> <<>>]

\* The loop over the rows of a serial, in the order of their times.
Scan(s) ==
  LET scan[i \in 0..Len(samples)] ==
        IF i = 0 THEN NothingScanned
        ELSE IF samples[i].serial # s THEN scan[i - 1]
        ELSE ScanRow(scan[i - 1], ApplyExpectedPorts(samples[i])) IN
  scan[Len(samples)]

InsertStatusEvents ==
  Execute("insert status",
    /\ statusEvents' = [s \in Serials |-> statusEvents[s] \o Scan(s).events]
    /\ UNCHANGED <<version, samples, onus, ethEvents, ethState>>)

InsertEthEvents ==
  Execute("insert eth",
    /\ ethEvents' = [s \in Serials |-> ethEvents[s] \o Scan(s).eth]
    /\ UNCHANGED <<version, samples, onus, statusEvents, ethState>>)

\* The port states are those of the newest sample alone, one statement for each serial
\* and port, in the order of a map: a failed loop leaves any part of them.
LatestPorts(s) ==
  IF Times(s) = {} THEN NoPorts ELSE ApplyExpectedPorts(Newest(s)).ports

UpsertEthState(done) ==
  ethState' = [s \in Serials |->
    LET rows == {p \in DOMAIN LatestPorts(s) : <<s, p>> \in done}
        all  == DOMAIN ethState[s] \cup rows IN
    [p \in all |-> IF p \in rows THEN LatestPorts(s)[p] ELSE ethState[s][p]]]

AllPorts == UNION {{s} \X DOMAIN LatestPorts(s) : s \in Serials}

BackfillEthState ==
  /\ pc = "eth state"
  /\ \E done \in SUBSET AllPorts :
       /\ UpsertEthState(done)
       /\ pc' \in {"closed"} \cup (IF done = AllPorts THEN {After(pc)} ELSE {})
  /\ UNCHANGED <<version, samples, onus, statusEvents, ethEvents, old, upToDate>>

Last(log) == log[Len(log)]

SinceNewestEvent(s) ==
  IF statusEvents[s] = <<>> THEN onus[s]
  ELSE [onus[s] EXCEPT !.previous = Last(statusEvents[s]).previous,
                       !.since = Last(statusEvents[s]).time]

BackfillSince ==
  Execute("since",
    /\ onus' = [s \in Serials |-> IF onus[s] = NoONU THEN NoONU ELSE SinceNewestEvent(s)]
    /\ UNCHANGED <<version, samples, statusEvents, ethEvents, ethState>>)

SinceLastSeen ==
  Execute("no since",
    /\ onus' = [s \in Serials |-> IF onus[s].since # 0 THEN onus[s]
                                  ELSE [onus[s] EXCEPT !.since = onus[s].seen]]
    /\ UNCHANGED <<version, samples, statusEvents, ethEvents, ethState>>)

\* One statement for each identity, in any order.
BackfillExpectedPorts ==
  /\ pc = "expected"
  /\ \E done \in SUBSET Serials :
       /\ onus' = [s \in Serials |->
            IF s \in done /\ onus[s].expected = 0
              THEN [onus[s] EXCEPT !.expected = onus[s].model] ELSE onus[s]]
       /\ pc' \in {"closed"} \cup (IF done = Serials THEN {After(pc)} ELSE {})
  /\ UNCHANGED <<version, samples, statusEvents, ethEvents, ethState, old, upToDate>>

-----------------------------------------------------------------------------
(***************************************************************************)
(* A poll of the upgraded process that is not interrupted, and its end.    *)
(***************************************************************************)
IdentityRow(was, x) ==
  LET new == was = NoONU \/ was.status # x.status IN
  [status |-> x.status, seen |-> x.time, model |-> x.expected, expected |-> x.expected,
   previous |-> IF new THEN was.status ELSE was.previous,
   since    |-> IF new THEN x.time ELSE was.since]

\* Mutant: the identities are updated before the events are derived.
RecordSampleTransitions_AfterUpsert(s, x) ==
  /\ statusEvents' = [statusEvents EXCEPT ![s] = @ \o StatusEventsFrom(x.status, x, "poller")]
  /\ ethEvents' = [ethEvents EXCEPT ![s] = @ \o EthEventsFrom(ethState[s], x, "poller")]
  /\ ethState' = [ethState EXCEPT ![s] = UpdatePorts(@, x)]

RecordSampleTransitions(s, x) ==
  /\ statusEvents' = [statusEvents EXCEPT ![s] =
                        @ \o StatusEventsFrom(onus[s].status, x, "poller")]
  /\ ethEvents' = [ethEvents EXCEPT ![s] = @ \o EthEventsFrom(ethState[s], x, "poller")]
  /\ ethState' = [ethState EXCEPT ![s] = UpdatePorts(@, x)]

PollPON ==
  /\ pc = "open" /\ Len(samples) < MaxSamples
  /\ \E r \in Samples(Len(samples) + 1) :
       LET x == ApplyExpectedPorts(r) IN
       /\ r.serial # Blank
       /\ RecordSampleTransitions(x.serial, x)
       /\ samples' = Append(samples, x)
       /\ onus' = [onus EXCEPT ![x.serial] = IdentityRow(@, x)]
  /\ UNCHANGED <<pc, version, old, upToDate>>

Close ==
  /\ pc = "open"
  /\ pc' = "closed"
  /\ UNCHANGED <<db, old, upToDate>>

Next ==
  \/ OpenTimescale
  \/ RecordVersion("record1", 1) \/ RecordVersion("record2", 2) \/ RecordVersion("record3", 3)
  \/ DeleteStatusEvents \/ DeleteEthEvents \/ TruncateEthState
  \/ InsertStatusEvents \/ InsertEthEvents \/ BackfillEthState
  \/ BackfillSince \/ SinceLastSeen \/ BackfillExpectedPorts
  \/ PollPON \/ Close

Spec == Init /\ [][Next]_vars

-----------------------------------------------------------------------------
(***************************************************************************)
(* Properties.                                                             *)
(***************************************************************************)
Statements == {"record1", "record2", "record3", "delete status", "delete eth", "truncate",
               "insert status", "insert eth", "eth state", "since", "no since", "expected"}

Upgraded == version = 3

\* Type invariant.  Whoever uses the store finds version 3.
TypeOK ==
  /\ pc \in Statements \cup {"closed", "open"}
  /\ version \in 0..3
  /\ pc = "open" => Upgraded
  /\ \A i \in DOMAIN samples : samples[i].time = i
  /\ \A s \in Serials : /\ DOMAIN ethState[s] \subseteq Nat
                         /\ \A p \in DOMAIN ethState[s] : ethState[s][p] \in Links

\* The times at which an ONU changed its state, seen from the samples alone.
Turns(s) ==
  {i \in Times(s) : i <= old /\
     \A j \in Times(s) : (j < i /\ samples[j].status = samples[i].status) =>
        \E k \in Times(s) : j < k /\ k < i /\ samples[k].status # samples[i].status}

\* However often the upgrade was interrupted, once version 3 is recorded the status
\* log begins with the changes the old samples show, each of them once and in order,
\* and goes on with what the poller saw (migrateV3, backfillEventsFromSamples).
StatusLogIsSampleHistory ==
  Upgraded => \A s \in Serials :
    LET log == statusEvents[s]  n == Cardinality(Turns(s)) IN
    /\ Len(log) >= n
    /\ \A k \in 1..n : /\ log[k].source = "backfill" /\ log[k].time \in Turns(s)
                       /\ log[k].status = samples[log[k].time].status
                       /\ log[k].previous = IF k = 1 THEN None ELSE log[k - 1].status
                       /\ k > 1 => log[k - 1].time < log[k].time
    /\ \A k \in (n + 1)..Len(log) : log[k].source = "poller" /\ log[k].time > old

\* An identity that was up to date when the upgrade began makes the poller go on where
\* the backfill ended: each event changes the state the one before ended in, and the
\* log ends in the state the identity shows.  (An identity whose last poll of the old
\* version was interrupted can lie behind its own log.)
LogContinues ==
  Upgraded => \A s \in upToDate :
    LET log == statusEvents[s] IN
    /\ \A k \in 2..Len(log) : log[k].previous = log[k - 1].status /\ log[k].status # log[k].previous
    /\ log # <<>> => Last(log).status = onus[s].status

\* "Status since" of every identity, up to date or not, is the time of the newest event
\* of the log, and its previous state is that of the event (the UPDATE at the end of
\* the backfill, UpsertONUs).
SinceIsNewestEvent ==
  Upgraded => \A s \in Serials : onus[s] # NoONU =>
    /\ statusEvents[s] # <<>>
    /\ onus[s].since = Last(statusEvents[s]).time
    /\ onus[s].previous = Last(statusEvents[s]).previous

\* The events of the same port before the k-th of a log.
SamePortBefore(log, k) == {j \in 1..(k - 1) : log[j].port = log[k].port}

\* The port table and the port log agree although the backfill derives them in two
\* ways: a port's row is what the newest event of the port ended in, an event starts
\* from what the one before ended in, and changes it.  A port that the newest old
\* sample did not list has no row, and starts from nothing when it is seen again.
PortTableMatchesLog ==
  Upgraded => \A s \in Serials : LET log == ethEvents[s] IN
    /\ \A p \in DOMAIN ethState[s] :
         \E k \in DOMAIN log : /\ log[k].port = p /\ log[k].link = ethState[s][p]
                               /\ \A j \in DOMAIN log : log[j].port = p => j <= k
    /\ \A k \in DOMAIN log : LET earlier == SamePortBefore(log, k) IN
         /\ log[k].link # log[k].previous
         /\ log[k].previous # None =>
              \E j \in earlier : log[j].link = log[k].previous /\ \A i \in earlier : i <= j
         /\ log[k].source = "backfill" /\ earlier # {} => log[k].previous # None

Continues(log, new) == Len(log) <= Len(new) /\ SubSeq(new, 1, Len(log)) = log

\* An upgraded database is not upgraded again: no restart takes back or repeats what
\* the logs hold.
LogsOnlyGrow ==
  [][Upgraded => /\ version' = 3
                 /\ \A s \in Serials : /\ Continues(statusEvents[s], statusEvents'[s])
                                       /\ Continues(ethEvents[s], ethEvents'[s])]_vars
=============================================================================
