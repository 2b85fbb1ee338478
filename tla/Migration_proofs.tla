-------------------------- MODULE Migration_proofs --------------------------
(***************************************************************************)
(* What holds of the upgrade for every database.                           *)
(*                                                                         *)
(* Progress is where the process stands: between two starts, in the        *)
(* upgrade of a lower version, or done.  UpgradeInv says in addition what  *)
(* the statements before the next one have done (Staged), that until then  *)
(* the logs hold nothing but the backfill's (Steady), and that a recorded  *)
(* upgrade is complete and every poll since has kept it so (Done).  What   *)
(* the backfill writes is the value of Scan, a recursion over the samples: *)
(* ScanLogsTurns and ScanLogsPorts are inductions over them.               *)
(***************************************************************************)
EXTENDS Migration, EventLog_proofs

\* The process is between two starts, in the upgrade of a lower version, or done.
Progress ==
  /\ version \in 0..3
  /\ pc \in Statements \cup {"closed", "open"}
  /\ pc \in Statements => version # 3
  /\ pc = "open" => version = 3

LEMMA ProgressInit == Init => Progress
  BY SMT DEF Init, Progress, Statements

\* Only the last statement has none behind it.
LEMMA AfterStatement ==
  ASSUME NEW here \in Statements \ {"record3"}
  PROVE  After(here) \in Statements
<1>1. CASE here = "record1"
  BY <1>1, Zenon DEF After, Statements
<1>2. CASE here = "record2"
  BY <1>2, Zenon DEF After, Statements
<1>3. CASE here = "delete status"
  BY <1>3, Zenon DEF After, Statements
<1>4. CASE here = "delete eth"
  BY <1>4, Zenon DEF After, Statements
<1>5. CASE here = "truncate"
  BY <1>5, Zenon DEF After, Statements
<1>6. CASE here = "insert status"
  BY <1>6, Zenon DEF After, Statements
<1>7. CASE here = "insert eth"
  BY <1>7, Zenon DEF After, Statements
<1>8. CASE here = "eth state"
  BY <1>8, Zenon DEF After, Statements
<1>9. CASE here = "since"
  BY <1>9, Zenon DEF After, Statements
<1>10. CASE here = "no since"
  BY <1>10, Zenon DEF After, Statements
<1>11. CASE here = "expected"
  BY <1>11, Zenon DEF After, Statements
<1> QED
  BY <1>1, <1>2, <1>3, <1>4, <1>5, <1>6, <1>7, <1>8, <1>9, <1>10, <1>11 DEF Statements

\* A statement that records no version leaves it alone.
LEMMA StatementsProgress ==
  ASSUME Progress, version' = version,
         pc \in Statements \ {"record3"},
         pc' \in {After(pc), "closed"}
  PROVE  Progress'
<1>1. After(pc) \in Statements
  BY AfterStatement
<1> QED
  BY <1>1 DEF Progress, Statements

\* The last statement is the one that records version 3.
LEMMA RecordsProgress ==
  ASSUME Progress,
         NEW n \in 1..3, NEW here \in {"record1", "record2", "record3"},
         here = "record3" <=> n = 3,
         RecordVersion(here, n)
  PROVE  Progress'
<1>1. pc = here /\ \/ version' = n /\ pc' = After(here)
                   \/ (version' = n \/ version' = version) /\ pc' = "closed"
  BY DEF RecordVersion, Execute, db
<1>2. version # 3 /\ version \in 0..3
  BY <1>1 DEF Progress, Statements
<1>3. CASE here = "record3"
  <2>1. After(here) = "open"
    BY <1>3, Zenon DEF After
  <2>2. n = 3
    BY <1>3
  <2>3. version' \in 0..3 /\ (pc' = "open" => version' = 3) /\ pc' \in {"open", "closed"}
    BY <1>1, <1>2, <2>1, <2>2
  <2> QED
    BY <2>3 DEF Progress, Statements
<1>4. CASE here # "record3"
  <2>1. After(here) \in Statements
    BY <1>4, AfterStatement DEF Statements
  <2>2. "closed" \notin Statements /\ "open" \notin Statements
    BY DEF Statements
  <2>3. version' \in 0..3 /\ version' # 3
    BY <1>1, <1>2, <1>4
  <2> QED
    BY <1>1, <2>1, <2>2, <2>3 DEF Progress
<1> QED
  BY <1>3, <1>4

LEMMA ProgressNext == Progress /\ [Next]_vars => Progress'
<1> SUFFICES ASSUME Progress, [Next]_vars PROVE Progress'
  OBVIOUS
<1>1. CASE OpenTimescale
  <2>1. version' = version /\ version \in 0..3
    BY <1>1 DEF OpenTimescale, db, Progress
  <2>2. CASE version = 3
    <3>1. pc' = "open"
      BY <1>1, <2>2 DEF OpenTimescale
    <3> QED
      BY <2>1, <2>2, <3>1 DEF Progress, Statements
  <2>3. CASE version # 3
    <3>1. pc' \in {"record1", "record2", "delete status"}
      <4>1. version = 0 \/ version = 1 \/ version = 2
        BY <2>1, <2>3
      <4>2. ASSUME version = 0 PROVE pc' = "record1"
        BY <1>1, <4>2 DEF OpenTimescale
      <4>3. ASSUME version = 1 PROVE pc' = "record2"
        BY <1>1, <4>3 DEF OpenTimescale
      <4>4. ASSUME version = 2 PROVE pc' = "delete status"
        <5>1. version # 0 /\ version # 1 /\ version # 3
          BY <4>4
        <5> QED
          BY <1>1, <4>4, <5>1, Zenon DEF OpenTimescale
      <4> QED
        BY <4>1, <4>2, <4>3, <4>4
    <3> QED
      BY <2>1, <2>3, <3>1 DEF Progress, Statements
  <2> QED
    BY <2>2, <2>3
<1>2. CASE RecordVersion("record1", 1) \/ RecordVersion("record2", 2) \/ RecordVersion("record3", 3)
  BY <1>2, RecordsProgress
<1>3. ASSUME \/ DeleteStatusEvents \/ DeleteEthEvents \/ TruncateEthState
             \/ InsertStatusEvents \/ InsertEthEvents \/ BackfillEthState
             \/ BackfillSince \/ SinceLastSeen \/ BackfillExpectedPorts
      PROVE  Progress'
  <2>1. version' = version /\ pc \in Statements \ {"record3"} /\ pc' \in {After(pc), "closed"}
    BY <1>3 DEF DeleteStatusEvents, DeleteEthEvents, TruncateEthState, InsertStatusEvents,
       InsertEthEvents, BackfillEthState, BackfillSince, SinceLastSeen, BackfillExpectedPorts,
       Execute, db, Statements
  <2> QED
    BY <2>1, StatementsProgress
<1>4. CASE PollPON \/ Close
  BY <1>4 DEF PollPON, Close, db, Progress, Statements
<1>5. CASE UNCHANGED vars
  BY <1>5 DEF vars, db, Progress
<1> QED
  BY <1>1, <1>2, <1>3, <1>4, <1>5 DEF Next

\* The store is handed out only when version 3 is recorded, whatever failed before and
\* however often (OpenTimescale: every error closes the pool).
THEOREM OpenIsUpgraded == Spec => [](pc = "open" => Upgraded)
<1>1. Progress => (pc = "open" => Upgraded)
  BY DEF Progress, Upgraded
<1> QED
  BY ProgressInit, ProgressNext, <1>1, PTL DEF Spec

\* Once version 3 is recorded no step of any later start touches the logs, the port
\* states or the identities: only a poll does, and the version stays (migrateV3 is
\* behind the look at the version).
THEOREM UpgradedOnce ==
  Spec => [][Upgraded => /\ version' = 3
                         /\ PollPON \/ UNCHANGED <<samples, onus, statusEvents, ethEvents, ethState>>]_vars
<1>1. ASSUME Progress, [Next]_vars, Upgraded
      PROVE  /\ version' = 3
             /\ PollPON \/ UNCHANGED <<samples, onus, statusEvents, ethEvents, ethState>>
  <2>1. pc \notin Statements
    BY <1>1 DEF Progress, Upgraded
  <2>2. CASE PollPON
    BY <1>1, <2>2 DEF PollPON, Upgraded
  <2>3. CASE OpenTimescale \/ Close \/ UNCHANGED vars
    BY <1>1, <2>3 DEF OpenTimescale, Close, vars, db, Upgraded
  <2>4. ~(RecordVersion("record1", 1) \/ RecordVersion("record2", 2) \/ RecordVersion("record3", 3))
    BY <2>1 DEF RecordVersion, Execute, Statements
  <2>5. ~(\/ DeleteStatusEvents \/ DeleteEthEvents \/ TruncateEthState
          \/ InsertStatusEvents \/ InsertEthEvents \/ BackfillEthState
          \/ BackfillSince \/ SinceLastSeen \/ BackfillExpectedPorts)
    BY <2>1 DEF DeleteStatusEvents, DeleteEthEvents, TruncateEthState, InsertStatusEvents,
       InsertEthEvents, BackfillEthState, BackfillSince, SinceLastSeen, BackfillExpectedPorts,
       Execute, Statements
  <2> QED
    BY <1>1, <2>2, <2>3, <2>4, <2>5 DEF Next
<1>2. Progress /\ [Next]_vars =>
        [Upgraded => /\ version' = 3
                     /\ PollPON \/ UNCHANGED <<samples, onus, statusEvents, ethEvents, ethState>>]_vars
  BY <1>1
<1> QED
  BY ProgressInit, ProgressNext, <1>2, PTL DEF Spec
-----------------------------------------------------------------------------
(***************************************************************************)
(* What the scan of the samples of a serial gives.                         *)
(***************************************************************************)
Known == Statuses \cup {None}

Row == Rows(Serials \cup {Blank}, Statuses, Links)

StatusLogs == Seq(StatusEvents(Statuses))
EthLogs    == Seq(EthEvents(Links))

\* The table of samples: the time of a row is its position.
SamplesTyped ==
  /\ samples \in Seq(Row)
  /\ \A i \in DOMAIN samples : samples[i].time = i

ScanStates == [status : Known, ports : Tables(Links), events : StatusLogs, eth : EthLogs]

\* A row as the scan reads it.
Read(i) == ApplyExpectedPorts(samples[i])

LEMMA ReadType ==
  ASSUME SamplesTyped, NEW i \in DOMAIN samples
  PROVE  /\ Read(i) \in Row
         /\ Read(i).time = i /\ Read(i).serial = samples[i].serial
         /\ Read(i).status = samples[i].status /\ Read(i).status \in Statuses
         /\ Read(i).expected = samples[i].expected
<1>1. samples[i] \in Row /\ samples[i].time = i
  BY DEF SamplesTyped
<1>2. "unknown" \in Links
  BY StatesAssumption
<1>3. /\ Read(i) \in Row
      /\ Read(i).time = i /\ Read(i).serial = samples[i].serial
      /\ Read(i).status = samples[i].status
      /\ Read(i).expected = samples[i].expected
  BY <1>1, <1>2, ApplyExpectedPortsType DEF Read, Row
<1> QED
  BY <1>3 DEF Row, Rows

\* An event is the single one of its sample, or the status is the one there was.
LEMMA StatusEventsType ==
  ASSUME NEW previous \in Known, NEW x \in Row, x.serial # Blank, NEW source \in Sources
  PROVE  LET log == StatusEventsFrom(previous, x, source)
             e == StatusEventFrom(previous, x, source) IN
         /\ log \in StatusLogs
         /\ log = IF previous # x.status THEN <<e>> ELSE <<>>
         /\ e \in StatusEvents(Statuses)
<1> DEFINE e == StatusEventFrom(previous, x, source)
<1>1. e \in StatusEvents(Statuses)
  BY DEF StatusEventFrom, StatusEvents, Row, Rows, Known
<1>2. StatusEventsFrom(previous, x, source) = IF previous # x.status THEN <<e>> ELSE <<>>
  BY DEF StatusEventsFrom, StatusChanged
<1> HIDE DEF e
<1>3. <<e>> \in StatusLogs /\ <<>> \in StatusLogs
  BY <1>1 DEF StatusLogs
<1> QED
  BY <1>1, <1>2, <1>3 DEF e

LEMMA ScanRowFields ==
  ASSUME NEW v, NEW x
  PROVE  /\ ScanRow(v, x).status = x.status
         /\ ScanRow(v, x).ports = UpdatePorts(v.ports, x)
         /\ ScanRow(v, x).events = v.events \o StatusEventsFrom(v.status, x, "backfill")
         /\ ScanRow(v, x).eth = v.eth \o EthEventsFrom(v.ports, x, "backfill")
  BY DEF ScanRow

LEMMA ScanRowType ==
  ASSUME NEW v \in ScanStates, NEW x \in Row, x.serial # Blank
  PROVE  ScanRow(v, x) \in ScanStates
<1>1. /\ v.status \in Known /\ v.ports \in Tables(Links)
      /\ v.events \in StatusLogs /\ v.eth \in EthLogs
  BY DEF ScanStates
<1>2. "backfill" \in Sources
  BY DEF Sources
<1>3. v.events \o StatusEventsFrom(v.status, x, "backfill") \in StatusLogs
  <2>1. StatusEventsFrom(v.status, x, "backfill") \in StatusLogs
    BY <1>1, <1>2, StatusEventsType
  <2> QED
    BY <1>1, <2>1 DEF StatusLogs
<1>4. v.eth \o EthEventsFrom(v.ports, x, "backfill") \in EthLogs
  <2>1. None \notin Links
    BY StatesAssumption
  <2>2. EthEventsFrom(v.ports, x, "backfill") \in EthLogs
    BY <1>1, <1>2, <2>1, EthEventsFromSample DEF Row, EthLogs
  <2> QED
    BY <1>1, <2>2 DEF EthLogs
<1>5. UpdatePorts(v.ports, x) \in Tables(Links)
  BY <1>1, UpdatePortsType DEF Row
<1>6. x.status \in Known
  BY DEF Row, Rows, Known
<1> QED
  BY <1>3, <1>4, <1>5, <1>6 DEF ScanRow, ScanStates

\* The scan is what its steps compute, one for each sample.
IsScan(s, f) ==
  f = [i \in 0..Len(samples) |->
         IF i = 0 THEN NothingScanned
         ELSE IF samples[i].serial # s THEN f[i - 1]
         ELSE ScanRow(f[i - 1], ApplyExpectedPorts(samples[i]))]

ScanSteps(s, f) ==
  /\ f \in [0..Len(samples) -> ScanStates]
  /\ f[0] = NothingScanned
  /\ \A i \in 1..Len(samples) :
       f[i] = IF samples[i].serial # s THEN f[i - 1] ELSE ScanRow(f[i - 1], Read(i))
  /\ Scan(s) = f[Len(samples)]

LEMMA ScanIsRecursive ==
  ASSUME SamplesTyped, NEW s \in Serials
  PROVE  \E f : ScanSteps(s, f)
<1> DEFINE n == Len(samples)
           V == ScanStates
           step == [i \in 1..n |-> [v \in V |->
                      IF samples[i].serial # s THEN v ELSE ScanRow(v, Read(i))]]
           scan == CHOOSE f : IsScan(s, f)
<1>1. n \in Nat /\ DOMAIN samples = 1..n
  BY DEF SamplesTyped
<1>2. NothingScanned \in V
  <2>1. None \in Known /\ <<>> \in StatusLogs /\ <<>> \in EthLogs
    BY DEF Known, StatusLogs, EthLogs
  <2>2. NoPorts \in Tables(Links)
    BY NoPortsType
  <2> QED
    BY <2>1, <2>2 DEF NothingScanned, ScanStates
<1>3. step \in [1..n -> [V -> V]]
  <2>1. ASSUME NEW i \in 1..n, NEW v \in V, samples[i].serial = s
        PROVE  ScanRow(v, Read(i)) \in V
    <3>1. Read(i) \in Row /\ Read(i).serial # Blank
      BY <1>1, <2>1, ReadType, SerialsAssumption
    <3> QED
      BY <3>1, ScanRowType
  <2> HIDE DEF V
  <2> QED
    BY <2>1
<1>4. Scan(s) = scan[n]
  BY DEF Scan, IsScan
<1> HIDE DEF n
<1>5. PICK f : Recursion(f, n, V, NothingScanned, step)
  <2> HIDE DEF V, step
  <2> QED
    BY <1>1, <1>2, <1>3, RecursionExists
<1>6. \A i \in 1..n : step[i][f[i - 1]] =
        IF samples[i].serial # s THEN f[i - 1] ELSE ScanRow(f[i - 1], Read(i))
  <2>1. \A i \in 1..n : i - 1 \in 0..n
    BY <1>1
  <2>2. \A i \in 1..n : f[i - 1] \in V
    BY <1>5, <2>1 DEF Recursion
  <2> HIDE DEF V
  <2> QED
    BY <2>2
<1> HIDE DEF step, V
<1>7. IsScan(s, f)
  <2>1. f = [i \in 0..n |-> f[i]] /\ f[0] = NothingScanned
    BY <1>5 DEF Recursion
  <2>2. \A i \in 0..n : f[i] = IF i = 0 THEN NothingScanned
          ELSE IF samples[i].serial # s THEN f[i - 1]
          ELSE ScanRow(f[i - 1], ApplyExpectedPorts(samples[i]))
    <3>1. \A i \in 0..n : i # 0 => i \in 1..n
      BY <1>1
    <3> QED
      BY <1>5, <1>6, <2>1, <3>1, Zenon DEF Recursion, Read
  <2> QED
    BY <2>1, <2>2, Zenon DEF IsScan, n
<1>8. IsScan(s, scan)
  BY <1>7
<1> HIDE DEF scan
<1> DEFINE I == {i \in Nat : i <= n => scan[i] = f[i]}
<1>9. 0 \in I
  BY <1>1, <1>5, <1>8 DEF IsScan, Recursion, n
<1>10. ASSUME NEW i \in Nat, i \in I, i + 1 <= n
       PROVE  scan[i + 1] = f[i + 1]
  <2>1. i <= n /\ i + 1 \in 1..n /\ i + 1 \in 0..n /\ (i + 1) - 1 = i /\ i + 1 # 0
    BY <1>1, <1>10
  <2>2. scan[i] = f[i]
    BY <1>10, <2>1
  <2>3. scan[i + 1] = IF samples[i + 1].serial # s THEN scan[i]
                      ELSE ScanRow(scan[i], Read(i + 1))
    BY <1>8, <2>1 DEF IsScan, Read, n
  <2>4. f[i + 1] = IF samples[i + 1].serial # s THEN f[i] ELSE ScanRow(f[i], Read(i + 1))
    BY <1>5, <1>6, <2>1 DEF Recursion
  <2> QED
    BY <2>2, <2>3, <2>4
<1>11. \A i \in Nat : i \in I
  <2>1. \A i \in Nat : i \in I => i + 1 \in I
    BY <1>10
  <2> HIDE DEF I
  <2> QED
    BY <1>9, <2>1, Induction
<1>12. Scan(s) = f[n]
  <2>1. scan[n] = f[n]
    BY <1>1, <1>11
  <2> QED
    BY <1>4, <2>1
<1>13. /\ f \in [0..n -> ScanStates] /\ f[0] = NothingScanned
       /\ \A i \in 1..n : f[i] = step[i][f[i - 1]]
  BY <1>5 DEF Recursion, V
<1>14. \A i \in 1..n : f[i] = IF samples[i].serial # s THEN f[i - 1]
                              ELSE ScanRow(f[i - 1], Read(i))
  BY <1>6, <1>13
<1> QED
  BY <1>12, <1>13, <1>14 DEF ScanSteps, n

-----------------------------------------------------------------------------
\* j is the newest of the samples of s up to the i-th.
NewestUpto(s, i, j) == j \in Times(s) /\ j <= i /\ \A h \in Times(s) : h <= i => h <= j

TurnsUpto(s, i) == {t \in Turns(s) : t <= i}

\* A log of the backfill: it starts from nothing, each event goes on from the one before.
StatusLogChained(log) ==
  \A k \in 2..Len(log) : /\ log[k].previous = log[k - 1].status
                         /\ log[k].status # log[k].previous
                         /\ log[k - 1].time < log[k].time

\* A log holds the turns up to the i-th sample, once each and in order, and ends in the
\* status.
TurnsLogged(s, i, log, status) ==
  /\ log = <<>> <=> status = None
  /\ log # <<>> => log[1].previous = None /\ Last(log).status = status
  /\ StatusLogChained(log)
  /\ \A k \in DOMAIN log : /\ log[k].source = "backfill" /\ log[k].time \in TurnsUpto(s, i)
                           /\ log[k].status = samples[log[k].time].status
  /\ IsFiniteSet(TurnsUpto(s, i)) /\ Cardinality(TurnsUpto(s, i)) = Len(log)

\* The status of the scan is that of the newest sample.
StatusScanned(s, i, status) ==
  /\ status = None => \A j \in Times(s) : ~(j <= i)
  /\ status # None => \E j \in Times(s) : NewestUpto(s, i, j) /\ samples[j].status = status

\* A sample is a turn when the status before it was another.
LEMMA TurnIsChange ==
  ASSUME SamplesTyped, old = Len(samples), NEW s \in Serials, NEW i \in Nat, i + 1 \in Times(s),
         NEW status, StatusScanned(s, i, status)
  PROVE  i + 1 \in Turns(s) <=> status # samples[i + 1].status
<1>1. \A j \in Times(s) : j \in Nat /\ j <= old
  BY DEF Times, SamplesTyped
<1>2. samples[i + 1].status # None
  <2>1. i + 1 \in DOMAIN samples
    BY DEF Times, SamplesTyped
  <2>2. samples[i + 1] \in Row
    BY <2>1 DEF SamplesTyped
  <2>3. samples[i + 1].status \in Statuses
    BY <2>2 DEF Row, Rows
  <2> QED
    BY <2>3, StatesAssumption
<1>3. ASSUME status # samples[i + 1].status
      PROVE  i + 1 \in Turns(s)
  <2> SUFFICES ASSUME NEW j \in Times(s), j < i + 1, samples[j].status = samples[i + 1].status
               PROVE  \E k \in Times(s) : /\ j < k /\ k < i + 1
                                          /\ samples[k].status # samples[i + 1].status
    BY <1>1 DEF Turns
  <2>1. j <= i /\ status # None
    BY <1>1 DEF StatusScanned
  <2>2. PICK k \in Times(s) : NewestUpto(s, i, k) /\ samples[k].status = status
    BY <2>1 DEF StatusScanned
  <2>3. k <= i /\ j <= k /\ j # k
    BY <1>3, <2>1, <2>2 DEF NewestUpto
  <2> QED
    BY <1>1, <1>3, <2>2, <2>3
<1>4. ASSUME i + 1 \in Turns(s), status = samples[i + 1].status
      PROVE  FALSE
  <2>1. PICK j \in Times(s) : NewestUpto(s, i, j) /\ samples[j].status = status
    BY <1>2, <1>4 DEF StatusScanned
  <2>2. j < i + 1
    BY <1>1, <2>1 DEF NewestUpto
  <2>3. PICK k \in Times(s) : j < k /\ k < i + 1
    BY <1>4, <2>1, <2>2 DEF Turns
  <2>4. k <= i
    BY <1>1, <2>3
  <2> QED
    BY <1>1, <2>1, <2>3, <2>4 DEF NewestUpto
<1> QED
  BY <1>3, <1>4

\* A log that holds the turns so far goes on with the event of the next one.
LEMMA TurnAppended ==
  ASSUME NEW s \in Serials, NEW i \in Nat, i + 1 \in Turns(s),
         NEW status \in Known, NEW x \in Row, x.time = i + 1, x.serial # Blank,
         x.status = samples[i + 1].status, x.status # status,
         NEW log \in StatusLogs, TurnsLogged(s, i, log, status)
  PROVE  TurnsLogged(s, i + 1, log \o StatusEventsFrom(status, x, "backfill"), x.status)
<1> DEFINE e == StatusEventFrom(status, x, "backfill")
           n == Len(log)
           new == log \o <<e>>
<1>1. StatusEventsFrom(status, x, "backfill") = <<e>> /\ e \in StatusEvents(Statuses)
  <2>1. "backfill" \in Sources
    BY DEF Sources
  <2> QED
    BY <2>1, StatusEventsType
<1>2. /\ e.time = i + 1 /\ e.status = x.status /\ e.previous = status
      /\ e.source = "backfill"
  BY DEF StatusEventFrom
<1> HIDE DEF e
<1>3. /\ new \in StatusLogs /\ n \in Nat /\ Len(new) = n + 1
      /\ DOMAIN log = 1..n /\ DOMAIN new = 1..(n + 1)
      /\ \A k \in 1..n : new[k] = log[k]
      /\ new[n + 1] = e /\ new # <<>>
  BY <1>1 DEF StatusLogs
<1>4. log # <<>> <=> n # 0
  BY DEF StatusLogs
<1>5. \A t \in Turns(s) : t \in Nat
  BY DEF Turns, Times
<1> HIDE DEF new, n
<1>6. TurnsUpto(s, i + 1) = TurnsUpto(s, i) \cup {i + 1} /\ i + 1 \notin TurnsUpto(s, i)
  BY <1>5 DEF TurnsUpto
<1>7. /\ IsFiniteSet(TurnsUpto(s, i + 1))
      /\ Cardinality(TurnsUpto(s, i + 1)) = Len(new)
  <2>1. IsFiniteSet(TurnsUpto(s, i)) /\ Cardinality(TurnsUpto(s, i)) = n
    BY DEF TurnsLogged, n
  <2> QED
    BY <1>3, <1>6, <2>1, FS_AddElement
<1>8. Last(new).status = x.status /\ x.status # None
  <2>1. x.status # None
    BY StatesAssumption DEF Row, Rows
  <2> QED
    BY <1>2, <1>3, <2>1 DEF Last
<1>9. new[1].previous = None
  <2>1. CASE n = 0
    BY <1>2, <1>3, <1>4, <2>1 DEF TurnsLogged
  <2>2. CASE n # 0
    BY <1>3, <1>4, <2>2 DEF TurnsLogged
  <2> QED
    BY <2>1, <2>2
<1>10. \A k \in DOMAIN new : /\ new[k].source = "backfill" /\ new[k].time \in TurnsUpto(s, i + 1)
                             /\ new[k].status = samples[new[k].time].status
  <2>1. \A k \in 1..n : /\ log[k].source = "backfill" /\ log[k].time \in TurnsUpto(s, i)
                        /\ log[k].status = samples[log[k].time].status
    BY <1>3 DEF TurnsLogged
  <2> QED
    BY <1>2, <1>3, <1>6, <2>1
<1>11. StatusLogChained(new)
  <2> SUFFICES ASSUME NEW k \in 2..(n + 1)
               PROVE  /\ new[k].previous = new[k - 1].status
                      /\ new[k].status # new[k].previous
                      /\ new[k - 1].time < new[k].time
    BY <1>3 DEF StatusLogChained
  <2>1. CASE k <= n
    <3>1. k \in 1..n /\ k - 1 \in 1..n /\ k \in 2..Len(log)
      BY <1>3, <2>1 DEF n
    <3> QED
      BY <1>3, <3>1 DEF TurnsLogged, StatusLogChained
  <2>2. CASE k = n + 1
    <3>1. n # 0 /\ k - 1 = n /\ n \in 1..n
      BY <1>3, <2>2
    <3>2. new[k - 1] = log[n] /\ log[n].status = status
      BY <1>3, <1>4, <3>1 DEF TurnsLogged, Last, n
    <3>3. log[n].time \in TurnsUpto(s, i)
      BY <1>3, <3>1 DEF TurnsLogged
    <3>4. log[n].time < i + 1
      BY <1>5, <3>3 DEF TurnsUpto
    <3> QED
      BY <1>2, <1>3, <2>2, <3>2, <3>4
  <2> QED
    BY <1>3, <2>1, <2>2
<1> QED
  BY <1>1, <1>3, <1>7, <1>8, <1>9, <1>10, <1>11 DEF TurnsLogged, new

\* The scan of a serial logs its turns (backfillEventsFromSamples).
LEMMA ScanLogsTurns ==
  ASSUME SamplesTyped, old = Len(samples), NEW s \in Serials
  PROVE  /\ Scan(s) \in ScanStates
         /\ StatusScanned(s, Len(samples), Scan(s).status)
         /\ TurnsLogged(s, Len(samples), Scan(s).events, Scan(s).status)
<1> DEFINE n == Len(samples)
<1>1. PICK f : ScanSteps(s, f)
  BY ScanIsRecursive
<1>2. n \in Nat /\ DOMAIN samples = 1..n /\ Times(s) \subseteq 1..n
  BY DEF SamplesTyped, Times
<1>3. \A i \in 0..n : f[i] \in ScanStates
  BY <1>1 DEF ScanSteps
<1> DEFINE I == {i \in Nat : i <= n => /\ StatusScanned(s, i, f[i].status)
                                       /\ TurnsLogged(s, i, f[i].events, f[i].status)}
<1>4. 0 \in I
  <2>1. f[0].status = None /\ f[0].events = <<>>
    BY <1>1 DEF ScanSteps, NothingScanned
  <2>2. \A j \in Times(s) : ~(j <= 0)
    BY <1>2
  <2>3. StatusScanned(s, 0, None)
    BY <2>2 DEF StatusScanned
  <2>4. TurnsUpto(s, 0) = {}
    BY <2>2 DEF TurnsUpto, Turns
  <2>5. IsFiniteSet(TurnsUpto(s, 0)) /\ Cardinality(TurnsUpto(s, 0)) = 0
    BY <2>4, FS_EmptySet
  <2>6. Len(<<>>) = 0 /\ DOMAIN <<>> = {}
    OBVIOUS
  <2>7. StatusLogChained(<<>>)
    BY <2>6 DEF StatusLogChained
  <2>8. TurnsLogged(s, 0, <<>>, None)
    BY <2>5, <2>6, <2>7 DEF TurnsLogged
  <2> QED
    BY <2>1, <2>3, <2>8
<1>5. ASSUME NEW i \in Nat, i \in I, i + 1 <= n
      PROVE  /\ StatusScanned(s, i + 1, f[i + 1].status)
             /\ TurnsLogged(s, i + 1, f[i + 1].events, f[i + 1].status)
  <2>1. /\ i \in 0..n /\ i + 1 \in 1..n /\ (i + 1) - 1 = i
        /\ StatusScanned(s, i, f[i].status) /\ TurnsLogged(s, i, f[i].events, f[i].status)
    BY <1>2, <1>5
  <2>2. f[i + 1] = IF samples[i + 1].serial # s THEN f[i] ELSE ScanRow(f[i], Read(i + 1))
    BY <1>1, <2>1 DEF ScanSteps
  <2>3. \A j \in Times(s) : j \in Nat /\ (j <= i + 1 <=> j <= i \/ j = i + 1)
    BY <1>2
  <2>4. CASE samples[i + 1].serial # s
    <3>1. i + 1 \notin Times(s)
      BY <2>4 DEF Times
    <3>2. \A j \in Times(s) : j <= i + 1 <=> j <= i
      BY <2>3, <3>1
    <3>3. TurnsUpto(s, i + 1) = TurnsUpto(s, i)
      BY <3>2 DEF TurnsUpto, Turns
    <3>4. StatusScanned(s, i + 1, f[i].status)
      BY <2>1, <3>2 DEF StatusScanned, NewestUpto
    <3>5. TurnsLogged(s, i + 1, f[i].events, f[i].status)
      BY <2>1, <3>3 DEF TurnsLogged
    <3> QED
      BY <2>2, <2>4, <3>4, <3>5
  <2>5. CASE samples[i + 1].serial = s
    <3> DEFINE x == Read(i + 1)
    <3>1. /\ x \in Row /\ x.time = i + 1 /\ x.serial # Blank
          /\ x.status = samples[i + 1].status /\ x.status \in Statuses
      BY <1>2, <2>1, <2>5, ReadType, SerialsAssumption
    <3>10. f[i + 1] = ScanRow(f[i], x)
      BY <2>2, <2>5
    <3>3. f[i].status \in Known /\ f[i].events \in StatusLogs
      BY <1>3, <2>1 DEF ScanStates
    <3>4. i + 1 \in Times(s)
      BY <1>2, <2>1, <2>5 DEF Times
    <3>5. i + 1 \in Turns(s) <=> f[i].status # x.status
      BY <2>1, <3>1, <3>4, TurnIsChange
    <3> HIDE DEF x
    <3>2. /\ f[i + 1].status = x.status
          /\ f[i + 1].events = f[i].events \o StatusEventsFrom(f[i].status, x, "backfill")
      <4> DEFINE v == f[i]
      <4>1. f[i + 1] = ScanRow(v, x)
        BY <3>10
      <4> HIDE DEF v
      <4> DEFINE w == f[i + 1]
      <4>3. w = ScanRow(v, x)
        BY <4>1
      <4> HIDE DEF w
      <4>4. w.status = x.status
        BY <4>3, ScanRowFields
      <4>5. w.events = v.events \o StatusEventsFrom(v.status, x, "backfill")
        BY <4>3, ScanRowFields
      <4>2. /\ f[i + 1].status = x.status
            /\ f[i + 1].events = v.events \o StatusEventsFrom(v.status, x, "backfill")
        BY <4>4, <4>5 DEF w
      <4> QED
        BY <4>2, Zenon DEF v
    <3>6. NewestUpto(s, i + 1, i + 1)
      BY <2>3, <3>4 DEF NewestUpto
    <3>7. StatusScanned(s, i + 1, x.status)
      BY <3>1, <3>4, <3>6, StatesAssumption DEF StatusScanned
    <3>8. CASE f[i].status # x.status
      <4>1. TurnsLogged(s, i + 1, f[i].events \o StatusEventsFrom(f[i].status, x, "backfill"),
                        x.status)
        BY <2>1, <3>1, <3>3, <3>5, <3>8, TurnAppended
      <4> QED
        BY <3>2, <3>7, <4>1
    <3>9. CASE f[i].status = x.status
      <4>1. StatusEventsFrom(f[i].status, x, "backfill") = <<>>
        BY <3>9 DEF StatusEventsFrom, StatusChanged
      <4>5. f[i].events \o <<>> = f[i].events
        BY <3>3 DEF StatusLogs
      <4>2. f[i + 1].events = f[i].events
        BY <3>2, <4>1, <4>5
      <4>3. TurnsUpto(s, i + 1) = TurnsUpto(s, i)
        BY <2>3, <3>5, <3>9 DEF TurnsUpto, Turns
      <4>4. TurnsLogged(s, i + 1, f[i].events, f[i].status)
        BY <2>1, <4>3 DEF TurnsLogged
      <4> QED
        BY <3>2, <3>7, <3>9, <4>2, <4>4
    <3> QED
      BY <3>8, <3>9
  <2> QED
    BY <2>4, <2>5
<1>6. \A i \in Nat : i \in I
  <2>1. \A i \in Nat : i \in I => i + 1 \in I
    BY <1>5
  <2> HIDE DEF I
  <2> QED
    BY <1>4, <2>1, Induction
<1>7. StatusScanned(s, n, f[n].status) /\ TurnsLogged(s, n, f[n].events, f[n].status)
  BY <1>2, <1>6
<1>8. Scan(s) = f[n] /\ f[n] \in ScanStates
  BY <1>1, <1>2, <1>3 DEF ScanSteps
<1> QED
  BY <1>7, <1>8

\* The scan leaves of a port what its newest event says, and of the ports of the newest
\* sample what it says.
PortsScanned(s, i, v) ==
  /\ TableEndsLog(v.eth, v.ports) /\ PortsChained(v.eth) /\ PortsListed(v.eth, v.ports)
  /\ \A k \in DOMAIN v.eth : v.eth[k].source = "backfill"
  /\ \A j \in Times(s) : NewestUpto(s, i, j) =>
       \A p \in DOMAIN Read(j).ports : p \in DOMAIN v.ports /\ v.ports[p] = Read(j).ports[p]

LEMMA ScanLogsPorts ==
  ASSUME SamplesTyped, NEW s \in Serials
  PROVE  PortsScanned(s, Len(samples), Scan(s))
<1> DEFINE n == Len(samples)
<1>1. PICK f : ScanSteps(s, f)
  BY ScanIsRecursive
<1>2. n \in Nat /\ DOMAIN samples = 1..n /\ Times(s) \subseteq 1..n
  BY DEF SamplesTyped, Times
<1>3. \A i \in 0..n : f[i] \in ScanStates
  BY <1>1 DEF ScanSteps
<1> DEFINE I == {i \in Nat : i <= n => PortsScanned(s, i, f[i])}
<1>4. 0 \in I
  <2>1. f[0].ports = NoPorts /\ f[0].eth = <<>>
    BY <1>1 DEF ScanSteps, NothingScanned
  <2>2. DOMAIN NoPorts = {} /\ DOMAIN <<>> = {}
    BY NoPortsType
  <2>3. \A j \in Times(s) : ~(j <= 0)
    BY <1>2
  <2>4. PortsScanned(s, 0, f[0])
    BY <2>1, <2>2, <2>3 DEF PortsScanned, TableEndsLog, PortsChained, PortsListed, NewestUpto
  <2> QED
    BY <2>4
<1>5. ASSUME NEW i \in Nat, i \in I, i + 1 <= n
      PROVE  PortsScanned(s, i + 1, f[i + 1])
  <2>1. i \in 0..n /\ i + 1 \in 1..n /\ (i + 1) - 1 = i /\ PortsScanned(s, i, f[i])
    BY <1>2, <1>5
  <2>2. f[i + 1] = IF samples[i + 1].serial # s THEN f[i] ELSE ScanRow(f[i], Read(i + 1))
    BY <1>1, <2>1 DEF ScanSteps
  <2>3. \A j \in Times(s) : j \in Nat /\ (j <= i + 1 <=> j <= i \/ j = i + 1)
    BY <1>2
  <2>4. CASE samples[i + 1].serial # s
    <3>1. \A j \in Times(s) : j <= i + 1 <=> j <= i
      BY <2>3, <2>4 DEF Times
    <3> QED
      BY <2>1, <2>2, <2>4, <3>1 DEF PortsScanned, NewestUpto
  <2>5. CASE samples[i + 1].serial = s
    <3> DEFINE x == Read(i + 1)
               v == f[i]
               new == EthEventsFrom(v.ports, x, "backfill")
    <3>1. x \in Row
      BY <1>2, <2>1, ReadType
    <3>12. f[i + 1] = ScanRow(v, x)
      BY <2>2, <2>5
    <3>3. v.ports \in Tables(Links) /\ v.eth \in EthLogs /\ v.eth \in Seq(EthEvents(Links))
      BY <1>3, <2>1 DEF ScanStates, EthLogs
    <3>4. "backfill" \in Sources /\ None \notin Links
      BY StatesAssumption DEF Sources
    <3>5. /\ TableEndsLog(v.eth, v.ports) /\ PortsChained(v.eth) /\ PortsListed(v.eth, v.ports)
          /\ \A k \in DOMAIN v.eth : v.eth[k].source = "backfill"
      BY <2>1 DEF PortsScanned
    <3>6. x \in Rows(Serials \cup {Blank}, Statuses, Links)
      BY <3>1 DEF Row
    <3> HIDE DEF x, v
    <3>2. /\ f[i + 1].ports = UpdatePorts(v.ports, x)
          /\ f[i + 1].eth = v.eth \o new
      BY <3>12, ScanRowFields
    <3>7. /\ TableEndsLog(v.eth \o new, UpdatePorts(v.ports, x)) /\ PortsChained(v.eth \o new)
          /\ PortsListed(v.eth \o new, UpdatePorts(v.ports, x))
      BY <3>3, <3>4, <3>5, <3>6, PortLogGoesOn
    <3>8. new \in Seq(EthEvents(Links)) /\ \A k \in DOMAIN new : new[k].source = "backfill"
      BY <3>3, <3>4, <3>6, EthEventsFromSample DEF EthEventFrom
    <3> HIDE DEF new
    <3>9. \A k \in DOMAIN (v.eth \o new) : (v.eth \o new)[k].source = "backfill"
      BY <3>3, <3>5, <3>8
    <3>10. \A j \in Times(s) : NewestUpto(s, i + 1, j) => j = i + 1
      <4>1. i + 1 \in Times(s)
        BY <1>2, <2>1, <2>5 DEF Times
      <4> QED
        BY <2>3, <4>1 DEF NewestUpto
    <3>11. \A p \in DOMAIN x.ports : /\ p \in DOMAIN UpdatePorts(v.ports, x)
                                     /\ UpdatePorts(v.ports, x)[p] = x.ports[p]
      BY DEF UpdatePorts
    <3> QED
      BY <3>2, <3>7, <3>9, <3>10, <3>11 DEF PortsScanned, x
  <2> QED
    BY <2>4, <2>5
<1>6. \A i \in Nat : i \in I
  <2>1. \A i \in Nat : i \in I => i + 1 \in I
    BY <1>5
  <2> HIDE DEF I
  <2> QED
    BY <1>4, <2>1, Induction
<1>7. Scan(s) = f[n]
  BY <1>1 DEF ScanSteps
<1> QED
  BY <1>2, <1>6, <1>7

-----------------------------------------------------------------------------
(***************************************************************************)
(* The inductive invariant.                                                *)
(***************************************************************************)
Identity == [status : Known, previous : Known, since : Nat, expected : Nat,
             model : Nat, seen : Nat]

LogsTyped ==
  /\ statusEvents \in [Serials -> StatusLogs]
  /\ ethEvents \in [Serials -> EthLogs]
  /\ ethState \in [Serials -> Tables(Links)]

\* An identity without a status is none.
OnusTyped ==
  /\ onus \in [Serials -> Identity]
  /\ \A s \in Serials : onus[s].status # None \/ onus[s] = NoONU

Typed == SamplesTyped /\ LogsTyped /\ OnusTyped /\ old \in Nat /\ upToDate \subseteq Serials

AllBackfill(log) == \A k \in DOMAIN log : log[k].source = "backfill"

NewestStatus(s) == IF Times(s) = {} THEN None ELSE Newest(s).status

\* Until version 3 is recorded nobody but the upgrade writes: no statement of it can meet
\* an event that is not the backfill's.
SteadyFor(s) ==
  /\ AllBackfill(statusEvents[s]) /\ AllBackfill(ethEvents[s])
  /\ onus[s] # NoONU => Times(s) # {}
  /\ s \in upToDate => onus[s].status = NewestStatus(s)

Steady == version # 3 => Len(samples) = old /\ \A s \in Serials : SteadyFor(s)

\* What the statements before a statement have done, however often they were repeated.
StagedFor(s) ==
  /\ pc \in {"delete eth", "truncate", "insert status"} => statusEvents[s] = <<>>
  /\ pc \in {"insert eth", "eth state", "since", "no since", "expected", "record3"} =>
       statusEvents[s] = Scan(s).events
  /\ pc \in {"truncate", "insert status", "insert eth"} => ethEvents[s] = <<>>
  /\ pc \in {"eth state", "since", "no since", "expected", "record3"} =>
       ethEvents[s] = Scan(s).eth
  /\ pc \in {"insert status", "insert eth", "eth state"} => ethState[s] = NoPorts
  /\ pc \in {"since", "no since", "expected", "record3"} => ethState[s] = LatestPorts(s)
  /\ pc \in {"no since", "expected", "record3"} /\ onus[s] # NoONU =>
       /\ statusEvents[s] # <<>>
       /\ onus[s].since = Last(statusEvents[s]).time
       /\ onus[s].previous = Last(statusEvents[s]).previous

Staged == version # 3 => \A s \in Serials : StagedFor(s)

\* What the recorded upgrade has done, and every poll since has kept.
HistoryOf(turns, table, before, log) ==
  LET n == Cardinality(turns) IN
  /\ n \in Nat /\ Len(log) >= n
  /\ \A k \in 1..n : /\ log[k].source = "backfill" /\ log[k].time \in turns
                     /\ log[k].status = table[log[k].time].status
                     /\ log[k].previous = IF k = 1 THEN None ELSE log[k - 1].status
                     /\ k > 1 => log[k - 1].time < log[k].time
  /\ \A k \in (n + 1)..Len(log) : log[k].source = "poller" /\ log[k].time > before

ContinuesOf(log, status) ==
  /\ \A k \in 2..Len(log) : log[k].previous = log[k - 1].status /\ log[k].status # log[k].previous
  /\ log # <<>> => Last(log).status = status
  /\ log = <<>> => status = None

SinceOf(log, onu) ==
  onu # NoONU => log # <<>> /\ onu.since = Last(log).time /\ onu.previous = Last(log).previous

DoneFor(s) ==
  /\ HistoryOf(Turns(s), samples, old, statusEvents[s])
  /\ s \in upToDate => ContinuesOf(statusEvents[s], onus[s].status)
  /\ SinceOf(statusEvents[s], onus[s])
  /\ TableEndsLog(ethEvents[s], ethState[s]) /\ PortsChained(ethEvents[s])

Done == Upgraded => old <= Len(samples) /\ \A s \in Serials : DoneFor(s)

UpgradeInv == Progress /\ Typed /\ Steady /\ Staged /\ Done

-----------------------------------------------------------------------------
\* What is computed from the samples alone stays while they stay.
ScanOf(table, s) ==
  LET scan[i \in 0..Len(table)] ==
        IF i = 0 THEN NothingScanned
        ELSE IF table[i].serial # s THEN scan[i - 1]
        ELSE ScanRow(scan[i - 1], ApplyExpectedPorts(table[i])) IN
  scan[Len(table)]

NewestOf(table, times) == table[CHOOSE i \in times : \A j \in times : j <= i]

LEMMA SamplesKept ==
  ASSUME samples' = samples, NEW s \in Serials
  PROVE  /\ Times(s)' = Times(s) /\ Scan(s)' = Scan(s) /\ Newest(s)' = Newest(s)
         /\ LatestPorts(s)' = LatestPorts(s) /\ NewestStatus(s)' = NewestStatus(s)
         /\ old' = old => Turns(s)' = Turns(s)
<1>1. Scan(s) = ScanOf(samples, s) /\ Scan(s)' = ScanOf(samples', s)
  BY DEF Scan, ScanOf
<1>2. Times(s)' = Times(s)
  BY DEF Times
<1>3. Newest(s) = NewestOf(samples, Times(s)) /\ Newest(s)' = NewestOf(samples', Times(s)')
  BY DEF Newest, NewestOf
<1>4. Scan(s)' = Scan(s) /\ Newest(s)' = Newest(s)
  BY <1>1, <1>2, <1>3
<1>5. LatestPorts(s)' = LatestPorts(s) /\ NewestStatus(s)' = NewestStatus(s)
  BY <1>2, <1>4 DEF LatestPorts, NewestStatus
<1>6. old' = old => Turns(s)' = Turns(s)
  BY <1>2 DEF Turns
<1> QED
  BY <1>2, <1>4, <1>5, <1>6

\* The newest sample of a serial that has one.
LEMMA NewestIsLast ==
  ASSUME SamplesTyped, NEW s \in Serials, Times(s) # {}
  PROVE  \E j \in Times(s) : NewestUpto(s, Len(samples), j) /\ Newest(s) = samples[j]
<1>1. Times(s) \subseteq 1..Len(samples) /\ Len(samples) \in Nat
  BY DEF Times, SamplesTyped
<1>2. IsFiniteSet(Times(s)) /\ Times(s) \in SUBSET Nat
  <2>1. 1 \in Int /\ Len(samples) \in Int
    BY <1>1
  <2>2. IsFiniteSet(1..Len(samples))
    BY <2>1, FS_Interval
  <2> QED
    BY <1>1, <2>2, FS_Subset
<1> DEFINE j == CHOOSE i \in Times(s) : \A h \in Times(s) : h <= i
<1>3. j \in Times(s) /\ \A h \in Times(s) : h <= j
  <2>1. \E i \in Times(s) : \A h \in Times(s) : h <= i
    BY <1>2, Greatest
  <2> QED
    BY <2>1
<1>4. Newest(s) = samples[j]
  BY DEF Newest
<1> HIDE DEF j
<1>5. NewestUpto(s, Len(samples), j)
  BY <1>1, <1>3 DEF NewestUpto
<1> QED
  BY <1>3, <1>4, <1>5

LEMMA LatestPortsType ==
  ASSUME SamplesTyped, NEW s \in Serials
  PROVE  LatestPorts(s) \in Tables(Links)
<1>1. CASE Times(s) = {}
  BY <1>1, NoPortsType DEF LatestPorts
<1>2. CASE Times(s) # {}
  <2>1. PICK j \in Times(s) : Newest(s) = samples[j]
    BY <1>2, NewestIsLast
  <2>2. j \in DOMAIN samples
    BY DEF Times, SamplesTyped
  <2>3. Read(j) \in Row /\ LatestPorts(s) = Read(j).ports
    BY <1>2, <2>1, <2>2, ReadType DEF LatestPorts, Read
  <2> QED
    BY <2>3 DEF Row, Rows
<1> QED
  BY <1>1, <1>2

\* The DELETE leaves nothing of a log of the backfill.
IsKept(log, kept) ==
  kept = [i \in 0..Len(log) |->
            IF i = 0 THEN <<>>
            ELSE IF log[i].source = "backfill" THEN kept[i - 1] ELSE Append(kept[i - 1], log[i])]

LEMMA NothingKept ==
  ASSUME NEW V, NEW log \in Seq(V), AllBackfill(log)
  PROVE  WithoutBackfill(log) = <<>>
<1> DEFINE n == Len(log)
           kept == CHOOSE f : IsKept(log, f)
           none == [i \in 0..n |-> <<>>]
<1>1. n \in Nat /\ \A i \in 1..n : log[i].source = "backfill"
  BY DEF AllBackfill
<1>2. WithoutBackfill(log) = kept[n]
  BY DEF WithoutBackfill, IsKept
<1>3. IsKept(log, none)
  <2>1. \A i \in 0..n : i # 0 => i \in 1..n /\ i - 1 \in 0..n
    BY <1>1
  <2>2. \A i \in 0..n : <<>> =
          IF i = 0 THEN <<>>
          ELSE IF log[i].source = "backfill" THEN none[i - 1] ELSE Append(none[i - 1], log[i])
    BY <1>1, <2>1
  <2> QED
    BY <2>2, Zenon DEF IsKept
<1>4. IsKept(log, kept)
  BY <1>3
<1> HIDE DEF kept
<1> DEFINE I == {i \in Nat : i <= n => kept[i] = <<>>}
<1>5. 0 \in I
  BY <1>1, <1>4 DEF IsKept
<1>6. ASSUME NEW i \in Nat, i \in I, i + 1 <= n
      PROVE  kept[i + 1] = <<>>
  <2>1. i + 1 \in 1..n /\ i + 1 \in 0..n /\ i + 1 # 0 /\ (i + 1) - 1 = i /\ kept[i] = <<>>
    BY <1>1, <1>6
  <2> QED
    BY <1>1, <1>4, <2>1 DEF IsKept
<1>7. \A i \in Nat : i \in I
  <2>1. \A i \in Nat : i \in I => i + 1 \in I
    BY <1>6
  <2> HIDE DEF I
  <2> QED
    BY <1>5, <2>1, Induction
<1> QED
  BY <1>1, <1>2, <1>7

-----------------------------------------------------------------------------
(***************************************************************************)
(* The initial states.                                                     *)
(***************************************************************************)
LEMMA SampleType ==
  ASSUME NEW n \in Nat \ {0}, NEW r \in Samples(n)
  PROVE  r \in Row /\ r.time = n
<1>1. PortTables \subseteq Tables(Links)
  <2> SUFFICES ASSUME NEW P \in SUBSET Ports, NEW t \in [P -> Links \ {"unknown"}]
               PROVE  t \in Tables(Links)
    BY DEF PortTables
  <2>1. P \in SUBSET (Nat \ {0}) /\ IsFiniteSet(P)
    BY PortsAssumption, FS_Subset
  <2>2. t \in [P -> Links]
    OBVIOUS
  <2> QED
    BY <2>1, <2>2, IsTable
<1>2. NoPorts \in Tables(Links)
  BY NoPortsType
<1>3. Models \subseteq Nat
  BY PortsAssumption
<1>4. CASE r \in [time : {n}, serial : Serials, status : Statuses, expected : Models,
                 ports : PortTables]
  BY <1>1, <1>3, <1>4 DEF Row, Rows
<1>5. CASE r \in [time : {n}, serial : {Blank}, status : Statuses, expected : {0},
                 ports : {NoPorts}]
  BY <1>2, <1>5 DEF Row, Rows
<1> QED
  BY <1>4, <1>5 DEF Samples

LEMMA HistoryType ==
  ASSUME NEW q \in Histories
  PROVE  q \in Seq(Row) /\ \A i \in DOMAIN q : q[i].time = i
<1>1. PICK n \in 0..MaxOld : /\ q \in [1..n -> UNION {Samples(i) : i \in 1..n}]
                             /\ \A i \in 1..n : q[i].time = i
  BY DEF Histories
<1>2. \A i \in 1..n : i \in Nat \ {0}
  BY <1>1
<1>3. \A i \in 1..n : q[i] \in Row
  <2> SUFFICES ASSUME NEW i \in 1..n PROVE q[i] \in Row
    OBVIOUS
  <2>1. PICK j \in 1..n : q[i] \in Samples(j)
    BY <1>1
  <2> QED
    BY <1>2, <2>1, SampleType
<1>4. q \in [1..n -> Row] /\ n \in Nat
  BY <1>1, <1>3, BoundsAssumption
<1> QED
  BY <1>1, <1>4

LEMMA NoONUType == NoONU \in Identity /\ NoONU.status = None
  BY DEF NoONU, Identity, Known

LEMMA OldIdentityType ==
  ASSUME NEW x, x.status \in Known, x.expected \in Nat, x.time \in Nat
  PROVE  /\ OldIdentity(x) \in Identity
         /\ OldIdentity(x).status = x.status /\ OldIdentity(x).seen = x.time
  BY NoONUType DEF OldIdentity, Identity

LEMMA UpgradeInit == Init => UpgradeInv
<1> SUFFICES ASSUME Init PROVE UpgradeInv
  OBVIOUS
<1>1. SamplesTyped
  BY HistoryType DEF Init, SamplesTyped
<1>2. Progress
  BY ProgressInit
<1>3. ASSUME NEW i \in DOMAIN samples
      PROVE  /\ OldIdentity(samples[i]) \in Identity
             /\ OldIdentity(samples[i]).status = samples[i].status
             /\ OldIdentity(samples[i]).status # None
             /\ OldIdentity(samples[i]).seen = i
  <2>1. samples[i] \in Row /\ samples[i].time = i
    BY <1>1 DEF SamplesTyped
  <2>2. /\ samples[i].status \in Statuses /\ samples[i].expected \in Nat
        /\ samples[i].time \in Nat
    BY <2>1 DEF Row, Rows
  <2>3. /\ OldIdentity(samples[i]) \in Identity
        /\ OldIdentity(samples[i]).status = samples[i].status
        /\ OldIdentity(samples[i]).seen = i
    BY <2>1, <2>2, OldIdentityType DEF Known
  <2> QED
    BY <2>2, <2>3, StatesAssumption
<1>4. onus \in [Serials -> {NoONU} \cup {OldIdentity(samples[i]) : i \in DOMAIN samples}]
  BY DEF Init
<1>5. ASSUME NEW s \in Serials
      PROVE  \/ onus[s] = NoONU
             \/ \E i \in DOMAIN samples : onus[s] = OldIdentity(samples[i])
  BY <1>4
<1>6. OnusTyped
  <2>1. \A s \in Serials : onus[s] \in Identity /\ (onus[s].status # None \/ onus[s] = NoONU)
    BY <1>3, <1>5, NoONUType
  <2> QED
    BY <1>4, <2>1 DEF OnusTyped
<1>7. LogsTyped
  <2>1. <<>> \in StatusLogs /\ <<>> \in EthLogs /\ NoPorts \in Tables(Links)
    BY NoPortsType DEF StatusLogs, EthLogs
  <2> QED
    BY <2>1 DEF Init, LogsTyped
<1>8. Typed
  <2>1. old \in Nat /\ upToDate \subseteq Serials
    BY <1>1 DEF Init, SamplesTyped
  <2> QED
    BY <1>1, <1>6, <1>7, <2>1 DEF Typed
<1>9. Steady
  <2> SUFFICES ASSUME NEW s \in Serials PROVE SteadyFor(s)
    BY DEF Steady, Init
  <2>1. AllBackfill(statusEvents[s]) /\ AllBackfill(ethEvents[s])
    <3>1. statusEvents[s] = <<>> /\ ethEvents[s] = <<>> /\ DOMAIN <<>> = {}
      BY DEF Init
    <3> QED
      BY <3>1 DEF AllBackfill
  <2>2. onus[s] # NoONU => Times(s) # {}
    <3>1. SUFFICES ASSUME onus[s] # NoONU PROVE Times(s) # {}
      OBVIOUS
    <3>2. PICK i \in DOMAIN samples : onus[s] = OldIdentity(samples[i])
      BY <1>5, <3>1
    <3>3. samples[i].serial = s
      BY <1>3, <3>1, <3>2 DEF Init
    <3>4. i \in Times(s)
      BY <1>1, <3>3 DEF Times, SamplesTyped
    <3> QED
      BY <3>4
  <2>3. s \in upToDate => onus[s].status = NewestStatus(s)
    <3>1. SUFFICES ASSUME s \in upToDate PROVE onus[s].status = NewestStatus(s)
      OBVIOUS
    <3>2. Times(s) = {} \/ onus[s].status = Newest(s).status
      BY <3>1 DEF Init
    <3> QED
      BY <2>2, <3>2, NoONUType DEF NewestStatus
  <2> QED
    BY <2>1, <2>2, <2>3 DEF SteadyFor
<1>10. Staged
  BY DEF Staged, StagedFor, Init
<1>11. Done
  BY DEF Done, Upgraded, Init
<1> QED
  BY <1>2, <1>8, <1>9, <1>10, <1>11 DEF UpgradeInv

-----------------------------------------------------------------------------
(***************************************************************************)
(* The statements of the upgrade before the last.                          *)
(***************************************************************************)
LEMMA NextStatement ==
  /\ After("record1") = "record2" /\ After("record2") = "delete status"
  /\ After("delete status") = "delete eth" /\ After("delete eth") = "truncate"
  /\ After("truncate") = "insert status" /\ After("insert status") = "insert eth"
  /\ After("insert eth") = "eth state" /\ After("eth state") = "since"
  /\ After("since") = "no since" /\ After("no since") = "expected"
  /\ After("expected") = "record3"
<1>1. After("record1") = "record2" /\ After("record2") = "delete status"
  BY Zenon DEF After
<1>2. After("delete status") = "delete eth" /\ After("delete eth") = "truncate"
  BY Zenon DEF After
<1>3. After("truncate") = "insert status" /\ After("insert status") = "insert eth"
  BY Zenon DEF After
<1>4. After("insert eth") = "eth state" /\ After("eth state") = "since"
  BY Zenon DEF After
<1>5. After("since") = "no since" /\ After("no since") = "expected"
  BY Zenon DEF After
<1>6. After("expected") = "record3"
  BY Zenon DEF After
<1> QED
  BY <1>1, <1>2, <1>3, <1>4, <1>5, <1>6

\* A statement of the upgrade leaves the statuses of the identities.
SameStatus ==
  /\ onus' \in [Serials -> Identity]
  /\ \A s \in Serials : /\ onus'[s].status = onus[s].status
                        /\ onus[s] = NoONU => onus'[s] = NoONU

\* What every statement before the last has in common.
LEMMA StatementKeeps ==
  ASSUME UpgradeInv, version # 3, version' # 3,
         samples' = samples, old' = old, upToDate' = upToDate,
         LogsTyped', SameStatus,
         \A s \in Serials : AllBackfill(statusEvents'[s]) /\ AllBackfill(ethEvents'[s])
  PROVE  Typed' /\ Steady' /\ Done'
<1>1. /\ SamplesTyped /\ OnusTyped /\ old \in Nat /\ upToDate \subseteq Serials
      /\ Len(samples) = old /\ \A s \in Serials : SteadyFor(s)
  BY DEF UpgradeInv, Typed, Steady
<1>2. SamplesTyped'
  BY <1>1 DEF SamplesTyped
<1>3. OnusTyped'
  BY <1>1 DEF OnusTyped, SameStatus
<1>4. Typed'
  BY <1>1, <1>2, <1>3 DEF Typed
<1>5. ASSUME NEW s \in Serials
      PROVE  SteadyFor(s)'
  <2>1. Times(s)' = Times(s) /\ NewestStatus(s)' = NewestStatus(s)
    BY SamplesKept
  <2>2. SteadyFor(s)
    BY <1>1
  <2>3. AllBackfill(statusEvents[s])' /\ AllBackfill(ethEvents[s])'
    BY DEF AllBackfill
  <2> QED
    BY <2>1, <2>2, <2>3 DEF SteadyFor, SameStatus
<1>6. Steady'
  BY <1>1, <1>5 DEF Steady
<1>7. Done'
  BY DEF Done, Upgraded
<1> QED
  BY <1>4, <1>6, <1>7

LEMMA ClosedIsStaged ==
  ASSUME pc' = "closed"
  PROVE  Staged'
  BY DEF Staged, StagedFor

LEMMA OnusUnchanged ==
  ASSUME OnusTyped, onus' = onus
  PROVE  SameStatus
  BY DEF OnusTyped, SameStatus

\* What the invariant says while the upgrade runs.
LEMMA InUpgrade ==
  ASSUME UpgradeInv, pc \in Statements
  PROVE  /\ version # 3 /\ SamplesTyped /\ LogsTyped /\ OnusTyped /\ Len(samples) = old
         /\ \A s \in Serials : SteadyFor(s) /\ StagedFor(s)
         /\ \A s \in Serials : /\ AllBackfill(statusEvents[s]) /\ AllBackfill(ethEvents[s])
                               /\ statusEvents[s] \in StatusLogs /\ ethEvents[s] \in EthLogs
  BY DEF UpgradeInv, Progress, Typed, Steady, Staged, SteadyFor, LogsTyped

LEMMA DeleteStatusEventsKeeps ==
  ASSUME UpgradeInv, DeleteStatusEvents
  PROVE  Typed' /\ Steady' /\ Staged' /\ Done'
<1>1. /\ pc = "delete status" /\ pc \in Statements
      /\ UNCHANGED <<version, samples, onus, ethEvents, ethState, old, upToDate>>
      /\ pc' \in {"delete eth", "closed"}
      /\ \/ statusEvents' = [s \in Serials |-> WithoutBackfill(statusEvents[s])]
         \/ pc' = "closed" /\ UNCHANGED statusEvents
  BY NextStatement DEF DeleteStatusEvents, Execute, db, Statements
<1>2. /\ version # 3 /\ LogsTyped /\ OnusTyped
      /\ \A s \in Serials : /\ AllBackfill(statusEvents[s]) /\ AllBackfill(ethEvents[s])
                            /\ statusEvents[s] \in StatusLogs
  BY <1>1, InUpgrade
<1>3. \A s \in Serials : WithoutBackfill(statusEvents[s]) = <<>>
  BY <1>2, NothingKept DEF StatusLogs
<1>4. \/ \A s \in Serials : statusEvents'[s] = <<>>
      \/ pc' = "closed" /\ UNCHANGED statusEvents
  BY <1>1, <1>3
<1>5. <<>> \in StatusLogs /\ AllBackfill(<<>>)
  BY DEF StatusLogs, AllBackfill
<1>6. LogsTyped'
  BY <1>1, <1>2, <1>3, <1>5 DEF LogsTyped
<1>7. \A s \in Serials : AllBackfill(statusEvents'[s]) /\ AllBackfill(ethEvents'[s])
  BY <1>1, <1>2, <1>4, <1>5
<1>8. Typed' /\ Steady' /\ Done'
  BY <1>1, <1>2, <1>6, <1>7, OnusUnchanged, StatementKeeps
<1>9. Staged'
  <2>1. CASE pc' = "closed"
    BY <2>1, ClosedIsStaged
  <2>2. CASE pc' = "delete eth"
    <3>1. \A s \in Serials : statusEvents'[s] = <<>>
      BY <1>4, <2>2
    <3> QED
      BY <2>2, <3>1 DEF Staged, StagedFor
  <2> QED
    BY <1>1, <2>1, <2>2
<1> QED
  BY <1>8, <1>9

LEMMA DeleteEthEventsKeeps ==
  ASSUME UpgradeInv, DeleteEthEvents
  PROVE  Typed' /\ Steady' /\ Staged' /\ Done'
<1>1. /\ pc = "delete eth" /\ pc \in Statements
      /\ UNCHANGED <<version, samples, onus, statusEvents, ethState, old, upToDate>>
      /\ pc' \in {"truncate", "closed"}
      /\ \/ ethEvents' = [s \in Serials |-> WithoutBackfill(ethEvents[s])]
         \/ pc' = "closed" /\ UNCHANGED ethEvents
  BY NextStatement DEF DeleteEthEvents, Execute, db, Statements
<1>2. /\ version # 3 /\ LogsTyped /\ OnusTyped
      /\ \A s \in Serials : /\ AllBackfill(statusEvents[s]) /\ AllBackfill(ethEvents[s])
                            /\ ethEvents[s] \in EthLogs /\ StagedFor(s)
  BY <1>1, InUpgrade
<1>3. \A s \in Serials : WithoutBackfill(ethEvents[s]) = <<>>
  BY <1>2, NothingKept DEF EthLogs
<1>4. \/ \A s \in Serials : ethEvents'[s] = <<>>
      \/ pc' = "closed" /\ UNCHANGED ethEvents
  BY <1>1, <1>3
<1>5. <<>> \in EthLogs /\ AllBackfill(<<>>)
  BY DEF EthLogs, AllBackfill
<1>6. LogsTyped'
  BY <1>1, <1>2, <1>3, <1>5 DEF LogsTyped
<1>7. \A s \in Serials : AllBackfill(statusEvents'[s]) /\ AllBackfill(ethEvents'[s])
  BY <1>1, <1>2, <1>4, <1>5
<1>8. Typed' /\ Steady' /\ Done'
  BY <1>1, <1>2, <1>6, <1>7, OnusUnchanged, StatementKeeps
<1>9. Staged'
  <2>1. CASE pc' = "closed"
    BY <2>1, ClosedIsStaged
  <2>2. CASE pc' = "truncate"
    <3>1. \A s \in Serials : ethEvents'[s] = <<>> /\ statusEvents'[s] = <<>>
      BY <1>1, <1>2, <1>4, <2>2 DEF StagedFor
    <3> QED
      BY <2>2, <3>1 DEF Staged, StagedFor
  <2> QED
    BY <1>1, <2>1, <2>2
<1> QED
  BY <1>8, <1>9

LEMMA TruncateEthStateKeeps ==
  ASSUME UpgradeInv, TruncateEthState
  PROVE  Typed' /\ Steady' /\ Staged' /\ Done'
<1>1. /\ pc = "truncate" /\ pc \in Statements
      /\ UNCHANGED <<version, samples, onus, statusEvents, ethEvents, old, upToDate>>
      /\ pc' \in {"insert status", "closed"}
      /\ \/ ethState' = [s \in Serials |-> NoPorts]
         \/ pc' = "closed" /\ UNCHANGED ethState
  BY NextStatement DEF TruncateEthState, Execute, db, Statements
<1>2. /\ version # 3 /\ LogsTyped /\ OnusTyped
      /\ \A s \in Serials : /\ AllBackfill(statusEvents[s]) /\ AllBackfill(ethEvents[s])
                            /\ StagedFor(s)
  BY <1>1, InUpgrade
<1>3. LogsTyped'
  BY <1>1, <1>2, NoPortsType DEF LogsTyped
<1>4. Typed' /\ Steady' /\ Done'
  BY <1>1, <1>2, <1>3, OnusUnchanged, StatementKeeps
<1>5. Staged'
  <2>1. CASE pc' = "closed"
    BY <2>1, ClosedIsStaged
  <2>2. CASE pc' = "insert status"
    <3>1. \A s \in Serials : ethEvents'[s] = <<>> /\ statusEvents'[s] = <<>>
      BY <1>1, <1>2 DEF StagedFor
    <3>2. \A s \in Serials : ethState'[s] = NoPorts
      BY <1>1, <2>2
    <3> QED
      BY <2>2, <3>1, <3>2 DEF Staged, StagedFor
  <2> QED
    BY <1>1, <2>1, <2>2
<1> QED
  BY <1>4, <1>5

\* What the scans of the serials give while the upgrade runs.
LEMMA ScansInUpgrade ==
  ASSUME UpgradeInv, pc \in Statements, NEW s \in Serials
  PROVE  /\ Scan(s).events \in StatusLogs /\ AllBackfill(Scan(s).events)
         /\ Scan(s).eth \in EthLogs /\ AllBackfill(Scan(s).eth)
         /\ StatusScanned(s, Len(samples), Scan(s).status)
         /\ TurnsLogged(s, Len(samples), Scan(s).events, Scan(s).status)
         /\ PortsScanned(s, Len(samples), Scan(s))
<1>1. SamplesTyped /\ Len(samples) = old
  BY InUpgrade
<1>2. /\ Scan(s) \in ScanStates
      /\ StatusScanned(s, Len(samples), Scan(s).status)
      /\ TurnsLogged(s, Len(samples), Scan(s).events, Scan(s).status)
  BY <1>1, ScanLogsTurns
<1>3. PortsScanned(s, Len(samples), Scan(s))
  BY <1>1, ScanLogsPorts
<1>4. Scan(s).events \in StatusLogs /\ Scan(s).eth \in EthLogs
  BY <1>2 DEF ScanStates
<1>5. AllBackfill(Scan(s).events)
  BY <1>2 DEF TurnsLogged, AllBackfill
<1>6. AllBackfill(Scan(s).eth)
  BY <1>3 DEF PortsScanned, AllBackfill
<1> QED
  BY <1>2, <1>3, <1>4, <1>5, <1>6

LEMMA InsertStatusEventsKeeps ==
  ASSUME UpgradeInv, InsertStatusEvents
  PROVE  Typed' /\ Steady' /\ Staged' /\ Done'
<1>1. /\ pc = "insert status" /\ pc \in Statements
      /\ UNCHANGED <<version, samples, onus, ethEvents, ethState, old, upToDate>>
      /\ pc' \in {"insert eth", "closed"}
      /\ \/ statusEvents' = [s \in Serials |-> statusEvents[s] \o Scan(s).events]
         \/ pc' = "closed" /\ UNCHANGED statusEvents
  BY NextStatement DEF InsertStatusEvents, Execute, db, Statements
<1>2. /\ version # 3 /\ LogsTyped /\ OnusTyped
      /\ \A s \in Serials : /\ AllBackfill(statusEvents[s]) /\ AllBackfill(ethEvents[s])
                            /\ StagedFor(s)
  BY <1>1, InUpgrade
<1>3. \A s \in Serials : Scan(s).events \in StatusLogs /\ AllBackfill(Scan(s).events)
  BY <1>1, ScansInUpgrade
<1>4. \A s \in Serials : statusEvents[s] \o Scan(s).events = Scan(s).events
  <2> SUFFICES ASSUME NEW s \in Serials
               PROVE  statusEvents[s] \o Scan(s).events = Scan(s).events
    OBVIOUS
  <2> DEFINE q == Scan(s).events
  <2>1. statusEvents[s] = <<>>
    BY <1>1, <1>2 DEF StagedFor
  <2>2. q \in Seq(StatusEvents(Statuses))
    BY <1>3 DEF StatusLogs
  <2> HIDE DEF q
  <2>3. <<>> \o q = q
    BY <2>2
  <2> QED
    BY <2>1, <2>3 DEF q
<1>5. \/ statusEvents' = [s \in Serials |-> Scan(s).events]
      \/ pc' = "closed" /\ UNCHANGED statusEvents
  BY <1>1, <1>4, Zenon
<1>6. LogsTyped'
  BY <1>1, <1>2, <1>3, <1>5 DEF LogsTyped
<1>7. \A s \in Serials : AllBackfill(statusEvents'[s]) /\ AllBackfill(ethEvents'[s])
  BY <1>1, <1>2, <1>3, <1>5
<1>8. Typed' /\ Steady' /\ Done'
  BY <1>1, <1>2, <1>6, <1>7, OnusUnchanged, StatementKeeps
<1>9. Staged'
  <2>1. CASE pc' = "closed"
    BY <2>1, ClosedIsStaged
  <2>2. CASE pc' = "insert eth"
    <3>1. ASSUME NEW s \in Serials
          PROVE  StagedFor(s)'
      <4>1. ethEvents'[s] = <<>> /\ ethState'[s] = NoPorts
        BY <1>1, <1>2 DEF StagedFor
      <4>2. statusEvents'[s] = Scan(s).events
        BY <1>5, <2>2
      <4>3. Scan(s)' = Scan(s)
        BY <1>1, SamplesKept
      <4> QED
        BY <2>2, <4>1, <4>2, <4>3 DEF StagedFor
    <3> QED
      BY <3>1 DEF Staged
  <2> QED
    BY <1>1, <2>1, <2>2
<1> QED
  BY <1>8, <1>9

LEMMA InsertEthEventsKeeps ==
  ASSUME UpgradeInv, InsertEthEvents
  PROVE  Typed' /\ Steady' /\ Staged' /\ Done'
<1>1. /\ pc = "insert eth" /\ pc \in Statements
      /\ UNCHANGED <<version, samples, onus, statusEvents, ethState, old, upToDate>>
      /\ pc' \in {"eth state", "closed"}
      /\ \/ ethEvents' = [s \in Serials |-> ethEvents[s] \o Scan(s).eth]
         \/ pc' = "closed" /\ UNCHANGED ethEvents
  BY NextStatement DEF InsertEthEvents, Execute, db, Statements
<1>2. /\ version # 3 /\ LogsTyped /\ OnusTyped
      /\ \A s \in Serials : /\ AllBackfill(statusEvents[s]) /\ AllBackfill(ethEvents[s])
                            /\ StagedFor(s)
  BY <1>1, InUpgrade
<1>3. \A s \in Serials : Scan(s).eth \in EthLogs /\ AllBackfill(Scan(s).eth)
  BY <1>1, ScansInUpgrade
<1>4. \A s \in Serials : ethEvents[s] \o Scan(s).eth = Scan(s).eth
  <2> SUFFICES ASSUME NEW s \in Serials
               PROVE  ethEvents[s] \o Scan(s).eth = Scan(s).eth
    OBVIOUS
  <2> DEFINE q == Scan(s).eth
  <2>1. ethEvents[s] = <<>>
    BY <1>1, <1>2 DEF StagedFor
  <2>2. q \in Seq(EthEvents(Links))
    BY <1>3 DEF EthLogs
  <2> HIDE DEF q
  <2>3. <<>> \o q = q
    BY <2>2
  <2> QED
    BY <2>1, <2>3 DEF q
<1>5. \/ ethEvents' = [s \in Serials |-> Scan(s).eth]
      \/ pc' = "closed" /\ UNCHANGED ethEvents
  BY <1>1, <1>4, Zenon
<1>6. LogsTyped'
  BY <1>1, <1>2, <1>3, <1>5 DEF LogsTyped
<1>7. \A s \in Serials : AllBackfill(statusEvents'[s]) /\ AllBackfill(ethEvents'[s])
  BY <1>1, <1>2, <1>3, <1>5
<1>8. Typed' /\ Steady' /\ Done'
  BY <1>1, <1>2, <1>6, <1>7, OnusUnchanged, StatementKeeps
<1>9. Staged'
  <2>1. CASE pc' = "closed"
    BY <2>1, ClosedIsStaged
  <2>2. CASE pc' = "eth state"
    <3>1. ASSUME NEW s \in Serials
          PROVE  StagedFor(s)'
      <4>1. statusEvents'[s] = Scan(s).events /\ ethState'[s] = NoPorts
        BY <1>1, <1>2 DEF StagedFor
      <4>2. ethEvents'[s] = Scan(s).eth
        BY <1>5, <2>2
      <4>3. Scan(s)' = Scan(s)
        BY <1>1, SamplesKept
      <4> QED
        BY <2>2, <4>1, <4>2, <4>3 DEF StagedFor
    <3> QED
      BY <3>1 DEF Staged
  <2> QED
    BY <1>1, <2>1, <2>2
<1> QED
  BY <1>8, <1>9

\* Any part of the port states of the newest samples may be there; all of them are when
\* the loop has come to its end.
LEMMA BackfillEthStateKeeps ==
  ASSUME UpgradeInv, BackfillEthState
  PROVE  Typed' /\ Steady' /\ Staged' /\ Done'
<1>1. PICK done \in SUBSET AllPorts :
        /\ pc = "eth state" /\ pc \in Statements
        /\ UNCHANGED <<version, samples, onus, statusEvents, ethEvents, old, upToDate>>
        /\ pc' \in {"since", "closed"}
        /\ pc' = "since" => done = AllPorts
        /\ UpsertEthState(done)
  <2>1. PICK done \in SUBSET AllPorts :
          /\ UpsertEthState(done)
          /\ pc' \in {"closed"} \cup (IF done = AllPorts THEN {After(pc)} ELSE {})
    BY DEF BackfillEthState
  <2>2. /\ pc = "eth state" /\ After(pc) = "since"
        /\ UNCHANGED <<version, samples, onus, statusEvents, ethEvents, old, upToDate>>
    BY NextStatement DEF BackfillEthState
  <2>3. pc' = "closed" \/ (pc' = "since" /\ done = AllPorts)
    BY <2>1, <2>2
  <2> QED
    BY <2>1, <2>2, <2>3 DEF Statements
<1>2. /\ version # 3 /\ LogsTyped /\ OnusTyped /\ SamplesTyped
      /\ \A s \in Serials : /\ AllBackfill(statusEvents[s]) /\ AllBackfill(ethEvents[s])
                            /\ StagedFor(s)
  BY <1>1, InUpgrade
<1>3. \A s \in Serials : ethState[s] = NoPorts /\ LatestPorts(s) \in Tables(Links)
  BY <1>1, <1>2, LatestPortsType DEF StagedFor
<1> DEFINE rows(s) == {p \in DOMAIN LatestPorts(s) : <<s, p>> \in done}
<1>4. ASSUME NEW s \in Serials
      PROVE  ethState'[s] = [p \in rows(s) |-> LatestPorts(s)[p]]
  <2>1. DOMAIN ethState[s] = {}
    BY <1>3, NoPortsType
  <2>2. ethState'[s] = [p \in DOMAIN ethState[s] \cup rows(s) |->
                          IF p \in rows(s) THEN LatestPorts(s)[p] ELSE ethState[s][p]]
    BY <1>1 DEF UpsertEthState
  <2>3. DOMAIN ethState[s] \cup rows(s) = rows(s)
    BY <2>1
  <2> HIDE DEF rows
  <2> QED
    BY <2>2, <2>3
<1>5. ASSUME NEW s \in Serials
      PROVE  ethState'[s] \in Tables(Links)
  <2> DEFINE t == LatestPorts(s)
  <2>1. t \in Tables(Links)
    BY <1>3
  <2>2. /\ DOMAIN t \in SUBSET (Nat \ {0}) /\ IsFiniteSet(DOMAIN t)
        /\ t \in [DOMAIN t -> Links]
    BY <2>1, TableFacts
  <2>3. rows(s) \subseteq DOMAIN t
    OBVIOUS
  <2>4. rows(s) \in SUBSET (Nat \ {0}) /\ IsFiniteSet(rows(s))
    BY <2>2, <2>3, FS_Subset
  <2>5. ethState'[s] = [p \in rows(s) |-> t[p]]
    BY <1>4
  <2> HIDE DEF t, rows
  <2>6. ethState'[s] \in [rows(s) -> Links]
    BY <2>2, <2>3, <2>5
  <2> QED
    BY <2>4, <2>6, IsTable
<1>6. LogsTyped'
  <2>1. ethState' = [s \in Serials |-> ethState'[s]]
    BY <1>1 DEF UpsertEthState
  <2> QED
    BY <1>1, <1>2, <1>5, <2>1 DEF LogsTyped
<1>7. Typed' /\ Steady' /\ Done'
  BY <1>1, <1>2, <1>6, OnusUnchanged, StatementKeeps
<1>8. Staged'
  <2>1. CASE pc' = "closed"
    BY <2>1, ClosedIsStaged
  <2>2. CASE pc' = "since"
    <3>1. ASSUME NEW s \in Serials
          PROVE  StagedFor(s)'
      <4>1. rows(s) = DOMAIN LatestPorts(s)
        <5>1. \A p \in DOMAIN LatestPorts(s) : <<s, p>> \in AllPorts
          BY DEF AllPorts
        <5> QED
          BY <1>1, <2>2, <5>1
      <4>2. ethState'[s] = LatestPorts(s)
        <5> DEFINE t == LatestPorts(s)
        <5>1. t = [p \in DOMAIN t |-> t[p]]
          BY <1>3, TableFacts
        <5>2. ethState'[s] = [p \in DOMAIN t |-> t[p]]
          BY <1>4, <4>1
        <5> HIDE DEF t
        <5>3. ethState'[s] = t
          BY <5>1, <5>2
        <5> QED
          BY <5>3 DEF t
      <4>3. statusEvents'[s] = Scan(s).events /\ ethEvents'[s] = Scan(s).eth
        BY <1>1, <1>2 DEF StagedFor
      <4>4. Scan(s)' = Scan(s) /\ LatestPorts(s)' = LatestPorts(s)
        BY <1>1, SamplesKept
      <4> QED
        BY <2>2, <4>2, <4>3, <4>4 DEF StagedFor
    <3> QED
      BY <3>1 DEF Staged
  <2> QED
    BY <1>1, <2>1, <2>2
<1> QED
  BY <1>7, <1>8

\* The logs and the port states are what the samples give.
LogsBackfilled == pc \in {"since", "no since", "expected", "record3"}

\* An identity without a sample is none, so one that is there has a log.
LEMMA SinceHasEvent ==
  ASSUME UpgradeInv, LogsBackfilled, NEW s \in Serials
  PROVE  /\ statusEvents[s] = Scan(s).events
         /\ onus[s] # NoONU => statusEvents[s] # <<>>
         /\ statusEvents[s] # <<>> => /\ Last(statusEvents[s]).time \in Nat \ {0}
                                      /\ Last(statusEvents[s]).previous \in Known
<1>1. pc \in Statements
  BY DEF Statements, LogsBackfilled
<1>2. StagedFor(s) /\ SteadyFor(s) /\ SamplesTyped
  BY <1>1, InUpgrade
<1>3. statusEvents[s] = Scan(s).events
  BY <1>2 DEF StagedFor, LogsBackfilled
<1>4. /\ Scan(s).events \in StatusLogs
      /\ StatusScanned(s, Len(samples), Scan(s).status)
      /\ TurnsLogged(s, Len(samples), Scan(s).events, Scan(s).status)
  BY <1>1, ScansInUpgrade
<1>5. ASSUME onus[s] # NoONU
      PROVE  statusEvents[s] # <<>>
  <2>1. Times(s) # {}
    BY <1>2, <1>5 DEF SteadyFor
  <2>2. \A j \in Times(s) : j <= Len(samples)
    <3>1. Len(samples) \in Nat
      BY <1>2 DEF SamplesTyped
    <3> QED
      BY <3>1 DEF Times
  <2>3. Scan(s).status # None
    BY <1>4, <2>1, <2>2 DEF StatusScanned
  <2> QED
    BY <1>3, <1>4, <2>3 DEF TurnsLogged
<1>6. ASSUME statusEvents[s] # <<>>
      PROVE  /\ Last(statusEvents[s]).time \in Nat \ {0}
             /\ Last(statusEvents[s]).previous \in Known
  <2> DEFINE log == statusEvents[s]
  <2>1. log \in Seq(StatusEvents(Statuses)) /\ log # <<>>
    BY <1>3, <1>4, <1>6 DEF StatusLogs
  <2> HIDE DEF log
  <2>2. log[Len(log)] \in StatusEvents(Statuses)
    <3>1. Len(log) \in 1..Len(log)
      BY <2>1
    <3> QED
      BY <2>1, <3>1
  <2>3. log[Len(log)].time \in Nat \ {0} /\ log[Len(log)].previous \in Known
    BY <2>2 DEF StatusEvents, Known
  <2> QED
    BY <2>3 DEF log, Last
<1> QED
  BY <1>3, <1>5, <1>6

\* Every update of the identities in the upgrade keeps the logs and the port states.
LEMMA LogsUnchanged ==
  ASSUME UpgradeInv, pc \in Statements, version' = version, SameStatus,
         UNCHANGED <<samples, statusEvents, ethEvents, ethState, old, upToDate>>
  PROVE  Typed' /\ Steady' /\ Done'
<1>1. /\ version # 3 /\ LogsTyped
      /\ \A s \in Serials : AllBackfill(statusEvents[s]) /\ AllBackfill(ethEvents[s])
  BY InUpgrade
<1>2. LogsTyped'
  BY <1>1 DEF LogsTyped
<1> QED
  BY <1>1, <1>2, StatementKeeps

\* The stage after an update of the identities, when each agrees with its log.
LEMMA IdentitiesStaged ==
  ASSUME UpgradeInv, pc \in {"since", "no since", "expected"},
         pc' \in {"no since", "expected", "record3"},
         UNCHANGED <<samples, statusEvents, ethEvents, ethState>>,
         \A s \in Serials : onus'[s] # NoONU =>
           /\ statusEvents[s] # <<>>
           /\ onus'[s].since = Last(statusEvents[s]).time
           /\ onus'[s].previous = Last(statusEvents[s]).previous
  PROVE  Staged'
<1> SUFFICES ASSUME NEW s \in Serials PROVE StagedFor(s)'
  BY DEF Staged
<1>1. StagedFor(s)
  BY InUpgrade DEF Statements
<1>2. /\ statusEvents'[s] = Scan(s).events /\ ethEvents'[s] = Scan(s).eth
      /\ ethState'[s] = LatestPorts(s)
  BY <1>1 DEF StagedFor
<1>3. Scan(s)' = Scan(s) /\ LatestPorts(s)' = LatestPorts(s)
  BY SamplesKept
<1>4. Last(statusEvents[s])' = Last(statusEvents[s])
  BY DEF Last
<1> QED
  BY <1>2, <1>3, <1>4 DEF StagedFor

LEMMA BackfillSinceKeeps ==
  ASSUME UpgradeInv, BackfillSince
  PROVE  Typed' /\ Steady' /\ Staged' /\ Done'
<1>1. /\ pc = "since" /\ pc \in Statements
      /\ UNCHANGED <<version, samples, statusEvents, ethEvents, ethState, old, upToDate>>
      /\ pc' \in {"no since", "closed"}
      /\ \/ onus' = [s \in Serials |-> IF onus[s] = NoONU THEN NoONU ELSE SinceNewestEvent(s)]
         \/ pc' = "closed" /\ UNCHANGED onus
  BY NextStatement DEF BackfillSince, Execute, db, Statements
<1>2. OnusTyped
  BY <1>1, InUpgrade
<1>3. ASSUME NEW s \in Serials, onus[s] # NoONU
      PROVE  /\ SinceNewestEvent(s) \in Identity
             /\ SinceNewestEvent(s).status = onus[s].status
             /\ statusEvents[s] # <<>>
             /\ SinceNewestEvent(s).since = Last(statusEvents[s]).time
             /\ SinceNewestEvent(s).previous = Last(statusEvents[s]).previous
  <2> DEFINE e == Last(statusEvents[s])
  <2>1. statusEvents[s] # <<>> /\ e.time \in Nat /\ e.previous \in Known
    BY <1>1, <1>3, SinceHasEvent DEF LogsBackfilled
  <2>2. onus[s] \in Identity
    BY <1>2 DEF OnusTyped
  <2>3. SinceNewestEvent(s) = [onus[s] EXCEPT !.previous = e.previous, !.since = e.time]
    BY <2>1 DEF SinceNewestEvent
  <2> HIDE DEF e
  <2>4. /\ SinceNewestEvent(s) \in Identity
        /\ SinceNewestEvent(s).status = onus[s].status
        /\ SinceNewestEvent(s).since = e.time
        /\ SinceNewestEvent(s).previous = e.previous
    BY <2>1, <2>2, <2>3 DEF Identity
  <2> QED
    BY <2>1, <2>4 DEF e
<1>4. CASE UNCHANGED onus /\ pc' = "closed"
  <2>1. SameStatus
    BY <1>2, <1>4, OnusUnchanged
  <2> QED
    BY <1>1, <1>4, <2>1, LogsUnchanged, ClosedIsStaged
<1>5. CASE onus' = [s \in Serials |-> IF onus[s] = NoONU THEN NoONU ELSE SinceNewestEvent(s)]
  <2>1. \A s \in Serials : onus'[s] = IF onus[s] = NoONU THEN NoONU ELSE SinceNewestEvent(s)
    BY <1>5
  <2>2. \A s \in Serials : /\ onus'[s] \in Identity /\ onus'[s].status = onus[s].status
                           /\ onus[s] = NoONU => onus'[s] = NoONU
    BY <1>3, <2>1, NoONUType
  <2>3. SameStatus
    BY <1>5, <2>2 DEF SameStatus
  <2>4. Typed' /\ Steady' /\ Done'
    BY <1>1, <2>3, LogsUnchanged
  <2>5. CASE pc' = "closed"
    BY <2>4, <2>5, ClosedIsStaged
  <2>6. CASE pc' = "no since"
    <3>1. Staged'
      BY <1>1, <1>3, <2>1, <2>6, IdentitiesStaged
    <3> QED
      BY <2>4, <3>1
  <2> QED
    BY <1>1, <2>5, <2>6
<1> QED
  BY <1>1, <1>4, <1>5

LEMMA SinceLastSeenKeeps ==
  ASSUME UpgradeInv, SinceLastSeen
  PROVE  Typed' /\ Steady' /\ Staged' /\ Done'
<1>1. /\ pc = "no since" /\ pc \in Statements
      /\ UNCHANGED <<version, samples, statusEvents, ethEvents, ethState, old, upToDate>>
      /\ pc' \in {"expected", "closed"}
      /\ \/ onus' = [s \in Serials |-> IF onus[s].since # 0 THEN onus[s]
                                       ELSE [onus[s] EXCEPT !.since = onus[s].seen]]
         \/ pc' = "closed" /\ UNCHANGED onus
  BY NextStatement DEF SinceLastSeen, Execute, db, Statements
<1>2. OnusTyped /\ \A s \in Serials : StagedFor(s)
  BY <1>1, InUpgrade
<1>3. ASSUME NEW s \in Serials
      PROVE  (IF onus[s].since # 0 THEN onus[s]
              ELSE [onus[s] EXCEPT !.since = onus[s].seen]) = onus[s]
  <2>1. CASE onus[s] = NoONU
    <3>1. [NoONU EXCEPT !.since = NoONU.seen] = NoONU
      BY DEF NoONU
    <3> QED
      BY <2>1, <3>1
  <2>2. CASE onus[s] # NoONU
    <3>1. onus[s].since = Last(statusEvents[s]).time /\ statusEvents[s] # <<>>
      BY <1>1, <1>2, <2>2 DEF StagedFor
    <3>2. onus[s].since # 0
      BY <1>1, <3>1, SinceHasEvent DEF LogsBackfilled
    <3> QED
      BY <3>2
  <2> QED
    BY <2>1, <2>2
<1>4. onus' = onus
  <2>1. onus = [s \in Serials |-> onus[s]]
    BY <1>2 DEF OnusTyped
  <2> QED
    BY <1>1, <1>3, <2>1, Zenon
<1>5. SameStatus
  BY <1>2, <1>4, OnusUnchanged
<1>6. Typed' /\ Steady' /\ Done'
  BY <1>1, <1>5, LogsUnchanged
<1>7. CASE pc' = "closed"
  BY <1>6, <1>7, ClosedIsStaged
<1>8. CASE pc' = "expected"
  <2>1. \A s \in Serials : onus'[s] # NoONU =>
          /\ statusEvents[s] # <<>>
          /\ onus'[s].since = Last(statusEvents[s]).time
          /\ onus'[s].previous = Last(statusEvents[s]).previous
    BY <1>1, <1>2, <1>4 DEF StagedFor
  <2>2. Staged'
    BY <1>1, <1>8, <2>1, IdentitiesStaged
  <2> QED
    BY <1>6, <2>2
<1> QED
  BY <1>1, <1>7, <1>8

LEMMA BackfillExpectedPortsKeeps ==
  ASSUME UpgradeInv, BackfillExpectedPorts
  PROVE  Typed' /\ Steady' /\ Staged' /\ Done'
<1>1. PICK done \in SUBSET Serials :
        /\ pc = "expected" /\ pc \in Statements
        /\ UNCHANGED <<version, samples, statusEvents, ethEvents, ethState, old, upToDate>>
        /\ pc' \in {"record3", "closed"}
        /\ onus' = [s \in Serials |->
             IF s \in done /\ onus[s].expected = 0
               THEN [onus[s] EXCEPT !.expected = onus[s].model] ELSE onus[s]]
  BY NextStatement DEF BackfillExpectedPorts, Statements
<1>2. OnusTyped /\ \A s \in Serials : StagedFor(s)
  BY <1>1, InUpgrade
<1>3. ASSUME NEW s \in Serials
      PROVE  /\ onus'[s] \in Identity /\ onus'[s].status = onus[s].status
             /\ onus'[s].since = onus[s].since /\ onus'[s].previous = onus[s].previous
             /\ onus[s] = NoONU => onus'[s] = NoONU
  <2>1. onus[s] \in Identity
    BY <1>2 DEF OnusTyped
  <2>2. onus'[s] = onus[s] \/ onus'[s] = [onus[s] EXCEPT !.expected = onus[s].model]
    BY <1>1
  <2>3. [NoONU EXCEPT !.expected = NoONU.model] = NoONU
    BY DEF NoONU
  <2>4. onus[s] = NoONU => onus'[s] = NoONU
    BY <2>2, <2>3
  <2> QED
    BY <2>1, <2>2, <2>4 DEF Identity
<1>4. SameStatus
  BY <1>1, <1>3 DEF SameStatus
<1>5. Typed' /\ Steady' /\ Done'
  BY <1>1, <1>4, LogsUnchanged
<1>6. CASE pc' = "closed"
  BY <1>5, <1>6, ClosedIsStaged
<1>7. CASE pc' = "record3"
  <2>1. \A s \in Serials : onus'[s] # NoONU =>
          /\ statusEvents[s] # <<>>
          /\ onus'[s].since = Last(statusEvents[s]).time
          /\ onus'[s].previous = Last(statusEvents[s]).previous
    BY <1>1, <1>2, <1>3 DEF StagedFor
  <2>2. Staged'
    BY <1>1, <1>7, <2>1, IdentitiesStaged
  <2> QED
    BY <1>5, <2>2
<1> QED
  BY <1>1, <1>6, <1>7

-----------------------------------------------------------------------------
(***************************************************************************)
(* The last statement, and the starts and ends of the process.             *)
(***************************************************************************)
\* A log of the turns of all samples is the history of its serial.
LEMMA TurnsAreHistory ==
  ASSUME SamplesTyped, old = Len(samples), NEW s \in Serials, NEW status,
         NEW log \in StatusLogs, TurnsLogged(s, Len(samples), log, status)
  PROVE  HistoryOf(Turns(s), samples, old, log)
<1> DEFINE n == Cardinality(Turns(s))
<1>1. TurnsUpto(s, Len(samples)) = Turns(s)
  <2>1. Len(samples) \in Nat
    BY DEF SamplesTyped
  <2>2. \A t \in Turns(s) : t <= Len(samples)
    BY <2>1 DEF Turns, Times
  <2> QED
    BY <2>2 DEF TurnsUpto
<1>2. n = Len(log) /\ n \in Nat /\ DOMAIN log = 1..n
  BY <1>1 DEF TurnsLogged, StatusLogs
<1> HIDE DEF n
<1>3. \A k \in 1..n : /\ log[k].source = "backfill" /\ log[k].time \in Turns(s)
                      /\ log[k].status = samples[log[k].time].status
  BY <1>1, <1>2 DEF TurnsLogged
<1>4. ASSUME NEW k \in 1..n
      PROVE  /\ log[k].previous = IF k = 1 THEN None ELSE log[k - 1].status
             /\ k > 1 => log[k - 1].time < log[k].time
  <2>1. CASE k = 1
    <3>1. log # <<>>
      BY <1>2, <2>1
    <3> QED
      BY <2>1, <3>1 DEF TurnsLogged
  <2>2. CASE k # 1
    <3>1. k \in 2..Len(log)
      BY <1>2, <2>2
    <3> QED
      BY <2>2, <3>1 DEF TurnsLogged, StatusLogChained
  <2> QED
    BY <2>1, <2>2
<1>5. (n + 1)..Len(log) = {} /\ Len(log) >= n
  BY <1>2
<1> QED
  BY <1>2, <1>3, <1>4, <1>5 DEF HistoryOf, n

\* When version 3 is about to be recorded everything is done.
LEMMA UpgradeDone ==
  ASSUME UpgradeInv, pc = "record3", NEW s \in Serials
  PROVE  DoneFor(s)
<1>1. pc \in Statements
  BY DEF Statements
<1>2. /\ SamplesTyped /\ Len(samples) = old /\ SteadyFor(s) /\ StagedFor(s)
  BY <1>1, InUpgrade
<1>3. /\ statusEvents[s] = Scan(s).events /\ ethEvents[s] = Scan(s).eth
      /\ ethState[s] = LatestPorts(s)
      /\ onus[s] # NoONU => /\ statusEvents[s] # <<>>
                            /\ onus[s].since = Last(statusEvents[s]).time
                            /\ onus[s].previous = Last(statusEvents[s]).previous
  BY <1>2 DEF StagedFor
<1>4. /\ Scan(s).events \in StatusLogs
      /\ StatusScanned(s, Len(samples), Scan(s).status)
      /\ TurnsLogged(s, Len(samples), Scan(s).events, Scan(s).status)
      /\ PortsScanned(s, Len(samples), Scan(s))
  BY <1>1, ScansInUpgrade
<1>5. Times(s) \subseteq 1..Len(samples) /\ Len(samples) \in Nat
  BY <1>2 DEF Times, SamplesTyped
<1>6. HistoryOf(Turns(s), samples, old, statusEvents[s])
  BY <1>2, <1>3, <1>4, TurnsAreHistory
<1>7. Scan(s).status = NewestStatus(s)
  <2>1. CASE Times(s) = {}
    BY <1>4, <2>1 DEF StatusScanned, NewestStatus
  <2>2. CASE Times(s) # {}
    <3>1. PICK j \in Times(s) : NewestUpto(s, Len(samples), j) /\ Newest(s) = samples[j]
      BY <1>2, <2>2, NewestIsLast
    <3>2. Scan(s).status # None
      BY <1>4, <1>5, <3>1 DEF StatusScanned
    <3>3. PICK i \in Times(s) : NewestUpto(s, Len(samples), i) /\ samples[i].status = Scan(s).status
      BY <1>4, <3>2 DEF StatusScanned
    <3>4. i = j
      BY <1>5, <3>1, <3>3 DEF NewestUpto
    <3> QED
      BY <2>2, <3>1, <3>3, <3>4 DEF NewestStatus
  <2> QED
    BY <2>1, <2>2
<1>8. s \in upToDate => ContinuesOf(statusEvents[s], onus[s].status)
  <2> SUFFICES ASSUME s \in upToDate PROVE ContinuesOf(statusEvents[s], onus[s].status)
    OBVIOUS
  <2>1. onus[s].status = Scan(s).status
    BY <1>2, <1>7 DEF SteadyFor
  <2> QED
    BY <1>3, <1>4, <2>1 DEF TurnsLogged, StatusLogChained, ContinuesOf
<1>9. SinceOf(statusEvents[s], onus[s])
  BY <1>3 DEF SinceOf
<1>10. TableEndsLog(ethEvents[s], ethState[s]) /\ PortsChained(ethEvents[s])
  <2>1. /\ TableEndsLog(ethEvents[s], Scan(s).ports) /\ PortsChained(ethEvents[s])
    BY <1>3, <1>4 DEF PortsScanned
  <2>2. ASSUME NEW p \in DOMAIN LatestPorts(s)
        PROVE  p \in DOMAIN Scan(s).ports /\ Scan(s).ports[p] = LatestPorts(s)[p]
    <3>1. Times(s) # {}
      BY <2>2, NoPortsType DEF LatestPorts
    <3>2. PICK j \in Times(s) : NewestUpto(s, Len(samples), j) /\ Newest(s) = samples[j]
      BY <1>2, <3>1, NewestIsLast
    <3>3. LatestPorts(s) = Read(j).ports
      BY <3>1, <3>2 DEF LatestPorts, Read
    <3> QED
      BY <1>4, <2>2, <3>2, <3>3 DEF PortsScanned
  <2>3. TableEndsLog(ethEvents[s], LatestPorts(s))
    BY <2>1, <2>2 DEF TableEndsLog
  <2> QED
    BY <1>3, <2>1, <2>3
<1> QED
  BY <1>6, <1>8, <1>9, <1>10 DEF DoneFor

\* A step that only moves the process or the version.
LEMMA DatabaseUnchanged ==
  ASSUME UNCHANGED <<samples, onus, statusEvents, ethEvents, ethState, old, upToDate>>
  PROVE  /\ Typed => Typed'
         /\ \A s \in Serials : SteadyFor(s) => SteadyFor(s)'
         /\ \A s \in Serials : DoneFor(s) => DoneFor(s)'
<1>1. Typed => Typed'
  BY DEF Typed, SamplesTyped, LogsTyped, OnusTyped
<1>2. ASSUME NEW s \in Serials
      PROVE  (SteadyFor(s) => SteadyFor(s)') /\ (DoneFor(s) => DoneFor(s)')
  <2>1. /\ Times(s)' = Times(s) /\ NewestStatus(s)' = NewestStatus(s)
        /\ Turns(s)' = Turns(s)
    BY SamplesKept
  <2>2. SteadyFor(s) => SteadyFor(s)'
    BY <2>1 DEF SteadyFor, AllBackfill
  <2>3. HistoryOf(Turns(s), samples, old, statusEvents[s])' <=>
        HistoryOf(Turns(s), samples, old, statusEvents[s])
    BY <2>1 DEF HistoryOf
  <2>4. ContinuesOf(statusEvents[s], onus[s].status)' <=>
        ContinuesOf(statusEvents[s], onus[s].status)
    BY DEF ContinuesOf, Last
  <2>5. SinceOf(statusEvents[s], onus[s])' <=> SinceOf(statusEvents[s], onus[s])
    BY DEF SinceOf, Last
  <2>6. /\ TableEndsLog(ethEvents[s], ethState[s])' <=> TableEndsLog(ethEvents[s], ethState[s])
        /\ PortsChained(ethEvents[s])' <=> PortsChained(ethEvents[s])
    BY DEF TableEndsLog, PortsChained, GoesOn
  <2> QED
    BY <2>2, <2>3, <2>4, <2>5, <2>6 DEF DoneFor
<1> QED
  BY <1>1, <1>2

LEMMA RecordVersionKeeps ==
  ASSUME UpgradeInv, NEW n \in 1..3, NEW here \in {"record1", "record2", "record3"},
         here = "record3" <=> n = 3,
         RecordVersion(here, n)
  PROVE  Typed' /\ Steady' /\ Staged' /\ Done'
<1>1. /\ pc = here /\ pc \in Statements
      /\ UNCHANGED <<samples, onus, statusEvents, ethEvents, ethState, old, upToDate>>
      /\ version' = n \/ version' = version
      /\ pc' = "closed" \/ (pc' = After(here) /\ version' = n)
  BY DEF RecordVersion, Execute, db, Statements
<1>2. /\ version # 3 /\ SamplesTyped /\ Len(samples) = old /\ \A s \in Serials : SteadyFor(s)
      /\ Typed /\ Len(samples) \in Nat
  BY <1>1, InUpgrade DEF UpgradeInv, SamplesTyped
<1>3. Typed' /\ Steady'
  BY <1>1, <1>2, DatabaseUnchanged DEF Steady
<1>4. Staged'
  <2>1. CASE pc' = "closed"
    BY <2>1, ClosedIsStaged
  <2>2. CASE pc' = After(here) /\ version' = n
    <3>1. CASE here = "record1"
      <4>1. pc' = "record2"
        BY <2>2, <3>1, NextStatement
      <4> QED
        BY <4>1 DEF Staged, StagedFor
    <3>2. CASE here = "record2"
      <4>1. pc' = "delete status"
        BY <2>2, <3>2, NextStatement
      <4> QED
        BY <4>1 DEF Staged, StagedFor
    <3>3. CASE here = "record3"
      BY <2>2, <3>3 DEF Staged
    <3> QED
      BY <3>1, <3>2, <3>3
  <2> QED
    BY <1>1, <2>1, <2>2
<1>5. Done'
  <2>1. SUFFICES ASSUME version' = 3 PROVE old' <= Len(samples') /\ \A s \in Serials : DoneFor(s)'
    BY DEF Done, Upgraded
  <2>2. here = "record3"
    BY <1>1, <1>2, <2>1
  <2>3. \A s \in Serials : DoneFor(s)
    BY <1>1, <2>2, UpgradeDone
  <2> QED
    BY <1>1, <1>2, <2>3, DatabaseUnchanged
<1> QED
  BY <1>3, <1>4, <1>5

LEMMA OpenCloseKeeps ==
  ASSUME UpgradeInv, OpenTimescale \/ Close \/ UNCHANGED vars
  PROVE  Typed' /\ Steady' /\ Staged' /\ Done'
<1>1. UNCHANGED <<samples, onus, statusEvents, ethEvents, ethState, old, upToDate>>
      /\ version' = version
  BY DEF OpenTimescale, Close, vars, db
<1>2. Typed' /\ Steady' /\ Done'
  BY <1>1, DatabaseUnchanged DEF UpgradeInv, Steady, Done, Upgraded
<1>3. Staged'
  <2>1. CASE version = 3
    BY <1>1, <2>1 DEF Staged
  <2>2. CASE version # 3 /\ OpenTimescale
    <3>1. version \in 0..3
      BY DEF UpgradeInv, Progress
    <3>2. version = 0 \/ version = 1 \/ version = 2
      BY <2>2, <3>1
    <3>3. pc' \in {"record1", "record2", "delete status"}
      <4>1. ASSUME version = 0 PROVE pc' = "record1"
        BY <2>2, <4>1 DEF OpenTimescale
      <4>2. ASSUME version = 1 PROVE pc' = "record2"
        BY <2>2, <4>2 DEF OpenTimescale
      <4>3. ASSUME version = 2 PROVE pc' = "delete status"
        <5>1. version # 0 /\ version # 1
          BY <4>3
        <5> QED
          BY <2>2, <4>3, <5>1, Zenon DEF OpenTimescale
      <4> QED
        BY <3>2, <4>1, <4>2, <4>3
    <3> QED
      BY <3>3 DEF Staged, StagedFor
  <2>3. CASE Close
    BY <2>3, ClosedIsStaged DEF Close
  <2>4. CASE UNCHANGED vars
    <3>1. ASSUME NEW s \in Serials, StagedFor(s) PROVE StagedFor(s)'
      <4>1. pc' = pc /\ Scan(s)' = Scan(s) /\ LatestPorts(s)' = LatestPorts(s)
        BY <1>1, <2>4, SamplesKept DEF vars
      <4> QED
        BY <1>1, <3>1, <4>1 DEF StagedFor, Last
    <3> QED
      BY <1>1, <3>1 DEF UpgradeInv, Staged
  <2> QED
    BY <2>1, <2>2, <2>3, <2>4
<1> QED
  BY <1>2, <1>3

-----------------------------------------------------------------------------
(***************************************************************************)
(* A poll of the upgraded process.                                         *)
(***************************************************************************)
\* A sample after the upgrade is nobody's turn, and changes none of the old ones.
LEMMA TurnsKept ==
  ASSUME SamplesTyped, old \in Nat, old <= Len(samples), old' = old,
         NEW x \in Row, samples' = Append(samples, x), NEW s \in Serials
  PROVE  Turns(s)' = Turns(s) /\ \A i \in Turns(s) : samples'[i] = samples[i]
<1> DEFINE n == Len(samples)
<1>1. /\ n \in Nat /\ old <= n /\ Len(samples') = n + 1
      /\ \A i \in 1..n : samples'[i] = samples[i]
  BY DEF SamplesTyped
<1> HIDE DEF n
<1>2. \A i \in Nat : i <= old => (i \in Times(s)' <=> i \in Times(s))
  BY <1>1 DEF Times, n
<1>3. \A i \in Times(s) \cup Times(s)' : i \in Nat
  BY DEF Times
<1>4. \A i \in Times(s) : i <= old => samples'[i] = samples[i]
  BY <1>1 DEF Times, n
<1>5. ASSUME NEW i \in Nat, i <= old
      PROVE  i \in Turns(s)' <=> i \in Turns(s)
  <2>1. \A j \in Nat : j < i => (j \in Times(s)' <=> j \in Times(s))
    BY <1>2, <1>5
  <2>2. \A j \in Times(s) : j < i => samples'[j] = samples[j]
    <3>1. \A j \in Nat : j < i => j <= old
      BY <1>5
    <3> QED
      BY <1>3, <1>4, <3>1
  <2>3. i \in Times(s)' <=> i \in Times(s)
    BY <1>2, <1>5
  <2>4. i \in Times(s) => samples'[i] = samples[i]
    BY <1>4, <1>5
  <2> DEFINE Before(j)  == \E k \in Times(s) : j < k /\ k < i /\ samples[k].status # samples[i].status
             BeforeN(j) == \E k \in Times(s)' : j < k /\ k < i /\ samples'[k].status # samples'[i].status
  <2>5. \A j \in Nat : i \in Times(s) => (BeforeN(j) <=> Before(j))
    BY <1>3, <2>1, <2>2, <2>4
  <2>6. i \in Turns(s) <=> /\ i \in Times(s) /\ i <= old
                           /\ \A j \in Times(s) :
                                (j < i /\ samples[j].status = samples[i].status) => Before(j)
    BY DEF Turns
  <2>7. i \in Turns(s)' <=> /\ i \in Times(s)' /\ i <= old
                            /\ \A j \in Times(s)' :
                                 (j < i /\ samples'[j].status = samples'[i].status) => BeforeN(j)
    BY DEF Turns
  <2> HIDE DEF Before, BeforeN
  <2> QED
    BY <1>3, <2>1, <2>2, <2>3, <2>4, <2>5, <2>6, <2>7
<1>6. \A i \in Turns(s) : i \in Nat /\ i <= old /\ i \in Times(s)
  BY <1>3 DEF Turns
<1>7. \A i \in Turns(s)' : i \in Nat /\ i <= old
  BY <1>3 DEF Turns
<1> QED
  BY <1>4, <1>5, <1>6, <1>7

\* A history goes on with an event of the poller, whatever is appended to the samples.
LEMMA HistoryGoesOn ==
  ASSUME NEW turns, NEW table, NEW longer, NEW before, \A i \in turns : longer[i] = table[i],
         NEW log \in StatusLogs, HistoryOf(turns, table, before, log),
         NEW new \in StatusLogs,
         \/ new = log
         \/ \E e \in StatusEvents(Statuses) :
              new = log \o <<e>> /\ e.source = "poller" /\ e.time > before
  PROVE  HistoryOf(turns, longer, before, new)
<1> DEFINE n == Cardinality(turns)
           Polled(k) == new[k].source = "poller" /\ new[k].time > before
<1>1. /\ n \in Nat /\ Len(log) >= n /\ Len(log) \in Nat
      /\ \A k \in 1..n : /\ log[k].source = "backfill" /\ log[k].time \in turns
                         /\ log[k].status = table[log[k].time].status
                         /\ log[k].previous = IF k = 1 THEN None ELSE log[k - 1].status
                         /\ k > 1 => log[k - 1].time < log[k].time
      /\ \A k \in (n + 1)..Len(log) : log[k].source = "poller" /\ log[k].time > before
  BY DEF HistoryOf, StatusLogs
<1> HIDE DEF n
<1>2. /\ Len(new) \in Nat /\ Len(new) >= Len(log)
      /\ \A k \in 1..Len(log) : new[k] = log[k]
      /\ \A k \in (Len(log) + 1)..Len(new) : Polled(k)
  <2>1. CASE new = log
    BY <1>1, <2>1
  <2>2. CASE new # log
    <3>1. PICK e \in StatusEvents(Statuses) :
            new = log \o <<e>> /\ e.source = "poller" /\ e.time > before
      BY <2>2
    <3>2. /\ Len(new) = Len(log) + 1 /\ new[Len(log) + 1] = e
          /\ \A k \in 1..Len(log) : new[k] = log[k]
      BY <3>1 DEF StatusLogs
    <3>3. \A k \in (Len(log) + 1)..Len(new) : k = Len(log) + 1
      BY <1>1, <3>2
    <3> QED
      BY <1>1, <3>1, <3>2, <3>3
  <2> QED
    BY <2>1, <2>2
<1>3. \A k \in 1..n : k \in 1..Len(log) /\ new[k] = log[k]
  BY <1>1, <1>2
<1>4. \A k \in 1..n : k # 1 => k - 1 \in 1..n
  BY <1>1
<1>5. \A k \in 1..n : /\ new[k].source = "backfill" /\ new[k].time \in turns
                      /\ new[k].status = longer[new[k].time].status
                      /\ new[k].previous = IF k = 1 THEN None ELSE new[k - 1].status
                      /\ k > 1 => new[k - 1].time < new[k].time
  <2> SUFFICES ASSUME NEW k \in 1..n
               PROVE  /\ new[k].source = "backfill" /\ new[k].time \in turns
                      /\ new[k].status = longer[new[k].time].status
                      /\ new[k].previous = IF k = 1 THEN None ELSE new[k - 1].status
                      /\ k > 1 => new[k - 1].time < new[k].time
    OBVIOUS
  <2>1. new[k] = log[k] /\ (k # 1 => new[k - 1] = log[k - 1])
    BY <1>3, <1>4
  <2>2. CASE k = 1
    BY <1>1, <2>1, <2>2
  <2>3. CASE k # 1
    BY <1>1, <2>1, <2>3
  <2> QED
    BY <2>2, <2>3
<1>6. \A k \in (n + 1)..Len(new) : Polled(k)
  <2> SUFFICES ASSUME NEW k \in (n + 1)..Len(new)
               PROVE  Polled(k)
    OBVIOUS
  <2>1. CASE k <= Len(log)
    <3>1. k \in (n + 1)..Len(log) /\ k \in 1..Len(log)
      BY <1>1, <2>1
    <3> QED
      BY <1>1, <1>2, <3>1
  <2>2. CASE ~(k <= Len(log))
    <3>1. k \in (Len(log) + 1)..Len(new)
      BY <1>1, <1>2, <2>2
    <3> QED
      BY <1>2, <3>1
  <2> QED
    BY <2>1, <2>2
<1>7. Len(new) >= n
  BY <1>1, <1>2
<1> QED
  BY <1>1, <1>5, <1>6, <1>7 DEF HistoryOf, n

\* The row of the identity and the event of the log are made of the same two values.
LEMMA PollGoesOn ==
  ASSUME NEW was \in Identity, was.status # None \/ was = NoONU,
         NEW x \in Row, x.serial # Blank,
         NEW log \in StatusLogs, SinceOf(log, was)
  PROVE  LET new == log \o StatusEventsFrom(was.status, x, "poller")
             row == IdentityRow(was, x) IN
         /\ row \in Identity /\ row.status = x.status /\ x.status # None
         /\ new \in StatusLogs
         /\ SinceOf(new, row)
         /\ ContinuesOf(log, was.status) => ContinuesOf(new, row.status)
         /\ \/ new = log
            \/ \E e \in StatusEvents(Statuses) :
                 new = log \o <<e>> /\ e.source = "poller" /\ e.time = x.time
<1> DEFINE new == log \o StatusEventsFrom(was.status, x, "poller")
           row == IdentityRow(was, x)
           e == StatusEventFrom(was.status, x, "poller")
<1>1. /\ x.status \in Statuses /\ x.status # None /\ x.expected \in Nat
      /\ x.time \in Nat /\ was.status \in Known /\ was.previous \in Known /\ was.since \in Nat
  BY StatesAssumption DEF Row, Rows, Identity
<1>2. /\ StatusEventsFrom(was.status, x, "poller") =
           IF was.status # x.status THEN <<e>> ELSE <<>>
      /\ e \in StatusEvents(Statuses)
  <2>1. "poller" \in Sources
    BY DEF Sources
  <2> QED
    BY <1>1, <2>1, StatusEventsType
<1>3. /\ e.time = x.time /\ e.status = x.status /\ e.previous = was.status
      /\ e.source = "poller"
  BY DEF StatusEventFrom
<1>4. was = NoONU => was.status # x.status
  BY <1>1, NoONUType
<1>5. /\ row \in Identity /\ row.status = x.status
      /\ was.status # x.status => row.previous = was.status /\ row.since = x.time
      /\ was.status = x.status => row.previous = was.previous /\ row.since = was.since
  BY <1>1, <1>4 DEF IdentityRow, Identity, Known
<1> HIDE DEF e, row
<1>6. CASE was.status = x.status
  <2>1. new = log
    BY <1>2, <1>6 DEF StatusLogs
  <2>2. SinceOf(log, row)
    BY <1>4, <1>5, <1>6 DEF SinceOf
  <2> QED
    BY <1>1, <1>5, <1>6, <2>1, <2>2 DEF row
<1>7. CASE was.status # x.status
  <2>1. new = log \o <<e>>
    BY <1>2, <1>7
  <2> HIDE DEF new
  <2>2. /\ new \in StatusLogs /\ Len(log) \in Nat /\ Len(new) = Len(log) + 1
        /\ \A k \in 1..Len(log) : new[k] = log[k]
        /\ new[Len(log) + 1] = e /\ new # <<>>
    BY <1>2, <2>1 DEF StatusLogs
  <2>3. Last(new) = e
    BY <2>2 DEF Last
  <2>4. SinceOf(new, row)
    BY <1>3, <1>5, <1>7, <2>2, <2>3 DEF SinceOf
  <2>5. ASSUME ContinuesOf(log, was.status)
        PROVE  ContinuesOf(new, row.status)
    <3>1. ASSUME NEW k \in 2..Len(new)
          PROVE  new[k].previous = new[k - 1].status /\ new[k].status # new[k].previous
      <4>1. CASE k <= Len(log)
        <5>1. k \in 1..Len(log) /\ k - 1 \in 1..Len(log) /\ k \in 2..Len(log)
          BY <2>2, <4>1
        <5> QED
          BY <2>2, <2>5, <5>1 DEF ContinuesOf
      <4>2. CASE k = Len(log) + 1
        <5>1. k - 1 = Len(log) /\ Len(log) \in 1..Len(log)
          BY <2>2, <4>2
        <5>2. log # <<>>
          BY <5>1
        <5>3. log[Len(log)].status = was.status
          BY <2>5, <5>2 DEF ContinuesOf, Last
        <5> QED
          BY <1>3, <1>7, <2>2, <4>2, <5>1, <5>3
      <4> QED
        BY <2>2, <4>1, <4>2
    <3> QED
      BY <1>3, <1>5, <2>2, <2>3, <3>1 DEF ContinuesOf
  <2>6. new = log \o <<e>> /\ e \in StatusEvents(Statuses) /\ e.source = "poller" /\ e.time = x.time
    BY <1>2, <1>3, <2>1
  <2> QED
    BY <1>1, <1>5, <2>2, <2>4, <2>5, <2>6 DEF new, row
<1> QED
  BY <1>6, <1>7

LEMMA PollPONKeeps ==
  ASSUME UpgradeInv, PollPON
  PROVE  Typed' /\ Steady' /\ Staged' /\ Done'
<1>1. PICK r \in Samples(Len(samples) + 1) :
        LET x == ApplyExpectedPorts(r) IN
        /\ r.serial # Blank
        /\ RecordSampleTransitions(x.serial, x)
        /\ samples' = Append(samples, x)
        /\ onus' = [onus EXCEPT ![x.serial] = IdentityRow(@, x)]
  BY DEF PollPON
<1>2. /\ version = 3 /\ version' = 3 /\ old' = old /\ upToDate' = upToDate
      /\ SamplesTyped /\ LogsTyped /\ OnusTyped /\ old \in Nat /\ upToDate \subseteq Serials
      /\ old <= Len(samples) /\ \A t \in Serials : DoneFor(t)
  BY DEF PollPON, UpgradeInv, Progress, Typed, Done, Upgraded
<1> DEFINE n == Len(samples)
           x == ApplyExpectedPorts(r)
           s == x.serial
<1>3. n \in Nat /\ n + 1 \in Nat \ {0}
  BY <1>2 DEF SamplesTyped
<1>4. x \in Row /\ x.time = n + 1 /\ s \in Serials /\ s # Blank
  <2>1. r \in Row /\ r.time = n + 1
    BY <1>3, SampleType
  <2>2. "unknown" \in Links
    BY StatesAssumption
  <2>3. x \in Row /\ x.time = r.time /\ x.serial = r.serial
    BY <2>1, <2>2, ApplyExpectedPortsType DEF Row
  <2> QED
    BY <1>1, <2>1, <2>3 DEF Row, Rows
<1>5. /\ statusEvents' = [statusEvents EXCEPT ![s] =
                            @ \o StatusEventsFrom(onus[s].status, x, "poller")]
      /\ ethEvents' = [ethEvents EXCEPT ![s] = @ \o EthEventsFrom(ethState[s], x, "poller")]
      /\ ethState' = [ethState EXCEPT ![s] = UpdatePorts(@, x)]
      /\ samples' = Append(samples, x)
      /\ onus' = [onus EXCEPT ![s] = IdentityRow(@, x)]
  BY <1>1 DEF RecordSampleTransitions
<1> HIDE DEF x, s
<1>6. /\ onus[s] \in Identity
      /\ onus[s].status # None \/ onus[s] = NoONU
      /\ statusEvents[s] \in StatusLogs /\ ethEvents[s] \in EthLogs
      /\ ethState[s] \in Tables(Links) /\ DoneFor(s)
  BY <1>2, <1>4 DEF OnusTyped, LogsTyped
<1> DEFINE new == statusEvents[s] \o StatusEventsFrom(onus[s].status, x, "poller")
           row == IdentityRow(onus[s], x)
           newEth == ethEvents[s] \o EthEventsFrom(ethState[s], x, "poller")
           table == UpdatePorts(ethState[s], x)
<1>7. /\ row \in Identity /\ row.status = x.status /\ x.status # None
      /\ new \in StatusLogs
      /\ SinceOf(new, row)
      /\ ContinuesOf(statusEvents[s], onus[s].status) => ContinuesOf(new, row.status)
      /\ \/ new = statusEvents[s]
         \/ \E e \in StatusEvents(Statuses) :
              new = statusEvents[s] \o <<e>> /\ e.source = "poller" /\ e.time = x.time
  <2>1. SinceOf(statusEvents[s], onus[s]) /\ x.serial # Blank
    BY <1>4, <1>6 DEF DoneFor, s
  <2> QED
    BY <1>4, <1>6, <2>1, PollGoesOn
<1>8. /\ newEth \in EthLogs /\ table \in Tables(Links)
      /\ TableEndsLog(newEth, table) /\ PortsChained(newEth)
  <2>1. TableEndsLog(ethEvents[s], ethState[s]) /\ PortsChained(ethEvents[s])
    BY <1>6 DEF DoneFor
  <2>2. "poller" \in Sources /\ None \notin Links /\ "poller" # "backfill"
    BY StatesAssumption DEF Sources
  <2>3. table \in Tables(Links)
    BY <1>4, <1>6, UpdatePortsType DEF Row
  <2>4. newEth \in EthLogs /\ TableEndsLog(newEth, table) /\ PortsChained(newEth)
    BY <1>4, <1>6, <2>1, <2>2, PortLogGoesOn DEF Row, EthLogs
  <2> QED
    BY <2>3, <2>4
<1>9. /\ statusEvents' = [statusEvents EXCEPT ![s] = new]
      /\ ethEvents' = [ethEvents EXCEPT ![s] = newEth]
      /\ ethState' = [ethState EXCEPT ![s] = table]
      /\ onus' = [onus EXCEPT ![s] = row]
  BY <1>5
<1> HIDE DEF new, row, newEth, table
<1>10. SamplesTyped'
  <2>1. /\ samples \in Seq(Row) /\ \A i \in DOMAIN samples : samples[i].time = i
        /\ samples' = Append(samples, x)
    BY <1>2, <1>5 DEF SamplesTyped
  <2>2. samples' \in Seq(Row)
    BY <1>4, <2>1
  <2>3. \A i \in DOMAIN samples' : samples'[i].time = i
    BY <1>4, <2>1
  <2> QED
    BY <2>2, <2>3 DEF SamplesTyped
<1>11. LogsTyped' /\ OnusTyped'
  BY <1>2, <1>4, <1>7, <1>8, <1>9 DEF LogsTyped, OnusTyped
<1>12. Typed'
  BY <1>2, <1>10, <1>11 DEF Typed
<1>13. Steady' /\ Staged'
  BY <1>2 DEF Steady, Staged
<1>14. ASSUME NEW t \in Serials
       PROVE  DoneFor(t)'
  <2>1. Turns(t)' = Turns(t) /\ \A i \in Turns(t) : samples'[i] = samples[i]
    BY <1>2, <1>4, <1>5, TurnsKept
  <2>2. /\ DoneFor(t) /\ statusEvents[t] \in StatusLogs
        /\ HistoryOf(Turns(t), samples, old, statusEvents[t])
    BY <1>2 DEF LogsTyped, DoneFor
  <2>3. CASE t # s
    <3>1. /\ statusEvents'[t] = statusEvents[t] /\ ethEvents'[t] = ethEvents[t]
          /\ ethState'[t] = ethState[t] /\ onus'[t] = onus[t]
      BY <1>2, <1>9, <2>3 DEF LogsTyped, OnusTyped
    <3>2. HistoryOf(Turns(t), samples', old, statusEvents[t])
      BY <2>1, <2>2, HistoryGoesOn
    <3> QED
      BY <1>2, <2>1, <2>2, <3>1, <3>2 DEF DoneFor
  <2>4. CASE t = s
    <3>1. /\ statusEvents'[s] = new /\ ethEvents'[s] = newEth
          /\ ethState'[s] = table /\ onus'[s] = row
      BY <1>2, <1>4, <1>9 DEF LogsTyped, OnusTyped
    <3>2. x.time > old
      BY <1>2, <1>3, <1>4
    <3>3. HistoryOf(Turns(s), samples', old, new)
      BY <1>7, <2>1, <2>2, <2>4, <3>2, HistoryGoesOn
    <3>4. s \in upToDate => ContinuesOf(new, row.status)
      BY <1>6, <1>7 DEF DoneFor
    <3> QED
      BY <1>2, <1>7, <1>8, <2>1, <2>4, <3>1, <3>3, <3>4 DEF DoneFor
  <2> QED
    BY <2>3, <2>4
<1>15. Done'
  <2>1. old' <= Len(samples')
    BY <1>2, <1>3, <1>4, <1>5 DEF SamplesTyped
  <2> QED
    BY <1>14, <2>1 DEF Done
<1> QED
  BY <1>12, <1>13, <1>15

-----------------------------------------------------------------------------
(***************************************************************************)
(* The theorems.                                                           *)
(***************************************************************************)
LEMMA UpgradeNext == UpgradeInv /\ [Next]_vars => UpgradeInv'
<1> SUFFICES ASSUME UpgradeInv, [Next]_vars PROVE UpgradeInv'
  OBVIOUS
<1>1. Progress'
  BY ProgressNext DEF UpgradeInv
<1>2. Typed' /\ Steady' /\ Staged' /\ Done'
  <2>1. CASE OpenTimescale \/ Close \/ UNCHANGED vars
    BY <2>1, OpenCloseKeeps
  <2>2. CASE RecordVersion("record1", 1)
    BY <2>2, RecordVersionKeeps
  <2>3. CASE RecordVersion("record2", 2)
    BY <2>3, RecordVersionKeeps
  <2>4. CASE RecordVersion("record3", 3)
    BY <2>4, RecordVersionKeeps
  <2>5. CASE DeleteStatusEvents
    BY <2>5, DeleteStatusEventsKeeps
  <2>6. CASE DeleteEthEvents
    BY <2>6, DeleteEthEventsKeeps
  <2>7. CASE TruncateEthState
    BY <2>7, TruncateEthStateKeeps
  <2>8. CASE InsertStatusEvents
    BY <2>8, InsertStatusEventsKeeps
  <2>9. CASE InsertEthEvents
    BY <2>9, InsertEthEventsKeeps
  <2>10. CASE BackfillEthState
    BY <2>10, BackfillEthStateKeeps
  <2>11. CASE BackfillSince
    BY <2>11, BackfillSinceKeeps
  <2>12. CASE SinceLastSeen
    BY <2>12, SinceLastSeenKeeps
  <2>13. CASE BackfillExpectedPorts
    BY <2>13, BackfillExpectedPortsKeeps
  <2>14. CASE PollPON
    BY <2>14, PollPONKeeps
  <2> QED
    BY <2>1, <2>2, <2>3, <2>4, <2>5, <2>6, <2>7, <2>8, <2>9, <2>10, <2>11, <2>12, <2>13, <2>14
       DEF Next
<1> QED
  BY <1>1, <1>2 DEF UpgradeInv

LEMMA UpgradeInvariant == Spec => []UpgradeInv
  BY UpgradeInit, UpgradeNext, PTL DEF Spec

\* Every value has its type, and whoever uses the store finds version 3.
THEOREM TypeCorrect == Spec => []TypeOK
<1>1. UpgradeInv => TypeOK
  <2> SUFFICES ASSUME UpgradeInv PROVE TypeOK
    OBVIOUS
  <2>1. \A s \in Serials : /\ DOMAIN ethState[s] \subseteq Nat
                           /\ \A p \in DOMAIN ethState[s] : ethState[s][p] \in Links
    <3> SUFFICES ASSUME NEW s \in Serials
                 PROVE  /\ DOMAIN ethState[s] \subseteq Nat
                        /\ \A p \in DOMAIN ethState[s] : ethState[s][p] \in Links
      OBVIOUS
    <3>1. ethState[s] \in Tables(Links)
      BY DEF UpgradeInv, Typed, LogsTyped
    <3> QED
      BY <3>1, TableFacts
  <2> QED
    BY <2>1 DEF UpgradeInv, Progress, Typed, SamplesTyped, TypeOK, Upgraded
<1> QED
  BY UpgradeInvariant, <1>1, PTL

\* Whatever failed and however often the upgrade began again: the status log of every
\* serial begins with the turns of its old samples, each once and in order, and goes on
\* with the events of the poller (migrateV3, backfillEventsFromSamples).
THEOREM StatusLogFromSamples == Spec => []StatusLogIsSampleHistory
<1>1. UpgradeInv => StatusLogIsSampleHistory
  <2> SUFFICES ASSUME UpgradeInv, Upgraded PROVE StatusLogIsSampleHistory
    BY DEF StatusLogIsSampleHistory
  <2>1. \A s \in Serials : HistoryOf(Turns(s), samples, old, statusEvents[s])
    BY DEF UpgradeInv, Done, DoneFor
  <2> QED
    BY <2>1 DEF StatusLogIsSampleHistory, HistoryOf
<1> QED
  BY UpgradeInvariant, <1>1, PTL

\* The poller's events go on from the backfill's for every identity that was up to date
\* when the upgrade began, and the log ends in the status of the identity.
THEOREM PollerContinuesLog == Spec => []LogContinues
<1>1. UpgradeInv => LogContinues
  <2> SUFFICES ASSUME UpgradeInv, Upgraded PROVE LogContinues
    BY DEF LogContinues
  <2>1. upToDate \subseteq Serials /\ \A s \in upToDate : ContinuesOf(statusEvents[s], onus[s].status)
    BY DEF UpgradeInv, Typed, Done, DoneFor
  <2> QED
    BY <2>1 DEF LogContinues, ContinuesOf
<1> QED
  BY UpgradeInvariant, <1>1, PTL

\* "Status since" is the time of the newest event of the log, for every identity there
\* is, up to date or not (the UPDATE of the backfill, UpsertONUs).
THEOREM SinceFromLog == Spec => []SinceIsNewestEvent
<1>1. UpgradeInv => SinceIsNewestEvent
  BY DEF UpgradeInv, Done, DoneFor, SinceOf, SinceIsNewestEvent
<1> QED
  BY UpgradeInvariant, <1>1, PTL

\* The port table and the port log, which the backfill derives in two ways, agree
\* (backfillEthState, ethEventsFromSample, updatePortState).
THEOREM PortTableFromLog == Spec => []PortTableMatchesLog
<1>1. UpgradeInv => PortTableMatchesLog
  <2> SUFFICES ASSUME UpgradeInv, Upgraded, NEW s \in Serials
               PROVE  LET log == ethEvents[s] IN
                      /\ \A p \in DOMAIN ethState[s] :
                           \E k \in DOMAIN log : /\ log[k].port = p /\ log[k].link = ethState[s][p]
                                                 /\ \A j \in DOMAIN log : log[j].port = p => j <= k
                      /\ \A k \in DOMAIN log : LET earlier == SamePortBefore(log, k) IN
                           /\ log[k].link # log[k].previous
                           /\ log[k].previous # None =>
                                \E j \in earlier : /\ log[j].link = log[k].previous
                                                   /\ \A i \in earlier : i <= j
                           /\ log[k].source = "backfill" /\ earlier # {} => log[k].previous # None
    BY Zenon DEF PortTableMatchesLog
  <2>1. TableEndsLog(ethEvents[s], ethState[s]) /\ PortsChained(ethEvents[s])
    BY DEF UpgradeInv, Done, DoneFor
  <2>2. ASSUME NEW k \in DOMAIN ethEvents[s]
        PROVE  LET log == ethEvents[s]  earlier == SamePortBefore(log, k) IN
               /\ log[k].link # log[k].previous
               /\ log[k].previous # None =>
                    \E j \in earlier : /\ log[j].link = log[k].previous
                                       /\ \A i \in earlier : i <= j
               /\ log[k].source = "backfill" /\ earlier # {} => log[k].previous # None
    <3>1. GoesOn(ethEvents[s], k)
      BY <2>1, <2>2 DEF PortsChained
    <3> QED
      BY <3>1 DEF GoesOn, SamePortBefore
  <2> QED
    BY <2>1, <2>2 DEF TableEndsLog
<1> QED
  BY UpgradeInvariant, <1>1, PTL

\* A log that is appended to goes on from itself.
LEMMA AppendedContinues ==
  ASSUME NEW V, NEW log \in Seq(V), NEW more \in Seq(V)
  PROVE  Continues(log, log \o more)
<1>1. /\ Len(log) \in Nat /\ Len(more) \in Nat /\ Len(log \o more) = Len(log) + Len(more)
      /\ \A i \in 1..Len(log) : (log \o more)[i] = log[i]
  OBVIOUS
<1>2. SubSeq(log \o more, 1, Len(log)) = log
  BY <1>1
<1> QED
  BY <1>1, <1>2 DEF Continues

LEMMA SameContinues ==
  ASSUME NEW V, NEW log \in Seq(V)
  PROVE  Continues(log, log)
<1>1. SubSeq(log, 1, Len(log)) = log /\ Len(log) \in Nat
  OBVIOUS
<1> QED
  BY <1>1 DEF Continues

\* No start of the process after the upgrade takes back or repeats what the logs hold.
THEOREM LogsKeepGrowing == Spec => LogsOnlyGrow
<1> DEFINE Grow == /\ version' = 3
                   /\ \A s \in Serials : /\ Continues(statusEvents[s], statusEvents'[s])
                                         /\ Continues(ethEvents[s], ethEvents'[s])
<1>1. ASSUME UpgradeInv, Next, Upgraded
      PROVE  Grow
  <2>1. /\ Progress /\ LogsTyped /\ OnusTyped /\ SamplesTyped /\ version = 3
        /\ pc \notin Statements
    BY <1>1 DEF UpgradeInv, Typed, Progress, Upgraded
  <2>2. \A s \in Serials : /\ statusEvents[s] \in Seq(StatusEvents(Statuses))
                           /\ ethEvents[s] \in Seq(EthEvents(Links))
    BY <2>1 DEF LogsTyped, StatusLogs, EthLogs
  <2>3. CASE OpenTimescale \/ Close
    <3>1. version' = version /\ statusEvents' = statusEvents /\ ethEvents' = ethEvents
      BY <2>3 DEF OpenTimescale, Close, db
    <3> QED
      BY <2>1, <2>2, <3>1, SameContinues
  <2>4. CASE PollPON
    <3>1. PICK r \in Samples(Len(samples) + 1) :
            LET x == ApplyExpectedPorts(r) IN
            r.serial # Blank /\ RecordSampleTransitions(x.serial, x)
      BY <2>4 DEF PollPON
    <3> DEFINE x == ApplyExpectedPorts(r)
               t == x.serial
               status == StatusEventsFrom(onus[t].status, x, "poller")
               eth == EthEventsFrom(ethState[t], x, "poller")
    <3>2. x \in Row /\ t \in Serials /\ x.serial # Blank
      <4>1. Len(samples) + 1 \in Nat \ {0}
        BY <2>1 DEF SamplesTyped
      <4>2. r \in Row
        BY <4>1, SampleType
      <4>3. "unknown" \in Links
        BY StatesAssumption
      <4>4. x \in Row /\ x.serial = r.serial
        BY <4>2, <4>3, ApplyExpectedPortsType DEF Row
      <4> QED
        BY <3>1, <4>2, <4>4 DEF Row, Rows
    <3>3. /\ version' = version
          /\ statusEvents' = [statusEvents EXCEPT ![t] = @ \o status]
          /\ ethEvents' = [ethEvents EXCEPT ![t] = @ \o eth]
      BY <2>4, <3>1 DEF PollPON, RecordSampleTransitions
    <3>4. status \in Seq(StatusEvents(Statuses)) /\ eth \in Seq(EthEvents(Links))
      <4>1. "poller" \in Sources /\ None \notin Links
        BY StatesAssumption DEF Sources
      <4>2. onus[t].status \in Known /\ ethState[t] \in Tables(Links)
        BY <2>1, <3>2 DEF OnusTyped, Identity, LogsTyped
      <4>3. status \in StatusLogs
        BY <3>2, <4>1, <4>2, StatusEventsType
      <4>4. eth \in Seq(EthEvents(Links))
        BY <3>2, <4>1, <4>2, EthEventsFromSample DEF Row
      <4> QED
        BY <4>3, <4>4 DEF StatusLogs
    <3> HIDE DEF x, t, status, eth
    <3>5. ASSUME NEW s \in Serials
          PROVE  /\ Continues(statusEvents[s], statusEvents'[s])
                 /\ Continues(ethEvents[s], ethEvents'[s])
      <4>1. CASE s = t
        <5>1. /\ statusEvents'[s] = statusEvents[s] \o status
              /\ ethEvents'[s] = ethEvents[s] \o eth
          BY <2>1, <3>3, <4>1 DEF LogsTyped
        <5> QED
          BY <2>2, <3>4, <5>1, AppendedContinues
      <4>2. CASE s # t
        <5>1. statusEvents'[s] = statusEvents[s] /\ ethEvents'[s] = ethEvents[s]
          BY <2>1, <3>3, <4>2 DEF LogsTyped
        <5> QED
          BY <2>2, <5>1, SameContinues
      <4> QED
        BY <4>1, <4>2
    <3> QED
      BY <2>1, <3>3, <3>5
  <2>5. ~(RecordVersion("record1", 1) \/ RecordVersion("record2", 2) \/ RecordVersion("record3", 3))
    BY <2>1 DEF RecordVersion, Execute, Statements
  <2>6. ~(\/ DeleteStatusEvents \/ DeleteEthEvents \/ TruncateEthState
          \/ InsertStatusEvents \/ InsertEthEvents \/ BackfillEthState
          \/ BackfillSince \/ SinceLastSeen \/ BackfillExpectedPorts)
    BY <2>1 DEF DeleteStatusEvents, DeleteEthEvents, TruncateEthState, InsertStatusEvents,
       InsertEthEvents, BackfillEthState, BackfillSince, SinceLastSeen, BackfillExpectedPorts,
       Execute, Statements
  <2> QED
    BY <1>1, <2>3, <2>4, <2>5, <2>6, Zenon DEF Next
<1>2. UpgradeInv /\ [Next]_vars => [Upgraded => Grow]_vars
  BY <1>1
<1> QED
  BY UpgradeInvariant, <1>2, PTL DEF Spec, LogsOnlyGrow
=============================================================================
