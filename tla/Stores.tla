------------------------------- MODULE Stores -------------------------------
(***************************************************************************)
(* The two implementations of the Store interface (internal/store): the    *)
(* database (timescale.go, timescale_v3.go, timescale_duplicates.go) and   *)
(* the in-memory store the tests run against (memory.go, query.go,         *)
(* duplicates.go).                                                         *)
(*                                                                         *)
(* A history is a sequence of calls, the i-th at time i, every one of them *)
(* successful: "poll" (RecordSampleTransitions, InsertSamples, UpsertONUs  *)
(* of one batch), "start" and "finish" (of the newest collection run),     *)
(* "unauth" (ReplaceUnauth).  Memory(h) and Timescale(h) are what the two  *)
(* stores hold after it.  The memory store takes the rows of a batch one   *)
(* by one; the database computes the events of the whole batch from what   *)
(* it held before it.  One device stands for all.  The logs of rows        *)
(* without a serial number are left out (Poller has the database's).       *)
(***************************************************************************)
EXTENDS EventLog, SequencesExt, FiniteSetsExt

CONSTANTS Serials,       \* serial numbers
          Candidates,    \* serial numbers of unconfigured ONUs
          DefaultLimit,  \* rows of a query that sets no limit (500)
          MaxLimit,      \* rows of a query at most (2000)
          Day            \* length of the window of a query that sets none (24 hours)

ASSUME SerialsAssumption == Blank \notin Serials

ASSUME LimitsAssumption == {DefaultLimit, MaxLimit, Day} \subseteq Nat /\ DefaultLimit <= MaxLimit

\* The elements of a sequence at the indexes I, and those that P holds of, in their order.
Elements(seq, I) == [k \in 1..Cardinality(I) |-> seq[CHOOSE i \in I : Cardinality({j \in I : j <= i}) = k]]

Only(seq, P(_)) == Elements(seq, {i \in DOMAIN seq : P(seq[i])})

NoState == [status |-> None, previous |-> None, since |-> 0]

Empty == [states |-> [s \in Serials |-> NoState],
          ports  |-> [s \in Serials |-> NoPorts],
          events |-> [s \in Serials |-> <<>>],
          eth    |-> [s \in Serials |-> <<>>]]

-----------------------------------------------------------------------------
(***************************************************************************)
(* Recording a batch.                                                      *)
(***************************************************************************)
SeenState(was, x) ==
  [status   |-> x.status,
   previous |-> IF was.status # x.status THEN was.status ELSE was.previous,
   since    |-> IF was.status # x.status THEN x.time ELSE was.since]

LogRow(store, known, r) ==
  IF r.serial = Blank THEN store
  ELSE LET x == ApplyExpectedPorts(r)  s == x.serial IN
       [states |-> store.states, ports |-> store.ports,
        events |-> [store.events EXCEPT ![s] = @ \o StatusEventsFrom(known.states[s].status, x, "poller")],
        eth    |-> [store.eth EXCEPT ![s] = @ \o EthEventsFrom(known.ports[s], x, "poller")]]

KeepRow(store, r) ==
  IF r.serial = Blank THEN store
  ELSE LET x == ApplyExpectedPorts(r)  s == x.serial IN
       [states |-> [store.states EXCEPT ![s] = SeenState(@, x)],
        ports  |-> [store.ports EXCEPT ![s] = UpdatePorts(@, x)],
        events |-> store.events, eth |-> store.eth]

MemoryRecord(store, rows) ==
  FoldLeft(LAMBDA m, r : KeepRow(LogRow(m, m, r), r), store, rows)

\* Mutant: the identities are updated before the events are derived from them.
TimescaleRecord_KeepsFirst(store, rows) ==
  LET kept == FoldLeft(KeepRow, store, rows) IN
  FoldLeft(LAMBDA d, r : LogRow(d, kept, r), kept, rows)

TimescaleRecord(store, rows) ==
  LET logged == FoldLeft(LAMBDA d, r : LogRow(d, store, r), store, rows) IN
  FoldLeft(KeepRow, logged, rows)

Polls(h) == Only(h, LAMBDA c : c.call = "poll")

Memory(h) == FoldLeft(LAMBDA m, c : MemoryRecord(m, c.rows), Empty, Polls(h))
Timescale(h) == FoldLeft(LAMBDA d, c : TimescaleRecord(d, c.rows), Empty, Polls(h))

\* InsertSamples appends, in both.
SamplesOf(h) == FlattenSeq([i \in DOMAIN Polls(h) |-> Polls(h)[i].rows])

-----------------------------------------------------------------------------
(***************************************************************************)
(* Collection runs.                                                        *)
(***************************************************************************)
NoRun == [id |-> 0, started |-> 0, finished |-> 0]

RunStep(runs, c) ==
  IF c.call = "start" THEN Append(runs, [id |-> Len(runs) + 1, started |-> c.time, finished |-> 0])
  ELSE IF c.call = "finish" THEN [runs EXCEPT ![Len(runs)] = [@ EXCEPT !.finished = c.time]]
  ELSE runs

Runs(h) == FoldLeft(RunStep, <<>>, h)

\* Mutant: the newest run, finished or not.
LatestFinishedRun_AnyRun(runs) == IF runs = <<>> THEN NoRun ELSE runs[Len(runs)]

LatestFinishedRun(runs) ==
  LET finished == Only(runs, LAMBDA r : r.finished # 0) IN
  IF finished = <<>> THEN NoRun ELSE finished[Len(finished)]

-----------------------------------------------------------------------------
(***************************************************************************)
(* Queries.  A query is [run, latest, from, to, status, limit]; 0 and None *)
(* are what a request that leaves a field out has.                         *)
(***************************************************************************)
\* Mutant: every run reaches until now.
ApplyRunWindow_UntilNow(runs, q, now) ==
  IF q.run = 0 /\ ~q.latest THEN q
  ELSE LET r == runs[IF q.latest THEN Len(runs) ELSE q.run] IN
       [q EXCEPT !.from = r.started, !.to = now, !.limit = IF @ = 0 THEN MaxLimit ELSE @]

ApplyRunWindow(runs, q, now) ==
  IF q.run = 0 /\ ~q.latest THEN q
  ELSE LET r == runs[IF q.latest THEN Len(runs) ELSE q.run] IN
       [q EXCEPT !.from = r.started,
                 !.to = IF r.finished # 0 THEN r.finished ELSE now,
                 !.limit = IF @ = 0 THEN MaxLimit ELSE @]

RunExists(runs, q) == IF q.latest THEN runs # <<>> ELSE q.run \in 0..Len(runs)

SampleWindow(q, now) ==
  LET to == IF q.to = 0 THEN now ELSE q.to IN
  [from |-> IF q.from # 0 THEN q.from ELSE IF to > Day THEN to - Day ELSE 0, to |-> to]

MatchSample(x, q, now) ==
  LET w == SampleWindow(q, now) IN
  /\ q.status # None => x.status = q.status
  /\ w.from <= x.time /\ x.time <= w.to

SampleLimit(q) ==
  IF q.limit = 0 THEN DefaultLimit ELSE IF q.limit > MaxLimit THEN MaxLimit ELSE q.limit

First(n, seq) == SubSeq(seq, 1, IF n < Len(seq) THEN n ELSE Len(seq))

Matching(h, q, now) ==
  LET w == ApplyRunWindow(Runs(h), q, now) IN
  Only(SamplesOf(h), LAMBDA x : MatchSample(x, w, now))

\* ListSamples: newest first, which is the order they were stored in backwards; rows of
\* the same time come in any order, of which this is one.
MemoryList(h, q, now) ==
  LET w == ApplyRunWindow(Runs(h), q, now) IN
  First(IF w.limit = 0 THEN DefaultLimit ELSE w.limit, Reverse(Matching(h, q, now)))

TimescaleList(h, q, now) ==
  First(SampleLimit(ApplyRunWindow(Runs(h), q, now)), Reverse(Matching(h, q, now)))

\* ListSampleCounts by status: no limit.
SampleCounts(h, q, now) ==
  LET rows == Matching(h, q, now)
      keys == {rows[i].status : i \in DOMAIN rows} IN
  [k \in keys |-> Cardinality({i \in DOMAIN rows : rows[i].status = k})]

-----------------------------------------------------------------------------
(***************************************************************************)
(* The report of serial numbers at more than one position.                 *)
(***************************************************************************)
InLatestRun(t, latest) == latest.id # 0 /\ latest.started <= t /\ t <= latest.finished

\* One row for each serial number and position: how often it was seen, when last and in
\* which state, and whether by the latest finished run.
PositionRows(rows, latest) ==
  {LET seen == {i \in DOMAIN rows : rows[i].serial = rows[n].serial /\ rows[i].pos = rows[n].pos}
       last == rows[Max(seen)] IN
   [serial |-> rows[n].serial, pos |-> rows[n].pos, samples |-> Cardinality(seen),
    lastSeen |-> last.time, status |-> last.status,
    inLatest |-> \E i \in seen : InLatestRun(rows[i].time, latest)] : n \in DOMAIN rows}

AssembleDuplicateSerials(scope, rows) ==
  LET of(s) == {r \in rows : r.serial = s}
      item(s) == [serial |-> s, positions |-> of(s),
                  current |-> Cardinality({r \in of(s) : r.inLatest})] IN
  {d \in {item(r.serial) : r \in rows} :
     IF scope = "current" THEN d.current > 1 ELSE Cardinality(d.positions) > 1}

WithSerial(rows) == Only(rows, LAMBDA x : x.serial # Blank)

BuildDuplicateSerials(h, scope) ==
  AssembleDuplicateSerials(scope,
    PositionRows(WithSerial(SamplesOf(h)), LatestFinishedRun(Runs(h))))

\* The database reads only the samples of the run when that is what was asked for, and
\* only the serial numbers that may be reported.
TimescaleDuplicates(h, scope) ==
  LET latest == LatestFinishedRun(Runs(h))
      rows == PositionRows(Only(WithSerial(SamplesOf(h)),
                LAMBDA x : scope = "history" \/ InLatestRun(x.time, latest)), latest)
      several(s) == Cardinality({r \in rows : r.serial = s}) > 1 IN
  IF scope = "current" /\ latest.id = 0 THEN {}
  ELSE AssembleDuplicateSerials(scope, {r \in rows : several(r.serial)})

-----------------------------------------------------------------------------
(***************************************************************************)
(* Unconfigured ONUs.                                                      *)
(***************************************************************************)
NeverAsked == [status |-> "unavailable", serials |-> {}]

MemoryReplaceUnauth(list, c) ==
  [status |-> c.status,
   serials |-> IF c.status \in {"unsupported", "unavailable"} /\ c.serials = {}
               THEN list.serials ELSE c.serials]

\* The rows that are not gone.
TimescaleReplaceUnauth(list, c) ==
  [status |-> c.status,
   serials |-> c.serials \cup (IF c.status \in {"ok", "empty"} THEN {} ELSE list.serials)]

Discoveries(h) == Only(h, LAMBDA c : c.call = "unauth")

MemoryUnauth(h) == FoldLeft(MemoryReplaceUnauth, NeverAsked, Discoveries(h))
TimescaleUnauth(h) == FoldLeft(TimescaleReplaceUnauth, NeverAsked, Discoveries(h))
=============================================================================
