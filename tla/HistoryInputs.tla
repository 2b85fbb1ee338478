---------------------------- MODULE HistoryInputs ---------------------------
(***************************************************************************)
(* The pure algorithms of the history on bounded inputs: a behavior picks  *)
(* the kind of input and builds it up; the invariants compare what the     *)
(* operators of module Stores make of it with a reference.                 *)
(***************************************************************************)
EXTENDS Stores

CONSTANTS MaxPolls, MaxCalls    \* bounds on the length of a history

VARIABLES kind, value
vars == <<kind, value>>

Init == kind = "none" /\ value = <<>>

Grow(k, bound, c) ==
  /\ kind \in {"none", k} /\ Len(value) < bound
  /\ kind' = k /\ value' = Append(value, c)

Now == IF kind \in {"none", "log", "runs", "unauth"} THEN Len(value) + 1 ELSE 0

-----------------------------------------------------------------------------
(***************************************************************************)
(* Stores.                                                                 *)
(***************************************************************************)
PortTables == {NoPorts, [p \in {1} |-> "up"], [p \in {3} |-> "up"]}

RowsAt(pos) ==
  [time : {Now}, pos : {pos}, serial : Serials, status : {"online", "offline"},
   expected : {2}, ports : PortTables]

BlankAt(pos) ==
  [time |-> Now, pos |-> pos, serial |-> Blank, status |-> "online", expected |-> 0, ports |-> NoPorts]

\* A batch of one PON: one ONU, or two of which both or one have the serial number.
Batches ==
  {<<r>> : r \in RowsAt(1)} \cup {<<r, q>> : r \in RowsAt(1) \cup {BlankAt(1)}, q \in RowsAt(2)}

Poll == \E b \in Batches : Grow("log", MaxPolls, [call |-> "poll", time |-> Now, rows |-> b])

\* Rows of which only position and status matter.
PlainRow(s, pos, status) ==
  [time |-> Now, pos |-> pos, serial |-> s, status |-> status, expected |-> 0, ports |-> NoPorts]

RunPolls ==
  {<<BlankAt(1)>>}
    \cup UNION {{<<PlainRow(s, 1, "online")>>, <<PlainRow(s, 2, "offline")>>,
                 <<PlainRow(s, 1, "online"), PlainRow(s, 2, "online")>>} : s \in Serials}

\* A poll needs an open run; a run is started although the one before was never finished
\* when the process crashed.
PollOfRun == /\ kind = "runs" /\ Runs(value) # <<>> /\ Last(Runs(value)).finished = 0
             /\ \E b \in RunPolls : Grow("runs", MaxCalls, [call |-> "poll", time |-> Now, rows |-> b])
StartRun == Grow("runs", MaxCalls, [call |-> "start", time |-> Now])
FinishRun == /\ kind = "runs" /\ Runs(value) # <<>> /\ Last(Runs(value)).finished = 0
             /\ Grow("runs", MaxCalls, [call |-> "finish", time |-> Now])

Discover ==
  \/ \E found \in SUBSET Candidates :
       Grow("unauth", MaxPolls, [call |-> "unauth", status |-> "ok", serials |-> found])
  \/ \E status \in {"unsupported", "unavailable"} :
       Grow("unauth", MaxPolls, [call |-> "unauth", status |-> status, serials |-> {}])

HistoryNext == Poll \/ PollOfRun \/ StartRun \/ FinishRun \/ Discover

\* A query of a run sets no window, and most queries set no run.
Queries ==
  [run : 0..Len(Runs(value)), latest : BOOLEAN, from : {0}, to : {0}, status : {None},
   limit : {0, 1, MaxLimit + 1}]
    \cup [run : {0}, latest : {FALSE}, from : {0, 2}, to : {0, Len(value)},
          status : {None, "online"}, limit : {1, MaxLimit + 1}]

\* Serial numbers twice in one batch.
Repeated(h) ==
  {s \in Serials : \E i \in DOMAIN h : h[i].call = "poll" /\
     Cardinality({k \in DOMAIN h[i].rows : h[i].rows[k].serial = s}) > 1}

\* The memory store's log of a serial number chains even when a batch had it twice, and
\* ends in what the identity shows: "status since" is the time of the last event.
MemoryLogChains ==
  kind = "log" => \A s \in Serials :
    LET log == Memory(value).events[s]  state == Memory(value).states[s] IN
    /\ \A k \in DOMAIN log : /\ log[k].previous = IF k = 1 THEN None ELSE log[k - 1].status
                             /\ log[k].status # log[k].previous
    /\ state # NoState => /\ log # <<>> /\ Last(log).status = state.status
                          /\ Last(log).time = state.since /\ Last(log).previous = state.previous

\* What the tests see of the store they run against is what the database does: the
\* identities and the port table always; the logs unless one batch had the serial
\* number twice, which then is in the report of duplicates, and of which only the memory
\* store's log is a chain; the unconfigured ONUs (RecordSampleTransitions and UpsertONUs,
\* ReplaceUnauth).
StoresAgree ==
  /\ kind = "log" =>
       LET m == Memory(value)  d == Timescale(value) IN
       /\ m.states = d.states /\ m.ports = d.ports
       /\ \A s \in Serials : m.events[s] # d.events[s] \/ m.eth[s] # d.eth[s] =>
            /\ s \in Repeated(value)
            /\ s \in {r.serial : r \in TimescaleDuplicates(value, "history")}
  /\ MemoryLogChains
  /\ kind = "unauth" => MemoryUnauth(value) = TimescaleUnauth(value)

\* Samples the polls of a run stored, by the order of the calls.
SamplesOfRun(n) ==
  LET start == CHOOSE i \in DOMAIN value : Cardinality({j \in 1..i : value[j].call = "start"}) = n
                                           /\ value[i].call = "start" IN
  Only(SamplesOf(value), LAMBDA x : /\ x.time > start
                                    /\ \A j \in (start + 1)..(x.time) : value[j].call = "poll")

\* The window of a run, finished or under way, holds what its own polls stored and
\* nothing of another run, although it is only a pair of times; the window of a run
\* that a crash left open reaches over all the runs after it (ApplyRunWindow).
RunWindowIsExact ==
  kind = "runs" => \A n \in DOMAIN Runs(value), latest \in BOOLEAN :
    LET q == [run |-> n, latest |-> latest, from |-> 0, to |-> 0, status |-> None, limit |-> 0]
        id == IF latest THEN Len(Runs(value)) ELSE n
        seen == Matching(value, q, Now) IN
    IF id = Len(Runs(value)) \/ Runs(value)[id].finished # 0
    THEN seen = SamplesOfRun(id)
    ELSE /\ \A i \in DOMAIN SamplesOfRun(id) : SamplesOfRun(id)[i] \in ToSet(seen)
         /\ \A i \in DOMAIN SamplesOf(value) :
              SamplesOf(value)[i].time > Runs(value)[id].started => SamplesOf(value)[i] \in ToSet(seen)

\* A list is the newest part of what the counts count, on every query: the buckets sum up
\* to the rows, and only the limit cuts the list.  The database's list is that of the
\* memory store up to the limit of the API (ListSamples, ListSampleCounts).  Rows are
\* compared by their times: those of one time come in any order.
ListsMatchCounts ==
  kind = "runs" => \A q \in Queries :
    RunExists(Runs(value), q) =>
      LET counts == SampleCounts(value, q, Now)
          total == Cardinality(UNION {{k} \X (1..counts[k]) : k \in DOMAIN counts})
          times(rows) == [i \in DOMAIN rows |-> rows[i].time]
          list == times(TimescaleList(value, q, Now))
          all == Len(SamplesOf(value)) + 1
          whole == times(MemoryList(value, [q EXCEPT !.limit = all], Now)) IN
      /\ total = Len(whole)
      /\ list = First(Len(list), whole)
      /\ Len(list) < total => Len(list) \in {DefaultLimit, q.limit, MaxLimit}
      /\ times(MemoryList(value, q, Now)) # list => q.limit > MaxLimit

\* Every query of samples answers with those of its window, of a run with those its polls
\* stored, newest first, as many as the limit says and as the counts sum up to.
QueriesAreExact == RunWindowIsExact /\ ListsMatchCounts

\* The duplicates of the current run are the serial numbers that the samples of the latest
\* finished run show at two positions, those of the history the ones all samples do; the
\* database reports the same serial numbers as the memory store, and of the history the
\* same positions (BuildDuplicateSerials, Timescale.ListDuplicateSerials).
DuplicatesAreThose ==
  kind = "runs" =>
    LET several(rows) == {s \in Serials : Cardinality({rows[i].pos : i \in {j \in DOMAIN rows :
                                                        rows[j].serial = s}}) > 1}
        finished == {n \in DOMAIN Runs(value) : Runs(value)[n].finished # 0}
        serials(report) == {d.serial : d \in report} IN
    /\ serials(TimescaleDuplicates(value, "history")) = several(SamplesOf(value))
    /\ serials(TimescaleDuplicates(value, "current")) =
         IF finished = {} THEN {} ELSE several(SamplesOfRun(Max(finished)))
    /\ TimescaleDuplicates(value, "history") = BuildDuplicateSerials(value, "history")
    /\ {<<d.serial, d.current>> : d \in TimescaleDuplicates(value, "current")} =
         {<<d.serial, d.current>> : d \in BuildDuplicateSerials(value, "current")}
=============================================================================
