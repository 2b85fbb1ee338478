------------------------------- MODULE Poller -------------------------------
(***************************************************************************)
(* The history poller of one OLT (internal/poller/poller.go) over the      *)
(* durable store (internal/store/timescale.go, timescale_v3.go, events.go).*)
(*                                                                         *)
(* A collection run walks the PONs one after the other.  What a walk       *)
(* returns goes through FIVE separate writes, with no transaction around   *)
(* them: status events, port events, port states, samples, identities.     *)
(* The events are computed from the identities and the port states the     *)
(* earlier polls left behind, so a poll that stops half way through        *)
(* changes what the next ones conclude.                                    *)
(*                                                                         *)
(* Any statement may fail, applied or not, and the process may stop at any *)
(* point.  Rows are upserted one statement at a time in the order of the   *)
(* ONU-IDs; a step of the model applies a prefix of them.  Only this       *)
(* poller writes these tables, so the reads that precede a write are made  *)
(* in the step of the write (a failing read is a write that fails          *)
(* unapplied).  Time is a counter that ticks when a run starts and when a  *)
(* walk starts.  One board stands for all: boards only order the PONs.     *)
(***************************************************************************)
EXTENDS Naturals, Sequences, FiniteSets

CONSTANTS Serials,     \* serial numbers, as naturals: the order of the database
          Statuses,    \* operational states an ONU reports
          Links,       \* what a walk knows of the UNI port of an ONU
          Ids,         \* ONU-IDs of a PON (a bound on the length of a list)
          NumPons,     \* configured PONs
          Candidates,  \* serials the unconfigured-ONU table may show
          MaxClock     \* bound on time

ASSUME SerialsAssumption == Serials \subseteq Nat \ {0} /\ Candidates \subseteq Serials
ASSUME StatusAssumption  == "" \notin Statuses
ASSUME LinksAssumption   == Links \subseteq {"up", "down", "unread"}
ASSUME IdsAssumption     == Ids \subseteq Nat /\ IsFiniteSet(Ids)
ASSUME BoundsAssumption  == NumPons \in Nat /\ MaxClock \in Nat

VARIABLES clock,
          live,          \* the process: serving, store closed, context cancelled
          job,           \* the poller goroutine's memory
          runs,          \* collection_runs, by id
          onus,          \* onus: identity by serial
          statusEvents,  \* onu_status_events
          ethEvents,     \* onu_eth_events
          ethState,      \* onu_eth_state: the port's state by serial
          samples,       \* onu_samples
          unauth,        \* onu_unauth_discovery (status) and onu_unauth (rows)
          torn           \* history: serials a poll logged an event of and failed to
                         \* update the identity of

logs == <<statusEvents, ethEvents, samples>>
vars == <<clock, live, job, runs, onus, ethState, unauth, torn, logs>>

-----------------------------------------------------------------------------
\* An inventory row whose serial number could not be read carries none.
Blank == 0
Keys  == Serials \cup {Blank}

Row == [id : Ids, serial : Keys, status : Statuses, link : Links]

\* What a walk of a PON returns.  Bound: no serial, and no missing serial, twice.
Batches == {b \in SUBSET Row : \A r, q \in b : r # q => r.id # q.id /\ r.serial # q.serial}

Recording == {"status", "eth", "ethstate", "samples", "onus"}

Idle == [pc |-> "idle", id |-> 0, pon |-> 0, at |-> 0, batch |-> {},
         ok |-> 0, err |-> 0, sampled |-> 0, failed |-> FALSE]

NoONU  == [status |-> "", previous |-> "", changed |-> 0, seen |-> 0]
NoPort == [link |-> "", changed |-> 0, seen |-> 0]

\* A statement that reports success was applied, and a closed pool or a cancelled
\* context lets none through.
Outcome(ok, applied) ==
  /\ ok => applied
  /\ applied => live = "serving"

\* The rows reached by a loop of upserts that stops somewhere.
Prefixes == {{r \in job.batch : r.id <= n} : n \in {0} \cup Ids}

Logged == {e.serial : e \in {x \in statusEvents : x.time = job.at}}

PonFails == [job EXCEPT !.pc = "next", !.err = @ + 1]

\* Serials whose event is logged and whose identity the poll will not reach.
Tear(serials) == torn' = torn \cup serials

-----------------------------------------------------------------------------
Init ==
  /\ clock = 0 /\ live = "serving" /\ job = Idle
  /\ runs = <<>>
  /\ onus = [s \in Serials |-> NoONU]
  /\ ethState = [s \in Keys |-> NoPort]
  /\ statusEvents = {} /\ ethEvents = {} /\ samples = {}
  /\ unauth = [status |-> "none", rows |-> [s \in Serials |-> "never"]]
  /\ torn = {}

(***************************************************************************)
(* The run.                                                                *)
(***************************************************************************)
NewRun(t) == [started |-> t, finished |-> 0, status |-> "running",
              ok |-> 0, err |-> 0, sampled |-> 0]

\* Without a run row there is no cycle for this device.
InsertCollectionRun ==
  /\ job.pc = "idle" /\ live # "cancelled"
  /\ clock + NumPons < MaxClock
  /\ clock' = clock + 1
  /\ \E ok, applied \in BOOLEAN :
       /\ Outcome(ok, applied)
       /\ runs' = IF applied THEN Append(runs, NewRun(clock + 1)) ELSE runs
       /\ job' = IF ok THEN [Idle EXCEPT !.pc = "device", !.id = Len(runs) + 1] ELSE Idle
  /\ UNCHANGED <<live, onus, ethState, unauth, torn, logs>>

\* Nothing reads the devices table back.
UpsertDevice ==
  /\ job.pc = "device"
  /\ \/ live = "serving" /\ job' = [job EXCEPT !.pc = "next"]
     \/ job' = [job EXCEPT !.pc = "finish", !.failed = TRUE]
  /\ UNCHANGED <<clock, live, runs, onus, ethState, unauth, torn, logs>>

\* The context is looked at before every PON and in the pause after it.
Interrupted ==
  /\ job.pc = "next" /\ live = "cancelled"
  /\ job' = [job EXCEPT !.pc = "finish", !.failed = TRUE]
  /\ UNCHANGED <<clock, live, runs, onus, ethState, unauth, torn, logs>>

\* The time of the samples is taken before the walk.  An empty list is not written.
CollectPONInventory ==
  /\ job.pc = "next" /\ live # "cancelled" /\ job.pon < NumPons
  /\ clock' = clock + 1
  /\ LET started == [job EXCEPT !.pon = @ + 1, !.at = clock + 1] IN
     \/ job' = [started EXCEPT !.err = @ + 1]
     \/ job' = [started EXCEPT !.ok = @ + 1]
     \/ \E b \in Batches \ {{}} : job' = [started EXCEPT !.pc = "status", !.batch = b]
  /\ UNCHANGED <<live, runs, onus, ethState, unauth, torn, logs>>

-----------------------------------------------------------------------------
(***************************************************************************)
(* RecordSampleTransitions.                                                *)
(***************************************************************************)
StatusChanged(r) ==
  /\ r.serial # Blank
  /\ onus[r.serial].seen = 0 \/ onus[r.serial].status # r.status

\* Mutant: the event carries the state before the previous one.
StatusEventFrom_OldPrevious(r) ==
  [time |-> job.at, serial |-> r.serial, status |-> r.status,
   previous |-> onus[r.serial].previous]

StatusEventFrom(r) == [time |-> job.at, serial |-> r.serial, status |-> r.status,
                       previous |-> onus[r.serial].status]

InsertStatusEvents ==
  /\ job.pc = "status"
  /\ \E ok, applied \in BOOLEAN :
       LET new == IF applied THEN {StatusEventFrom(r) : r \in {q \in job.batch : StatusChanged(q)}}
                             ELSE {} IN
       /\ Outcome(ok, applied)
       /\ statusEvents' = statusEvents \cup new
       /\ job' = IF ok THEN [job EXCEPT !.pc = "eth"] ELSE PonFails
       /\ IF ok THEN UNCHANGED torn ELSE Tear({e.serial : e \in new})
  /\ UNCHANGED <<clock, live, runs, onus, ethState, ethEvents, samples, unauth>>

\* Mutant: an unread port is stored as it came.
Port_Unpadded(r) == r.link

\* applyExpectedPorts: a port of a known model that was not read is "unknown".
Port(r) == IF r.link = "unread" THEN "unknown" ELSE r.link

\* ListEthState with an empty serial has no filter: the rows come in the order of
\* the serials, and the last one of a port number wins.
PreviousKey(s) ==
  LET known == {k \in Keys : ethState[k].seen # 0}
      last  == {k \in known : \A j \in known : j <= k} IN
  IF s = Blank /\ last # {} THEN CHOOSE k \in last : TRUE ELSE s

PreviousPort(s) == ethState[PreviousKey(s)]

\* Mutant: the first state of a port is no change.
PortChanged_NotFirst(r) ==
  PreviousPort(r.serial).seen # 0 /\ PreviousPort(r.serial).link # Port(r)

\* A previous state without a serial number counts as none.
PortChanged(r) ==
  \/ PreviousKey(r.serial) = Blank \/ PreviousPort(r.serial).seen = 0
  \/ PreviousPort(r.serial).link # Port(r)

EthEventFrom(r) == [time |-> job.at, serial |-> r.serial, link |-> Port(r),
                    previous |-> PreviousPort(r.serial).link]

InsertEthEvents ==
  /\ job.pc = "eth"
  /\ \E ok, applied \in BOOLEAN :
       LET new == IF applied THEN {EthEventFrom(r) : r \in {q \in job.batch : PortChanged(q)}}
                             ELSE {} IN
       /\ Outcome(ok, applied)
       /\ ethEvents' = ethEvents \cup new
       /\ job' = IF ok THEN [job EXCEPT !.pc = "ethstate"] ELSE PonFails
       /\ IF ok THEN UNCHANGED torn ELSE Tear(Logged)
  /\ UNCHANGED <<clock, live, runs, onus, ethState, statusEvents, samples, unauth>>

PortRow(old, r) ==
  [link |-> Port(r), seen |-> job.at,
   changed |-> IF old.seen = 0 \/ old.link # Port(r) THEN job.at ELSE old.changed]

UpsertEthState ==
  /\ job.pc = "ethstate"
  /\ \E ok \in BOOLEAN, done \in Prefixes :
       /\ ok => done = job.batch
       /\ ok \/ done # {} => live = "serving"
       /\ ethState' = [s \in Keys |->
            IF \E r \in done : r.serial = s
              THEN PortRow(ethState[s], CHOOSE r \in done : r.serial = s) ELSE ethState[s]]
       /\ job' = IF ok THEN [job EXCEPT !.pc = "samples"] ELSE PonFails
       /\ IF ok THEN UNCHANGED torn ELSE Tear(Logged)
  /\ UNCHANGED <<clock, live, runs, onus, unauth, logs>>

-----------------------------------------------------------------------------
SampleOf(r) == [time |-> job.at, pon |-> job.pon, id |-> r.id,
                serial |-> r.serial, status |-> r.status, link |-> Port(r)]

\* Mutant: a failure to store the samples is only logged.
InsertSamples_Logged ==
  /\ job.pc = "samples"
  /\ \E ok, applied \in BOOLEAN :
       /\ Outcome(ok, applied)
       /\ samples' = IF applied THEN samples \cup {SampleOf(r) : r \in job.batch} ELSE samples
       /\ job' = [job EXCEPT !.pc = "onus"]
       /\ UNCHANGED torn
  /\ UNCHANGED <<clock, live, runs, onus, ethState, statusEvents, ethEvents, unauth>>

InsertSamples ==
  /\ job.pc = "samples"
  /\ \E ok, applied \in BOOLEAN :
       /\ Outcome(ok, applied)
       /\ samples' = IF applied THEN samples \cup {SampleOf(r) : r \in job.batch} ELSE samples
       /\ job' = IF ok THEN [job EXCEPT !.pc = "onus"] ELSE PonFails
       /\ IF ok THEN UNCHANGED torn ELSE Tear(Logged)
  /\ UNCHANGED <<clock, live, runs, onus, ethState, statusEvents, ethEvents, unauth>>

\* Mutant: every sighting counts as a change.
IdentityRow_Touched(old, r) ==
  [status |-> r.status, seen |-> job.at, previous |-> old.status, changed |-> job.at]

IdentityRow(old, r) ==
  LET new == old.seen = 0 \/ old.status # r.status IN
  [status |-> r.status, seen |-> job.at,
   previous |-> IF new THEN old.status ELSE old.previous,
   changed  |-> IF new THEN job.at ELSE old.changed]

\* Rows without a serial number have no identity.
UpsertONUs ==
  /\ job.pc = "onus"
  /\ \E ok \in BOOLEAN, done \in Prefixes :
       /\ ok => done = job.batch
       /\ ok \/ done # {} => live = "serving"
       /\ onus' = [s \in Serials |->
            IF \E r \in done : r.serial = s
              THEN IdentityRow(onus[s], CHOOSE r \in done : r.serial = s) ELSE onus[s]]
       /\ IF ok THEN /\ job' = [job EXCEPT !.pc = "next", !.ok = @ + 1,
                                          !.sampled = @ + Cardinality(job.batch)]
                     /\ UNCHANGED torn
                ELSE /\ job' = PonFails
                     /\ Tear(Logged \ {r.serial : r \in done})
  /\ UNCHANGED <<clock, live, runs, ethState, unauth, logs>>

-----------------------------------------------------------------------------
\* The serials that are not offered as unprovisioned: every identity ever stored,
\* or none if the identities could not be read.
Known(readable) == IF readable THEN {s \in Serials : onus[s].seen # 0} ELSE {}

\* A walk that fails or shows nothing does not count as a verified "none".
DiscoverUnconfiguredONUs(found) == IF found = {} THEN "unsupported" ELSE "ok"

\* One transaction.  Without a verified answer the rows are left alone.
ReplaceUnauth(status, serials) ==
  [status |-> status,
   rows   |-> IF status # "ok" THEN unauth.rows
              ELSE [s \in Serials |->
                     IF s \in serials THEN "listed"
                     ELSE IF unauth.rows[s] = "listed" THEN "gone" ELSE unauth.rows[s]]]

\* The error of the transaction is only logged.
DiscoverUnconfigured ==
  /\ job.pc = "next" /\ live # "cancelled" /\ job.pon = NumPons
  /\ \E found \in SUBSET Candidates, readable, applied \in BOOLEAN :
       /\ readable \/ applied => live = "serving"
       /\ unauth' = IF applied
            THEN ReplaceUnauth(DiscoverUnconfiguredONUs(found), found \ Known(readable))
            ELSE unauth
  /\ job' = [job EXCEPT !.pc = "finish"]
  /\ UNCHANGED <<clock, live, runs, onus, ethState, torn, logs>>

\* Mutant: failed PONs do not make the run partial.
RunStatus_IgnoresPons == IF job.failed THEN "error" ELSE "ok"

RunStatus == IF job.failed THEN "error" ELSE IF job.err > 0 THEN "partial" ELSE "ok"

\* A failure to close the run row is only logged: the row stays "running".
FinishCollectionRun ==
  /\ job.pc = "finish"
  /\ \E applied \in BOOLEAN :
       /\ applied => live = "serving"
       /\ runs' = IF applied
            THEN [runs EXCEPT ![job.id] = [started |-> @.started, finished |-> clock,
                     status |-> RunStatus, ok |-> job.ok, err |-> job.err,
                     sampled |-> job.sampled]]
            ELSE runs
  /\ job' = Idle
  /\ UNCHANGED <<clock, live, onus, ethState, unauth, torn, logs>>

-----------------------------------------------------------------------------
(***************************************************************************)
(* The process.  On a signal app.Start returns: its deferred calls close   *)
(* the store first, main cancels the context of the poller after that, and *)
(* the process ends whatever the poller is doing.                          *)
(***************************************************************************)
CloseStore ==
  /\ live = "serving"
  /\ live' = "closed"
  /\ UNCHANGED <<clock, job, runs, onus, ethState, unauth, torn, logs>>

CancelContext ==
  /\ live = "closed"
  /\ live' = "cancelled"
  /\ UNCHANGED <<clock, job, runs, onus, ethState, unauth, torn, logs>>

\* The end of the process, by a signal or a crash, and its next start.
Restart ==
  /\ live # "serving" \/ job # Idle
  /\ live' = "serving" /\ job' = Idle
  /\ Tear(IF job.pc \in Recording THEN Logged ELSE {})
  /\ UNCHANGED <<clock, runs, onus, ethState, unauth, logs>>

-----------------------------------------------------------------------------
Next ==
  \/ InsertCollectionRun \/ UpsertDevice \/ Interrupted \/ CollectPONInventory
  \/ InsertStatusEvents \/ InsertEthEvents \/ UpsertEthState
  \/ InsertSamples \/ UpsertONUs
  \/ DiscoverUnconfigured \/ FinishCollectionRun
  \/ CloseStore \/ CancelContext \/ Restart

Spec == Init /\ [][Next]_vars
-----------------------------------------------------------------------------
(***************************************************************************)
(* Properties.                                                             *)
(***************************************************************************)
PortStates == {"up", "down", "unknown"}

Job == [pc : Recording \cup {"idle", "device", "next", "finish"}, id : Nat, pon : Nat, at : Nat,
        batch : SUBSET Row, ok : Nat, err : Nat, sampled : Nat, failed : BOOLEAN]
Run == [started : Nat, finished : Nat, status : {"running", "ok", "partial", "error"},
        ok : Nat, err : Nat, sampled : Nat]
ONU == [status : Statuses \cup {""}, previous : Statuses \cup {""}, changed : Nat, seen : Nat]
EthState == [link : PortStates \cup {""}, changed : Nat, seen : Nat]
StatusEvent == [time : Nat, serial : Serials, status : Statuses, previous : Statuses \cup {""}]
EthEvent == [time : Nat, serial : Keys, link : PortStates, previous : PortStates \cup {""}]
Sample == [time : Nat, pon : Nat, id : Ids, serial : Keys, status : Statuses, link : PortStates]

\* Type invariant of the poller's memory and of the tables.
TypeOK ==
  /\ clock \in Nat
  /\ live \in {"serving", "closed", "cancelled"}
  /\ job \in Job
  /\ runs \in Seq(Run)
  /\ onus \in [Serials -> ONU]
  /\ ethState \in [Keys -> EthState]
  /\ statusEvents \in SUBSET StatusEvent
  /\ ethEvents \in SUBSET EthEvent
  /\ samples \in SUBSET Sample
  /\ unauth.status \in {"none", "ok", "unsupported"}
  /\ unauth.rows \in [Serials -> {"never", "listed", "gone"}]
  /\ torn \in SUBSET Serials

\* The identity of an ONU never runs ahead of its history: the state and the time
\* last_status and last_seen_at show are those of a stored sample.
IdentityHasSample ==
  \A s \in Serials : onus[s].seen # 0 =>
    \E x \in samples : x.serial = s /\ x.time = onus[s].seen /\ x.status = onus[s].status

\* "Status since" is backed by the log: the change an identity shows, its time, its
\* new and its previous state, is an event, however many polls stopped half way.
IdentityMatchesLog ==
  \A s \in Serials : onus[s].seen # 0 =>
    [time |-> onus[s].changed, serial |-> s, status |-> onus[s].status,
     previous |-> onus[s].previous] \in statusEvents

\* The same for the port of an ONU with a serial number.
PortMatchesLog ==
  \A s \in Serials : ethState[s].seen # 0 =>
    \E e \in ethEvents : e.serial = s /\ e.time = ethState[s].changed /\ e.link = ethState[s].link

StatusLog(s) == {e \in statusEvents : e.serial = s}
EarlierEvents(e) == {x \in StatusLog(e.serial) : x.time < e.time}

\* The status log of an ONU is a chain as long as no poll of it stopped between the
\* event and the identity: each event starts from the state the one before ended
\* in, and changes it; the first starts from none.
StatusLogChains ==
  \A e \in statusEvents : e.serial \notin torn =>
    /\ e.previous # e.status
    /\ IF EarlierEvents(e) = {} THEN e.previous = ""
       ELSE \E x \in EarlierEvents(e) :
              x.status = e.previous /\ \A y \in EarlierEvents(e) : y.time <= x.time

Window(r) == {x \in samples : r.started <= x.time /\ x.time <= r.finished}

\* What a finished run says agrees with the samples in its time window, which is how
\* history/samples?run= selects them: it never counts more than is there; "ok" says
\* that every PON was stored and counts exactly, and that every ONU in the window
\* has an identity at least as new; "partial" accounts for every PON; and "error" is
\* only ever stored for a run that sampled nothing, since an interrupted one cannot
\* be closed.
RunsAccountForSamples ==
  \A i \in DOMAIN runs : LET r == runs[i] IN
    /\ r.status # "running" => r.sampled <= Cardinality(Window(r))
    /\ r.status = "ok" =>
         /\ r.ok = NumPons /\ r.err = 0
         /\ r.sampled = Cardinality(Window(r))
         /\ \A x \in Window(r) : x.serial # Blank => onus[x.serial].seen >= x.time
    /\ r.status = "partial" => r.err > 0 /\ r.ok + r.err = NumPons
    /\ r.status = "error" => Window(r) = {}

\* The claim of api.md on status-events: the newest event of a serial is its last status
\* change.  So of the events up to the last poll that updated the identity, the newest
\* ends in the state that poll saw.
LastEventIsLastChange ==
  \A s \in Serials : onus[s].seen # 0 =>
    LET log == {e \in StatusLog(s) : e.time <= onus[s].seen} IN
    \E e \in log : e.status = onus[s].status /\ \A x \in log : x.time <= e.time

=============================================================================
