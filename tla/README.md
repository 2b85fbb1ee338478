# Formal models of zte-c300-monitoring

TLA+ models of the monitoring service for ZTE C300 OLTs, the TLC configurations that
check them on small instances, and TLAPS proofs of their main invariants for every
instance. Paths are relative to the repository root.

The service reads ONU data from OLTs over SNMP, serves it over HTTP with a Redis cache
in between, and, when it is configured to, polls every PON periodically and keeps the
history in TimescaleDB.

## 1. The system

| component | code | state it keeps | operations | who calls it |
|---|---|---|---|---|
| PON read cache | `internal/usecase/onu.go`, `prewarm.go`, `internal/repository/redis.go`, `internal/handler/onu.go` | three Redis keys per PON (ONU list, free IDs, serial list); a singleflight group per OLT | list, detail, free IDs, update free IDs, serial list (cached or `nocache`), collect (poller), background refresh, delete, invalidate | HTTP handlers, pre-warm goroutine, poller |
| History poller | `internal/poller/poller.go` | the run in progress (memory of one goroutine) | one collection run per device and interval; unconfigured-ONU discovery at its end | started by `app.Start` |
| History store | `internal/store/timescale.go`, `timescale_v3.go`, `events.go`, `schema.sql` | tables `devices`, `onus`, `onu_samples`, `collection_runs`, `onu_status_events`, `onu_eth_events`, `onu_eth_state`, `onu_unauth*` | one statement (or loop of statements) per method; `ReplaceUnauth` is a transaction | poller (writes), history handlers (reads) |
| Migrations | `migrate`, `migrateV3`, `backfillEventsFromSamples` | `schema_migrations` and everything they rewrite | run at start, statement by statement | `OpenTimescale` |
| History queries, duplicates | `query.go`, `duplicates.go`, `handler/history.go` | none | select the samples of a run, count, report duplicates | HTTP |
| In-memory store | `memory.go` | maps under one mutex | as the history store, each method atomic | tests |
| SNMP pool | `internal/repository/snmp.go`, `pkg/snmp` | channel of connections, semaphore | `Get`, `BulkWalk`, `Ping`, `Close` | use cases, health probes, registry |
| OLT registry | `app/registry.go` | map of OLT stacks under an RWMutex | `Reconcile`, `Get`, `Targets`, `HealthCheck`, `Close` | routes, poller, readiness |
| Readiness checker | `internal/health` | last result and time per probe, a mutex each | `Check` | `/readyz` |
| Life cycle | `app/app.go`, `pkg/graceful`, `cmd/api` | context, listener, deferred closes | start, signal, shutdown | the process |
| Ethernet and uplink reads | `usecase/ethernet.go`, `uplink.go`, `model/onu_ports.go` | none | walk of an ONU, of a PON, of the stack and entity tables | handlers, `CollectPONInventory` |
| Configuration | `config/` | the list of OLTs and users | load, validate, board topology, indexes | `app.Start`, registry |
| Pure algorithms | `pkg/pagination`, `internal/utils` | none | pages, conversions | handlers, use cases |
| Middleware | `internal/middleware`, `app/routes.go` | none (a rate limiter's buckets) | authentication, choice and scope of the OLT, filter of boards and PONs | HTTP |
| Errors, metrics, web, scripts | | none that is read back | | |

How they interact: a handler or the poller calls the use case of an OLT; the use case
coalesces identical calls (singleflight), looks into Redis, or walks the OLT through the
SNMP pool and stores what it read in Redis. The poller writes what it collected to the
history store in five separate statements or loops; history handlers read the tables. On
a signal `app.Start` returns, and its deferred calls close the store, the registry (and
with it the SNMP pools) and Redis, in this order; only then does `main` cancel the context
that the poller looks at.

What is hard in it:

- *Concurrency.* Two of the three Redis keys are written under more than one singleflight
  key, and the background refresh under none. A forced read may join a cached one. Gets
  are coalesced inside coalesced reads.
- *Partial failure.* A poll is five writes without a transaction. Later polls compute the
  change log from what earlier ones left behind. Every statement can fail, be applied
  without the client knowing, or be cut by the end of the process.
- *Ordering.* A clear, a provisioning change and the save of an older walk race. The
  shutdown closes resources before it tells their users.
- *Bounds.* A pool smaller than its semaphore, low-TTL refreshes without a limit, padded
  ports, empty filters that mean "no filter".

What makes each component correct:

- PON read cache: what the poller records never comes from the cache; a clear between
  executions is effective; a forced leader is fresh; the serial list does not go back in
  time; nobody waits for ever.
- Poller and store: identities never run ahead of the samples; what an identity or a port
  shows as its last change is in the log; the log is a chain unless a poll stopped; a
  closed run counts what its window holds.
- Migrations: after version 3 is recorded the log is the one the samples imply, however
  often the migration was interrupted.
- SNMP pool: at most `maxConcurrent` exchanges; no connection is used by two; none is
  lost; an operation that waits gets one.
- Registry: the pool is not closed under whoever holds the lock; the requests the server
  waits for end before it is; the shutdown ends.
- Readiness: a result is never served longer than its lifetime allows, a failure not
  longer than five seconds; requests do not pile up behind a slow dependency.
- In-memory store: what the tests see of it is what the database does.
- Ethernet and uplinks: what is shown and stored is what was read, of the ONU it was read of.
- Configuration and stacks: what is served and polled is what was written, to whom it belongs.
- Duplicates, run windows, pagination, OIDs, padding: agree with a reference definition.

## 2. Plan

In the order of importance, with what is done so far:

| module | models | status |
|---|---|---|
| `PonCache`, `MCPonCache` | the read cache of one PON | done |
| `PonCache_proofs` | its invariants | done |
| `Poller` | the poller of one OLT over the store | done |
| `Poller_proofs` | all its invariants | done |
| `ExchangeLimit` | abstract specification of the pool: so many exchanges at a time | done |
| `SnmpPool` | semaphore, connections, close | done |
| `Registry`, `MCRegistry`, `Registry_proofs` | the registry's lock and the end of the process over `SnmpPool`; the proofs about both | done |
| `Readiness`, `MCReadiness`, `Readiness_proofs` | cached probes | done |
| `EventLog`, `EventLog_proofs` | how events are derived from samples: shared by the three below; induction and recursion | done |
| `Migration`, `MCMigration`, `Migration_proofs` | the upgrade of a database with failures and restarts, and the first polls after it | done |
| `Stores` | what the database and the in-memory store make of a history of calls; queries, runs, duplicates | done |
| `Ethernet`, `Uplink` | from the rows of SNMP walks to ports, samples, LAGs and cards | done |
| `Topology` | configuration, indexes, stacks (`Reconcile`), users and who is served by which OLT | done |
| `Pagination` | pages | done |
| `HistoryInputs`, `MCAlgorithms` | the bounded inputs and the references for the five modules above | done |
| `Stores_proofs` | the theorems about `Stores`, for histories of every length | done |
| `Algorithms_proofs` | the theorems about `Topology`, `Pagination`, `Uplink` and `Ethernet`, for inputs of every size; the invariants of `MCAlgorithms` | done |

An abstract specification of the store with atomic polls was considered: `Stores` takes
its place. It describes both implementations as functions of a history of successful calls,
so that they can be compared call for call; what becomes of calls that fail half way is the
subject of `Poller`.

Every invariant and every action property that a run checks is a theorem (section 10);
liveness is left to TLC.

## 3. The read cache: `PonCache`

| state | code |
|---|---|
| `olt` | the PON on the OLT, as a version number; other programs provision it (`Provision`) |
| `cache[k]` | the Redis value under key `k`: the version its walk saw, and whether little of its time to live is left |
| `flight[f]` | `onuUsecase.sg`: the goroutine executing singleflight key `f` |
| `get` | the same group's entry for the OID of one ONU's serial number |
| `call[p]` | the stack of goroutine `p`: operation, position, result, error |
| `quiet[k]` | history variable: the newest version that a successful clear or update settled on while no other execution stored under `k` |

`call[p].since` and `floor` are history as well: the version at entry, and the value of
`quiet` at entry.

Each operation is an action that enters it (`Enter`: `Lead` or `Join`) and then the steps of
its closure: look into Redis, walk, Get the serial number, store, return (`Finish` hands
the result or the error to everyone who joined). A Redis error on reading is a miss. A
Redis error on writing may or may not have been applied. List and serial saves log it, free-ID
saves return it. A JSON `null` (the list of an empty PON) is never a hit, an empty array
(the free IDs of a full PON) is: hence `EmptyVersions`. `InvalidateONUCache` drops the
errors; `DeleteCache` stops at the first and ignores the second.

One PON, one OLT, one ONU with an OID are enough, because keys, flights and OIDs of
different PONs are disjoint (`cacheKey`, `board_%d_pon_%d`); the versions stand for which
ONUs exist. Attributes come from Gets after the walk and are not versioned. The validity
check of a board and a PON before an operation changes nothing and is left out.

Fairness (`FairSpec`): weak fairness of every step inside an operation. Each SNMP and
Redis request has a timeout, so a goroutine inside an operation is never stuck; nothing
obliges anyone to start an operation, the OLT to change or a key to expire.

| run | instance | shows |
|---|---|---|
| `PonCacheList` | two goroutines and the poller; list, poll, invalidate; versions 1, 2 (2 is empty) | `TypeOK`; `PollerReadsFresh`: a collected list is never older than the poller's call; `QuietClearIsEffective` for the list |
| `PonCacheKeys` | two goroutines; serial, nocache, delete, and read and update of the free IDs; versions 1, 2 | `ForcedLeaderIsFresh`; `SerialListNeverRegresses`; `QuietClearIsEffective` for the serial list and for the two flights of the free-ID key |
| `PonCacheNested` | three goroutines; serial, nocache, detail; `FairSpec` | `WaitersHaveALeader`; `EveryRequestReturns` |
| `PonCacheNoCache` | | finding: a forced read joins a cached one |

Bounds: two versions are the "old" and the "new" one. Two goroutines are an execution and
whoever joins or overtakes it; the third, in `PonCacheNested`, is the one that waits on a
Get inside a flight somebody else waits on. The proofs of section 10 hold for any number of
both. Goroutines other than the poller are symmetric; symmetry is used in the runs
without liveness only. With `EmptyVersions = {2}` the PON has ONUs first and loses the last
one: what is cached of version 1 can be hit and be stale, and the empty list that replaces
it is never a hit. The way back, from an empty PON to one with ONUs, is in no run; the
proofs are for any set of empty versions.

## 4. The poller: `Poller`

| state | code |
|---|---|
| `clock` | time: it ticks when a run and when a walk starts (`started`, `observedAt`) |
| `live` | the process: serving, store closed, context cancelled |
| `job` | the variables of `pollDevice` and `pollPON` |
| `runs`, `onus`, `statusEvents`, `ethEvents`, `ethState`, `samples`, `unauth` | the tables of the same names |
| `torn` | history variable: serials of which a poll logged an event and did not reach the identity |

Actions follow `pollDevice` statement by statement: `InsertCollectionRun`, `UpsertDevice`,
then for each PON `CollectPONInventory`, `InsertStatusEvents`, `InsertEthEvents`,
`UpsertEthState` (these three are `RecordSampleTransitions`), `InsertSamples`,
`UpsertONUs`; then `DiscoverUnconfigured` and `FinishCollectionRun`. `Interrupted` is the
look at the context before a PON and in the pause after it. A statement that reports
success was applied; one that reports failure may have been. The loops of upserts apply
a prefix. `CloseStore`, `CancelContext` and `Restart` are the end of the process: at any point, also
between two statements. The reads that precede a write are part of its step: only this
goroutine writes these tables.

An ONU has one port, which a walk saw up, down or not at all; a port that was not read is
"unknown" when the model of the ONU is known. A row whose serial number could not be read
has serial 0: it has no identity, but it has port states, and because an empty serial in
`ListEthState` means no filter, its previous port state is that of the last serial of the
device. Serials are naturals, in the order of the database.

| run | instance | shows |
|---|---|---|
| `PollerHistory` | one serial and rows without one, two rows, two states, ports up and unread, two polls | `TypeOK`; `IdentityHasSample`; `IdentityMatchesLog`: "status since" is an event of the log; `PortMatchesLog`; `StatusLogChains` |
| `PollerRuns` | two PONs, two runs, one unconfigured ONU | `RunsAccountForSamples`: the counters and the status of a closed run are those of the samples in its window, whatever the discovery at its end finds or fails to |
| `PollerLast` | | finding: the newest status event contradicts the identity |

Bounds: `MaxClock` limits the number of runs and walks (each takes one tick): 4 is two
runs of one PON, 6 three of one PON or two of two. Two of everything that is compared: keys (a serial
and none), states, rows, PONs. `Batches` excludes two rows of one serial in one walk (`Stores` has
them). `Candidates` is empty in `PollerHistory`, which is about the tables the discovery
does not touch. `CHECK_DEADLOCK` stays on: the process can
always restart. The database is empty at first; `Migration` continues from a migrated one.

No fairness is assumed, and no liveness is claimed: a run that is interrupted stays
"running" for ever (the closing statement goes to a closed store, and nothing closes it at
the next start).

## 5. The pool and the registry: `SnmpPool`, `Registry`

`SnmpPool` is the repository of one OLT, `Registry` extends it with the lock, the
goroutines that look the OLT up and the end of the process.

| state | code |
|---|---|
| `pool`, `closed` | the channel `snmpRepository.pool`: its content, and whether it was closed |
| `made`, `open` | the connections that `NewPonRepositoryWithConcurrency` made (at least the seed), and those whose socket is open |
| `op[p]` | the operation of goroutine `p`: outside, waiting for a place in `sem`, waiting for a connection, exchanging packets, running its deferred calls, panicked |
| `conn[p]` | the connection it holds |
| `phase` | the process: serving, draining (`server.Shutdown`), closing (deferred `reg.Close`), closed, exited, or crashed |
| `writer`, `held[p]` | the RWMutex of the registry: the writer, and who holds the read lock (`HealthCheck`) or an entry it looked up |
| `entry` | the entry of the OLT in the map |
| `drained` | history variable: the server saw every request end before it shut down |

`Request`, `EnterSem`, `Acquire`, `Release`, `LeaveSem` are the lines of `Get`, `Walk` and
`BulkWalk`; an exchange that fails goes the same way. After `CloseChannel` what is left in
the channel can still be received, by an operation or by the loop of `Close` (`Drain`);
an operation that finds it empty receives nil and panics (`AcquireNil`), one that gives
its connection back panics as well. A panic in a request is recovered by the server, any
other ends the process (`Operate`). `Get` is every look-up that keeps the entry beyond the
lock (`resolveOLT`, `Targets`, `List` and `Get` for the pre-warm loop, the probe of the
default OLT, which pings in a goroutine of its own), `Use` any operation of its holder.

| run | instance | shows |
|---|---|---|
| `Registry` | two requests, one background goroutine, one to three connections, semaphore of two; `FairSpec` | `ConnectionsAreConserved`; `HealthCheckIsProtected`; `RequestsAreSafe`; `OperationsEnd`; `ShutdownEnds`; `ExchangesAreLimited`: the pool implements `ExchangeLimit` |
| `RegistryShutdown` | the same | finding: a background operation crashes the process during the shutdown |

Bounds: with one connection the semaphore is wider than the pool, with three it is
narrower, and three goroutines are one more than it admits. Two requests are one that
uses an entry and a health check at the same time. `CHECK_DEADLOCK` is off because the
process exits. The deferred `ts.Close`, which comes before `reg.Close` and waits for
statements under way, is left out: `ShutdownEnds` is about the registry and its pool.
Fairness: strong fairness of the steps of an operation (a channel serves
those who wait in the order they came, and every exchange has a timeout and a number of
retries), weak fairness of the one goroutine that shuts down and of the return from a
health check. Nothing obliges anyone to start an operation or to let go of an entry.

## 6. Readiness: `Readiness`

| state | code |
|---|---|
| `clock` | time |
| `dep[d]` | a `dependency`: the holder of `mu`, `lastAt`, whether `lastErr` is set |
| `call[p]` | a request in `Check`: `now`, the index of its loop, the start of its probe, the statuses so far |

`Check` reads the time; then, for each dependency in turn, `ServeCached` answers from the
last result or `StartProbe` takes the mutex and `ProbeReturns` stores the result with its
own time. A probe that looks at its context ends within `Timeout` (`Tick` waits for it);
the one of the registry (`Unbounded`) ends when it ends. It fails or not: the dependency
is down, the time is up, or the client that asked has gone away.

| run | instance | shows |
|---|---|---|
| `Readiness` | two requests, a bounded and an unbounded dependency, successes that live as long as failures or twice as long; `FairSpec` | `AnswersWereCurrent`; `ProbesAreShared`; `ProbesAreSpaced`; `ChecksReturn` |

Bounds: two requests are the one that probes and the one that waits; six ticks see a
result expire after either lifetime and be renewed while the other request still judges
by the time it read first. Fairness: every probe ends, and a mutex is handed over in turn.

## 7. The upgrade of a database: `EventLog`, `Migration`

`EventLog` is `events.go`: padding of the ports of a known model, the comparison of a
sample with what was known before, and the events it gives.

| state | code |
|---|---|
| `pc` | the statement of `migrate`, `migrateV3`, `backfillEventsFromSamples` that comes next; "open": the store is in use |
| `version` | the highest row of `schema_migrations` |
| `samples`, `onus`, `statusEvents`, `ethEvents`, `ethState` | the tables of the same names |
| `old`, `upToDate` | history variables: the number of samples before the upgrade, and the serials whose identity was then that of their newest sample |

A database is found in any of the versions 0, 1 and 2, with every history of samples up to
`MaxOld` and identities that are those of *some* sample, since the old poller could stop
between sample and identity as the present one can. `OpenTimescale` begins at the version
that is recorded; `Execute` is a statement that reports success and was applied, or reports
failure and may have been. The two loops of single statements (port states, expected ports)
stop after any part of their rows, because they follow the order of a Go map. A failure and
a crash are the same to the next start: everything from the recorded version on is done
again. Once version 3 is recorded, `PollPON` is a poll that succeeds, and `Close` ends the
process. Statements that create what is missing are left out: they can be repeated.

| run | instance | shows |
|---|---|---|
| `Migration` | two serials and rows without one, two states, one port up or down, models of two ports and unknown; up to three samples, before or after the upgrade; any number of failures and restarts | `TypeOK` (the store is never used below version 3); `StatusLogIsSampleHistory`: the log is that of the samples, once and in order; `LogContinues`: the poller goes on where the backfill ended; `SinceIsNewestEvent`; `PortTableMatchesLog`; `LogsOnlyGrow`: no later start touches the logs |

Bounds: three samples are a change and a change back, or a port that appears, is missing
and appears again; one port seen and two expected give padding something to do. Serials,
states and port states are symmetric. The time of a sample is its position, so rows of one
serial never have the same time. 2.2 million states, one to two minutes.

Two limits of what holds are part of the properties. `LogContinues` speaks of the ONUs that
were up to date: an identity whose last poll of the old version was interrupted lies behind
the log that is derived for it, and the first poll then repeats an event or misses one.
And a port of an ONU of an unknown model that is missing in the newest old sample has no
row after the upgrade: when it is seen again its event has no previous state.

## 8. Algorithms without interleaving: `Stores`, `Ethernet`, `Uplink`, `Topology`, `Pagination`

These modules hold operators only. `HistoryInputs` and `MCAlgorithms` enumerate inputs: a
behaviour chooses a kind of input and builds it up step by step (a history call for call, a
walk row by row), and each invariant compares what the operators make of the input with a
reference that is stated differently.

- `Stores`: `Memory(h)` and `Timescale(h)` are what the two implementations hold after the
  calls `h`. The ports of a stored sample, which only the database pads, are neither
  padded nor compared. The in-memory store takes a batch row by row, the database computes the
  events of the whole batch before it stores any of it. Runs, run windows, the default
  window, limits, lists and counts; the report of duplicate serials in its two forms; the
  list of unconfigured ONUs. The filters of a query that compare a column with a value are
  represented by one of them, the status.
- `Ethernet`: the walk of one ONU (`GetEthernetPorts`) and of a whole PON
  (`AttachPONEthernet`) from the rows that were delivered to the ports and the status,
  padding in the answer and again in the stored sample.
- `Uplink`: `GetUplinkTopology`: which walks may fail, LAGs and members, cards and slots.
- `Topology`: `ParseBoardSpecs` and `ValidateBoardSpecs` on texts that were split at commas
  and colons, `LoadConfig` and `BuildOLTRegistry` with the precedence of their sources,
  the two index formulas and the decoder, `Reconcile` with the connections it opens, closes
  and keeps, `BuildUserRegistry`, `Authenticator`, `resolveOLT`.
- `Pagination`: the page that is cut, the numbers beside it, the answer of the handler.

| run | property | shows |
|---|---|---|
| `Algorithms` | `StoresAgree` | both stores hold the same identities, ports and unconfigured ONUs; their logs differ only for a serial number that one batch had twice, which is in the report of duplicates; the log of the in-memory store is a chain even then |
| | `QueriesAreExact` | the window of a run, which is a pair of times, holds what its polls stored and nothing else (`RunWindowIsExact`); a list is the newest part of what the counts count (`ListsMatchCounts`) |
| | `DuplicatesAreThose` | the reports of both stores are the serial numbers at two positions, now or ever |
| | `EthernetReadsAgree` | an ONU walked with its PON has the ports of an ONU walked alone, whatever its neighbours deliver |
| | `StoredPortsAreRead` | the stored sample has every port that was read with the state that was read, and no other state |
| | `LagsAndMembersAgree` | LAGs and members name each other, in any order of the pairs |
| | `ConfigIsWhatWasWritten` | what is accepted is what was written, although the parser skips and defaults |
| | `StacksFollowConfig` | after any calls of `Reconcile` stacks, connections and admitted, polled and indexed PONs follow the configuration |
| | `ServedByOwnOLT` | who is served by which OLT |
| | `PagesPartitionTheList` | the pages are the list, each row once |

Bounds: three polls of one serial number at one or two positions with ports in and out of
order; five calls of runs (a run that crashes, one after it, samples of both); four rows or
failures of Ethernet walks on four indexes, one of them malformed and one a neighbour's;
three pairs on three interfaces; one or two board specifications of eight forms, lists of
up to two OLTs; two calls of `Reconcile` on two OLTs; two users; lists of up to seven rows
with page sizes up to five, of which three is the greatest. Limits are scaled (a list's
default limit is 1, its greatest 2, a page's 2 and 3) so that they are reached.
`CHECK_DEADLOCK` is off because an input is complete when the bounds are reached. 184
thousand states, two to three minutes.

What is asked of `Reconcile` goes beyond the program, which calls it once: its tests call it
several times, and its comment describes that use.

## 9. What the code does not keep

Three runs refute a sentence of the documentation; each is a finding in `PROJECT.json`, with
the sentence. In short: (1) `nocache` does not change the singleflight key; (2) the change
log is written before the identities it is computed from, without a transaction, so an event
whose poll stopped is never taken back; (3) the shutdown closes the SNMP pools under the
background work, which panics.

What holds in their place is proved or checked: a forced read that leads *is* fresh
(`ForcedLeaderIsFresh`), a clear that meets nobody *is* effective (`QuietClearIsEffective`),
whatever the log contains too much, it contains what the identities and ports show
(`IdentityMatchesLog`, `PortMatchesLog`), and a request that the server waited for never
meets a closed pool (`RequestsAreSafe`).

Smaller divergences are part of the models without a run of their own:

- `InvalidateONUCache` is there "so the next fetch goes directly to SNMP" (`onu.go:987`); a
  walk that began before it stores its list after it, and the next fetch reads that.
- When the known serials cannot be read, the discovery lists provisioned ONUs as
  unconfigured, which `docs/api.md:374` excludes (`DiscoverUnconfigured`).
- `attachPONEthernet` says that offline ONUs keep empty UNI lists (`ethernet.go:264`); they get
  the padded ports of their model as soon as any ONU of the PON is online. The page of one
  ONU shows none.
- `docs/api.md:97` gives 100 as the greatest `limit`; the slice is cut with the limit that was
  asked for, and only `page_count` is computed with 100. A page or limit below zero gives
  slice bounds that panic, which the server recovers.
- The window of a run that a crash left open reaches over all runs after it.

## 10. Proofs

The `_proofs` modules prove, for every number of goroutines, versions, serials, PONs,
connections, dependencies and clock ticks, that the invariants below hold in every state
of `Spec`. Each has an inductive invariant (`IInv`), a lemma per conjunct for `[Next]_vars`, and `Invariance:
Spec => []IInv`, from which the rest follow by PTL. Assumptions: the constants' types as
stated by the `ASSUME`s of the modules, which TLC evaluates in every run.

`PonCache`: `TypeCorrect`, `QuietClears`, `PollerFresh`, `ForcedLeadersFresh`, `WaitersLed`,
`SerialListMonotone`. None of the five is inductive alone. The strengthening says of every
goroutine which positions its operation can be in, that the executing one owns its flight
and nobody else executes it; that results and cached versions are never newer than the
OLT and `quiet` neither; that after a walk the result is at least `since`; that a cached
value under `k` is at least `quiet[k]`, and so is the result of any execution under way,
since `quiet` only moves when no other execution is; and, for the serial list, that what
is cached is not newer than what the one execution under way read.

`Poller`: `TypeCorrect`, `IdentitiesSampled`, `IdentitiesLogged`, `PortsLogged`. The
strengthening (`Backed`) follows the order of the five writes: once a stage is passed, what
it should have written for every row of the batch is in its table: the event of every
change, then the port event of every changed port, then the sample of every row. The
tables only grow, and the identity or the port state is written from a batch whose events
and samples are all there.

`RunsAccounted` rests on a second invariant (`RunInv`). Nothing stored is of the future and
every closed run ended before the one under way began (`Clocked`, `Open`), so the window of
a closed run gains no sample; while a PON is recorded no sample has its time until its
own are stored (`Fresh`). The counter of the run under way is then at most the number of its
samples, and equal to it as long as no PON failed, but for the rows stored and not yet
counted (`Counts`); and each PON begun is counted as read, as failed, or is being recorded
(`Walked`). `StatusLogChained` rests on a third (`ChainInv`): the events of the time of the
poll are those of its own changed rows, and the log of a serial without them ends in the
state its identity shows, unless a poll of it was torn. `UntornLogsAreCurrent` adds that
such a log is never ahead of the last sighting (`Caught`): the event that the finding of
`PollerLast` exhibits is that of an interrupted poll, and no other is possible.

`SnmpPool` (in `Registry_proofs`): `PoolInvariance`, `PoolConserves`, `PoolLimitsExchanges`. A connection is in the
channel, in the hands of one goroutine, or gone with a panic; the goroutines admitted to
the semaphore are at most `Limit`, and those that exchange hold different connections,
hence at most as many as there are: a step that begins an exchange maps to a step of
`ExchangeLimit`, a step that ends one too, and all others leave it alone.

`Registry`: `UsesPool` (every behaviour is one of `PoolSpec`, so the theorems on the pool
carry over: `Conserved`, `Limited`), `TypeCorrect`, `HealthChecksProtected`, `RequestsSafe`.
The strengthening: once the pool is closed, a writer has the lock or the entry is gone, so
that nobody reads; whoever holds nothing operates on nothing; before the server shut down
nothing is closed.

`Readiness`: `TypeCorrect`, `Current`, `Shared`, `Spaced`. The strengthening: no request
judges by a time in the future, so a result newer than the request counts as cached; and
whoever probes holds the mutex. `Shared` and `Spaced` are about steps: they follow from the
invariant before the step.

`Migration`: every property of the run is a theorem, for any number of serials, of samples
and of restarts: `TypeCorrect`, `StatusLogFromSamples`, `PollerContinuesLog`,
`SinceFromLog`, `PortTableFromLog`, `LogsKeepGrowing`; and `OpenIsUpgraded`, `UpgradedOnce`:
the store is in use only with version 3, and with it no statement of the upgrade is
executed again. The invariant (`UpgradeInv`) says of every statement what those before it
have done, however often they were repeated (`Staged`); that until version 3 is recorded
nobody but the upgrade writes, so that `DELETE` leaves nothing of a log and what is inserted
is all there is (`Steady`); and that what the recorded upgrade left is kept by every poll
(`Done`). What the backfill inserts is the value of `Scan`, computed by recursion over the
samples: `ScanLogsTurns` and `ScanLogsPorts` show by induction that its log holds the
changes of status up to each sample, once and in order, and that its table of ports is
where its port events end.

`EventLog_proofs` holds what those inductions need: the principle, stated of a set of
numbers that holds 0 and is closed under the successor (`Induction`, from the
well-foundedness of <), because the library's takes an operator as parameter, which the
provers cannot instantiate; that a function defined by recursion over 0..n exists
(`RecursionExists`), without which its defining equation cannot be used; and the lemmas
about padding, port events and the table of ports for every sample.

`Algorithms_proofs`: the invariants of the run `Algorithms` that are about a list, a
configuration, a registry or a walk, for inputs of every size.
`SuffixDecodes` and `DecodedIsSuffix` (the decoder inverts the formula and nothing
else decodes), `SuffixesAreUnique` (two PONs of a chassis share an index of neither table),
`SpecsAreAsWritten` and from it `ConfigsAreAsWritten` (any texts, list and settings),
`PagesAreTheList` (the pages before k are the list up to where page k begins, by induction
over k), `EveryoneServedByOwn` (any users and registry), `StacksFollowCalls` (any
calls of `Reconcile`, any configurations, any connections failing), `UplinksAgree` (any
interfaces and pairs), `EthernetReads` and `StoredAsWasRead` (any rows of an ONU and its
neighbours, any walk failing). The invariant of the registry (`IsRegistry`): every entry is the
stack of the OLT it was built for, up to what may change without a new connection; different
entries use different connections; the connections opened are numbered, and one that is
used by no entry is closed. It is kept for each OLT of the list that `Reconcile` goes
through, and `Converged` says of those done what became of them and stays true while the
others are. The invariant of the uplinks (`AttachedUpTo`): after each pair, the members of
a LAG are the ports that a pair so far names with it, and the LAG a port names is one of
them. Ethernet ports need no
induction: both walks take the same rows of an ONU as those of its ports (`SameRows`), and
what is finished and padded depends on their values alone; an index below the ONU that is
of no port (`Malformed`) is what only the walk of one ONU notices. Each port has one row in
a column (`WalkReads`), and the store pads nothing that was padded for the list
(`StoredOf`). `InputsAreTyped`
shows that the inputs of the run are of the kinds the theorems are about, so `ConfigInRun`,
`StacksInRun`, `ServedInRun`, `PagesInRun`, `UplinksInRun`, `EthernetInRun`,
`StoredInRun` and, by the theorems of `Stores_proofs`, `StoresInRun`, `QueriesInRun` and
`DuplicatesInRun` follow.

`Stores_proofs`: what the two stores make of a history of calls, of any length and with
any rows. A fold over a sequence is a recursion over sets of indexes: `FoldExists`,
`FoldWithin` and `FoldInOrder` are what `RecursionExists` is for a function on numbers.
What a filter selects (`Elements`) is a bijection between the ranks and the indexes
selected (`RankedIs`), from which the order, the number and the elements follow
(`ElementsAre`).

- `StoresHoldTheSame`: row by row a batch leaves the identities and ports of the serial
  numbers it names, whatever the logs are; the logs of one that it names once, too. The
  first is an induction over the rows of a batch, the second over the batches.
  `MemoryLogsAreMade`: each event of the memory store's log begins where the one before
  ended and the last one made the identity, also within a batch (`LogsMade`).
  `StoresListTheSame` is about the answers of discoveries, by the same induction.
- `DuplicatesOfHistory`, `DuplicatesOfRun`: the in-memory report groups all rows; the
  database's query reads only the samples of the run when that is what was asked for, and
  drops the serial numbers of one position before they are assembled. Those can report
  nothing, and a position outside the run counts for nothing, so the reports agree; and
  rows are counted by position, since a position has one row in its group.
- `RunWindowsInv`: the invariant `RunsAreCalls` says that run n is the n-th start of the
  history, that it ends at the finish after nothing but polls, and that only polls came
  after the start of the one that is open. It is kept by each call that the program can make
  (`RunsGoOn`): nothing is polled or finished without an open run. With the calls at
  increasing times (`InTime`) the window, a pair of times, is then the polls of the run.
  Without `RunsAreCalls` the theorem is false: a second finish of a run would move its end,
  over what was polled in between.
- `ListsInv`: the buckets of the counts sum up to the rows (`BucketsSumUp`); the list is a
  beginning of the rows from the newest on, of the length that the limit says.

`StoresAgreeInv`, `RunWindowsInv`, `ListsInv` and `DuplicatesInv` draw the invariants from
`HistoryInv`, which `HistoryStep` shows of every action of `HistoryInputs`. The one
assumption on the constants beyond their types is that the blank is no serial number
(`SerialsAssumption`): the stores keep no identity of it and no report shows it.

`TypeCorrect` of `Registry` and `Readiness` is proved and not repeated as a run's invariant.

Only model-checked: `EveryRequestReturns`, `OperationsEnd`, `ShutdownEnds`, `ChecksReturn`
(liveness under fairness, which is out of the prover's reach), and of course the refuted
claims.

## 11. What is not modelled

`PROJECT.json` lists every component with its status. Left out for good: the texts of the
configuration below the level of fields, formatting, logging, metrics, HTTP headers, audit
lines, the rate limiter (a library's), the web front end and scripts, which keep no state
that is read back. The optical levels and other columns a row only carries along, and the
parsing of a request's parameters, are left out of the history queries. A serial list with
a gap (a failed Get drops an ONU, and the list is cached) is not told from a complete one:
the versions of `PonCache` stand for lists as a whole. The logs of rows without a serial
number are in `Poller` only. `Poller` and `Migration` are not composed: after the upgrade
`Migration` has polls that succeed, and `Poller` starts from an empty database.

## 12. Running

In this directory: `tlc -config PonCacheList.cfg MCPonCache.tla` (the other `PonCache*`
configurations likewise), `tlc -config PollerRuns.cfg Poller.tla` (the other `Poller*`
ones likewise), `tlc -config Registry.cfg MCRegistry.tla` (`RegistryShutdown.cfg` likewise),
`tlc -config Readiness.cfg MCReadiness.tla`,
`tlc -config Migration.cfg MCMigration.tla`, `tlc -config Algorithms.cfg MCAlgorithms.tla`, and `tlapm` on each `_proofs` module. No run takes
longer than three minutes on two cores; the proofs of all modules take some twenty minutes.
