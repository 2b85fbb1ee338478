---------------------------- MODULE Poller_proofs ----------------------------
(***************************************************************************)
(* Proofs about the poller, for every set of serials, states and ONU-IDs,  *)
(* any number of PONs and any bound on time, whatever statement fails and  *)
(* wherever the process ends: the types; that what the onus and            *)
(* onu_eth_state tables show is backed by a stored sample and by a logged  *)
(* event; that what closed runs say agrees with the samples of their       *)
(* window; and that the status log of an ONU is a chain.                   *)
(*                                                                         *)
(* None of these is inductive alone: a table row is written several steps  *)
(* after the event or the sample that backs it, and a run is closed long   *)
(* after its samples.  Backed says what the earlier statements of the poll *)
(* under way have already stored; RunInv follows the clock, the open run   *)
(* and its samples, and gives RunsAccountForSamples; ChainInv follows the  *)
(* newest settled event of every ONU, and gives StatusLogChains.           *)
(***************************************************************************)
EXTENDS Poller, TLAPS, FiniteSetTheorems, SequenceTheorems

\* What the poll under way has stored before the statement it is at.
Backed ==
  /\ job.pc \in Recording => job.batch \in Batches
  /\ job.pc \in {"eth", "ethstate", "samples", "onus"} =>
       \A r \in job.batch : StatusChanged(r) => StatusEventFrom(r) \in statusEvents
  /\ job.pc = "ethstate" =>
       \A r \in job.batch : r.serial # Blank /\ PortChanged(r) => EthEventFrom(r) \in ethEvents
  /\ job.pc = "onus" => \A r \in job.batch : SampleOf(r) \in samples

IInv == TypeOK /\ Backed /\ IdentityHasSample /\ IdentityMatchesLog /\ PortMatchesLog

-----------------------------------------------------------------------------
(***************************************************************************)
(* Facts about batches and outcomes.                                       *)
(***************************************************************************)
\* A walk returns finitely many rows: no ONU-ID comes twice.
LEMMA BatchFinite == ASSUME NEW b \in Batches PROVE Cardinality(b) \in Nat
<1> DEFINE id == [r \in b |-> r.id]
<1>1. id \in [b -> Ids]
  BY DEF Batches, Row
<1>2. \A r, q \in b : id[r] = id[q] => r = q
  BY DEF Batches
<1>3. id \in Injection(b, Ids)
  BY <1>1, <1>2 DEF Injection, IsInjective
<1>4. IsFiniteSet(b)
  BY <1>3, FS_Injection, IdsAssumption
<1> QED BY <1>4, FS_CardinalityType

\* A batch is a set of inventory rows with different serials.
LEMMA BatchRows ==
  ASSUME NEW b \in Batches
  PROVE  /\ b \subseteq Row
         /\ \A r, q \in b : r.serial = q.serial => r = q
BY DEF Batches

\* The rows a loop of upserts reached are rows of the batch.
LEMMA PrefixRows == ASSUME NEW done \in Prefixes PROVE done \subseteq job.batch
BY DEF Prefixes

\* The row that an upsert loop applied for a serial is the only one with it.
LEMMA RowOfSerial ==
  ASSUME NEW b \in Batches, NEW done \in SUBSET b, NEW s, \E r \in done : r.serial = s
  PROVE  LET q == CHOOSE r \in done : r.serial = s IN
         /\ q \in b /\ q.serial = s
         /\ \A r \in b : r.serial = s => r = q
BY BatchRows

-----------------------------------------------------------------------------
(***************************************************************************)
(* Types.                                                                  *)
(***************************************************************************)
\* The port a row shows is a state the tables can hold.
LEMMA PortType == ASSUME NEW r \in Row PROVE Port(r) \in PortStates
BY LinksAssumption DEF Port, PortStates, Row

\* ListEthState yields a stored port state, for a serial number that serial's own.
LEMMA PreviousPortType ==
  ASSUME TypeOK, NEW s \in Keys
  PROVE  /\ PreviousPort(s).link \in PortStates \cup {""}
         /\ s # Blank => PreviousKey(s) = s /\ PreviousPort(s) = ethState[s]
BY DEF PreviousPort, PreviousKey, TypeOK, EthState

Stages == Recording \cup {"idle", "device", "next", "finish"}

\* Updates of the poller's memory that keep its type.
LEMMA JobUpdates ==
  ASSUME NEW j \in Job, NEW pc \in Stages, NEW n \in Nat, NEW b \in SUBSET Row
  PROVE  /\ [j EXCEPT !.pc = pc] \in Job
         /\ [j EXCEPT !.pc = pc, !.id = n] \in Job
         /\ [j EXCEPT !.pc = pc, !.failed = TRUE] \in Job
         /\ [j EXCEPT !.pc = pc, !.err = @ + 1] \in Job
         /\ [j EXCEPT !.pc = pc, !.batch = b] \in Job
         /\ [j EXCEPT !.pon = @ + 1, !.at = n] \in Job
         /\ [j EXCEPT !.err = @ + 1] \in Job
         /\ [j EXCEPT !.ok = @ + 1] \in Job
         /\ [j EXCEPT !.pc = pc, !.ok = @ + 1, !.sampled = @ + n] \in Job
<1>1. j.ok + 1 \in Nat /\ j.err + 1 \in Nat /\ j.pon + 1 \in Nat /\ j.sampled + n \in Nat
  BY DEF Job
<1> QED BY <1>1 DEF Job, Stages

\* Time, the process and the poller's memory keep their types.
LEMMA JobType ==
  ASSUME TypeOK, Backed, Next
  PROVE  /\ clock' \in Nat
         /\ live' \in {"serving", "closed", "cancelled"}
         /\ job' \in Job
<1>1. /\ job \in Job /\ clock \in Nat /\ clock + 1 \in Nat
      /\ live \in {"serving", "closed", "cancelled"} /\ runs \in Seq(Run)
  BY DEF TypeOK
<1>2. Idle \in Job
  BY DEF Idle, Job
<1>3. PonFails \in Job
  BY <1>1, JobUpdates DEF PonFails, Stages
<1>4. \A x \in Stages : [job EXCEPT !.pc = x] \in Job
  BY <1>1, JobUpdates
<1>5. CASE InsertCollectionRun
  <2>1. Len(runs) + 1 \in Nat
    BY <1>1
  <2>2. [Idle EXCEPT !.pc = "device", !.id = Len(runs) + 1] \in Job
    BY <1>2, <2>1, JobUpdates DEF Stages
  <2> QED BY <1>1, <1>2, <1>5, <2>2 DEF InsertCollectionRun
<1>6. CASE UpsertDevice \/ Interrupted
  <2>1. [job EXCEPT !.pc = "finish", !.failed = TRUE] \in Job
    BY <1>1, JobUpdates DEF Stages
  <2> QED BY <1>1, <1>4, <1>6, <2>1 DEF UpsertDevice, Interrupted, Stages
<1>7. CASE CollectPONInventory
  <2> DEFINE started == [job EXCEPT !.pon = @ + 1, !.at = clock + 1]
  <2>1. \A n \in Nat : [job EXCEPT !.pon = @ + 1, !.at = n] \in Job
    BY <1>1, JobUpdates DEF Stages
  <2>2. started \in Job
    BY <1>1, <2>1
  <2> HIDE DEF started
  <2>3. /\ [started EXCEPT !.err = @ + 1] \in Job
        /\ [started EXCEPT !.ok = @ + 1] \in Job
    BY <2>2, JobUpdates DEF Stages
  <2>4. \A b \in Batches : [started EXCEPT !.pc = "status", !.batch = b] \in Job
    BY <2>2, BatchRows, JobUpdates DEF Stages, Recording
  <2>5. job' \in Job
    BY <1>7, <2>3, <2>4 DEF CollectPONInventory, started
  <2> QED BY <1>1, <1>7, <2>5 DEF CollectPONInventory
<1>8. CASE InsertStatusEvents
  BY <1>1, <1>4, <1>3, <1>8 DEF InsertStatusEvents, Recording, Stages
<1>9. CASE InsertEthEvents
  BY <1>1, <1>4, <1>3, <1>9 DEF InsertEthEvents, Recording, Stages
<1>10. CASE UpsertEthState
  BY <1>1, <1>4, <1>3, <1>10 DEF UpsertEthState, Recording, Stages
<1>11. CASE InsertSamples
  BY <1>1, <1>4, <1>3, <1>11 DEF InsertSamples, Recording, Stages
<1>12. CASE UpsertONUs
  <2>1. Cardinality(job.batch) \in Nat
    BY <1>12, BatchFinite DEF UpsertONUs, Backed, Recording
  <2>2. [job EXCEPT !.pc = "next", !.ok = @ + 1, !.sampled = @ + Cardinality(job.batch)] \in Job
    BY <1>1, <2>1, JobUpdates DEF Stages
  <2> QED BY <1>1, <1>3, <1>12, <2>2 DEF UpsertONUs
<1>13. CASE DiscoverUnconfigured
  BY <1>1, <1>4, <1>13 DEF DiscoverUnconfigured, Stages
<1>14. CASE FinishCollectionRun
  BY <1>1, <1>2, <1>14 DEF FinishCollectionRun
<1>15. CASE CloseStore \/ CancelContext \/ Restart
  BY <1>1, <1>2, <1>15 DEF CloseStore, CancelContext, Restart
<1> QED
  BY <1>5, <1>6, <1>7, <1>8, <1>9, <1>10, <1>11, <1>12, <1>13, <1>14, <1>15 DEF Next

\* Replacing an element of a sequence by one of its set.
LEMMA SeqUpdate ==
  ASSUME NEW S, NEW q \in Seq(S), NEW i, NEW v, i \in DOMAIN q => v \in S
  PROVE  [q EXCEPT ![i] = v] \in Seq(S)
<1>1. PICK n \in Nat : q \in [1..n -> S]
  BY SeqDef
<1>2. [q EXCEPT ![i] = v] \in [1..n -> S]
  BY <1>1
<1> QED BY <1>2, SeqDef

\* The rows of collection_runs keep their types.
LEMMA RunsType == ASSUME TypeOK, Next PROVE runs' \in Seq(Run)
<1>1. runs \in Seq(Run) /\ clock \in Nat /\ job \in Job
  BY DEF TypeOK
<1>2. CASE InsertCollectionRun
  <2>1. NewRun(clock + 1) \in Run
    BY <1>1 DEF NewRun, Run
  <2> QED BY <1>1, <1>2, <2>1 DEF InsertCollectionRun
<1>3. CASE FinishCollectionRun
  <2> DEFINE row == [started |-> runs[job.id].started, finished |-> clock,
                     status |-> RunStatus, ok |-> job.ok, err |-> job.err,
                     sampled |-> job.sampled]
  <2>1. runs' = runs \/ runs' = [runs EXCEPT ![job.id] = row]
    BY <1>3 DEF FinishCollectionRun
  <2>2. job.id \in DOMAIN runs => row \in Run
    <3>1. job.id \in DOMAIN runs => runs[job.id] \in Run
      BY <1>1, ElementOfSeq
    <3>2. RunStatus \in {"ok", "partial", "error"}
      BY DEF RunStatus
    <3> QED BY <1>1, <3>1, <3>2 DEF Run, Job
  <2> HIDE DEF row
  <2>3. [runs EXCEPT ![job.id] = row] \in Seq(Run)
    BY <1>1, <2>2, SeqUpdate
  <2> QED BY <1>1, <2>1, <2>3
<1>4. CASE runs' = runs
  BY <1>1, <1>4
<1>5. \/ InsertCollectionRun \/ FinishCollectionRun \/ runs' = runs
  BY DEF Next, UpsertDevice, Interrupted, CollectPONInventory,
     InsertStatusEvents, InsertEthEvents, UpsertEthState, InsertSamples, UpsertONUs,
     DiscoverUnconfigured, CloseStore, CancelContext, Restart
<1> QED BY <1>2, <1>3, <1>4, <1>5
\* The serials of the events the poll under way has logged are serials.
LEMMA LoggedType == ASSUME TypeOK PROVE Logged \in SUBSET Serials
BY DEF Logged, TypeOK, StatusEvent

\* The rows of a recording poll are well typed and have different serials.
LEMMA BatchType ==
  ASSUME TypeOK, Backed, job.pc \in Recording
  PROVE  /\ job.batch \in Batches /\ job.at \in Nat /\ job.pon \in Nat
         /\ \A r \in job.batch : /\ r \in Row /\ r.id \in Ids /\ r.status \in Statuses
                                 /\ r.serial \in Keys /\ Port(r) \in PortStates
                                 /\ r.serial # Blank => r.serial \in Serials
<1>1. job \in Job /\ job.batch \in Batches
  BY DEF TypeOK, Backed
<1>2. \A r \in job.batch : r \in Row
  BY <1>1, BatchRows
<1> QED BY <1>1, <1>2, PortType DEF Job, Row, Keys

\* The events and the rows made from a recording poll are well typed.
LEMMA MadeType ==
  ASSUME TypeOK, Backed, job.pc \in Recording, NEW r \in job.batch
  PROVE  /\ r.serial # Blank => StatusEventFrom(r) \in StatusEvent
         /\ EthEventFrom(r) \in EthEvent
         /\ SampleOf(r) \in Sample
         /\ \A old \in EthState : PortRow(old, r) \in EthState
         /\ \A old \in ONU : IdentityRow(old, r) \in ONU
<1>1. /\ job.at \in Nat /\ job.pon \in Nat /\ r.id \in Ids /\ r.status \in Statuses
      /\ r.serial \in Keys /\ Port(r) \in PortStates
      /\ r.serial # Blank => r.serial \in Serials
  BY BatchType
<1>2. ASSUME r.serial # Blank PROVE StatusEventFrom(r) \in StatusEvent
  <2>1. onus \in [Serials -> ONU]
    BY DEF TypeOK
  <2>2. onus[r.serial] \in ONU
    BY <1>1, <1>2, <2>1
  <2>3. onus[r.serial].status \in Statuses \cup {""}
    BY <2>2 DEF ONU
  <2> QED BY <1>1, <1>2, <2>3 DEF StatusEventFrom, StatusEvent
<1>3. EthEventFrom(r) \in EthEvent
  <2>1. PreviousPort(r.serial).link \in PortStates \cup {""}
    BY <1>1, PreviousPortType
  <2> QED BY <1>1, <2>1 DEF EthEventFrom, EthEvent
<1>4. SampleOf(r) \in Sample
  BY <1>1 DEF SampleOf, Sample
<1>5. ASSUME NEW old \in EthState PROVE PortRow(old, r) \in EthState
  <2>1. old.changed \in Nat
    BY DEF EthState
  <2> QED BY <1>1, <2>1 DEF PortRow, EthState
<1>6. ASSUME NEW old \in ONU PROVE IdentityRow(old, r) \in ONU
  <2>1. old.changed \in Nat /\ old.status \in Statuses \cup {""}
        /\ old.previous \in Statuses \cup {""}
    BY DEF ONU
  <2> QED BY <1>1, <2>1 DEF IdentityRow, ONU
<1> QED BY <1>2, <1>3, <1>4, <1>5, <1>6

\* The logs and the samples keep their types.
LEMMA LogsType ==
  ASSUME TypeOK, Backed, Next
  PROVE  /\ statusEvents' \in SUBSET StatusEvent
         /\ ethEvents' \in SUBSET EthEvent
         /\ samples' \in SUBSET Sample
         /\ torn' \in SUBSET Serials
<1>1. /\ statusEvents \in SUBSET StatusEvent /\ ethEvents \in SUBSET EthEvent
      /\ samples \in SUBSET Sample /\ torn \in SUBSET Serials
  BY DEF TypeOK
<1>2. CASE InsertStatusEvents
  <2> DEFINE Made == {StatusEventFrom(r) : r \in {q \in job.batch : StatusChanged(q)}}
  <2>1. Made \in SUBSET StatusEvent
    BY <1>2, MadeType DEF InsertStatusEvents, Recording, StatusChanged
  <2>2. \A new \in SUBSET StatusEvent : {e.serial : e \in new} \in SUBSET Serials
    BY DEF StatusEvent
  <2>3. PICK applied \in BOOLEAN :
          LET new == IF applied THEN Made ELSE {} IN
          /\ statusEvents' = statusEvents \cup new
          /\ torn' = torn \/ torn' = torn \cup {e.serial : e \in new}
    BY <1>2 DEF InsertStatusEvents, Tear
  <2> HIDE DEF Made
  <2> DEFINE new == IF applied THEN Made ELSE {}
  <2>4. new \in SUBSET StatusEvent /\ {e.serial : e \in new} \in SUBSET Serials
    BY <2>1, <2>2
  <2> HIDE DEF new
  <2>5. /\ statusEvents' = statusEvents \cup new
        /\ torn' = torn \/ torn' = torn \cup {e.serial : e \in new}
    BY <2>3 DEF new
  <2> QED BY <1>1, <1>2, <2>4, <2>5 DEF InsertStatusEvents
<1>3. CASE InsertEthEvents
  <2> DEFINE Made == {EthEventFrom(r) : r \in {q \in job.batch : PortChanged(q)}}
  <2>1. Made \in SUBSET EthEvent
    BY <1>3, MadeType DEF InsertEthEvents, Recording
  <2>2. ethEvents' = ethEvents \cup Made \/ ethEvents' = ethEvents
    BY <1>3 DEF InsertEthEvents
  <2> HIDE DEF Made
  <2> QED BY <1>1, <1>3, <2>1, <2>2, LoggedType DEF InsertEthEvents, Tear
<1>4. CASE UpsertEthState
  BY <1>1, <1>4, LoggedType DEF UpsertEthState, Tear, logs
<1>5. CASE InsertSamples
  <2> DEFINE Made == {SampleOf(r) : r \in job.batch}
  <2>1. Made \in SUBSET Sample
    BY <1>5, MadeType DEF InsertSamples, Recording
  <2>2. samples' = samples \cup Made \/ samples' = samples
    BY <1>5 DEF InsertSamples
  <2> HIDE DEF Made
  <2> QED BY <1>1, <1>5, <2>1, <2>2, LoggedType DEF InsertSamples, Tear
<1>6. CASE UpsertONUs
  BY <1>1, <1>6, LoggedType DEF UpsertONUs, Tear, logs
<1>7. CASE Restart
  BY <1>1, <1>7, LoggedType DEF Restart, Tear, logs
<1>8. CASE UNCHANGED <<torn, logs>>
  BY <1>1, <1>8 DEF logs
<1> QED
  BY <1>2, <1>3, <1>4, <1>5, <1>6, <1>7, <1>8 DEF Next, InsertCollectionRun, UpsertDevice,
     Interrupted, CollectPONInventory, DiscoverUnconfigured, FinishCollectionRun, CloseStore,
     CancelContext

\* What an upsert loop leaves in a table row: the row of the batch, or what was there.
LEMMA Upserted ==
  ASSUME NEW b \in Batches, NEW done \in SUBSET b, NEW s
  PROVE  LET q == CHOOSE r \in done : r.serial = s IN
         (\E r \in done : r.serial = s) =>
           /\ q \in b /\ q.serial = s
           /\ \A r \in b : r.serial = s => r = q
BY RowOfSerial

\* The state tables and the discovery keep their types.
LEMMA TablesType ==
  ASSUME TypeOK, Backed, Next
  PROVE  /\ onus' \in [Serials -> ONU]
         /\ ethState' \in [Keys -> EthState]
         /\ unauth'.status \in {"none", "ok", "unsupported"}
         /\ unauth'.rows \in [Serials -> {"never", "listed", "gone"}]
<1>1. /\ onus \in [Serials -> ONU] /\ ethState \in [Keys -> EthState]
      /\ unauth.status \in {"none", "ok", "unsupported"}
      /\ unauth.rows \in [Serials -> {"never", "listed", "gone"}]
  BY DEF TypeOK
<1>2. CASE UpsertEthState
  <2>1. PICK done \in Prefixes :
          ethState' = [s \in Keys |->
            IF \E r \in done : r.serial = s
              THEN PortRow(ethState[s], CHOOSE r \in done : r.serial = s) ELSE ethState[s]]
    BY <1>2 DEF UpsertEthState
  <2>2. job.pc \in Recording /\ job.batch \in Batches /\ done \in SUBSET job.batch
    BY <1>2, BatchType, PrefixRows DEF UpsertEthState, Recording
  <2>3. \A s \in Keys : ethState'[s] \in EthState
    BY <1>1, <2>1, <2>2, MadeType, Upserted
  <2> QED BY <1>1, <1>2, <2>1, <2>3 DEF UpsertEthState
<1>3. CASE UpsertONUs
  <2>1. PICK done \in Prefixes :
          onus' = [s \in Serials |->
            IF \E r \in done : r.serial = s
              THEN IdentityRow(onus[s], CHOOSE r \in done : r.serial = s) ELSE onus[s]]
    BY <1>3 DEF UpsertONUs
  <2>2. job.pc \in Recording /\ job.batch \in Batches /\ done \in SUBSET job.batch
    BY <1>3, BatchType, PrefixRows DEF UpsertONUs, Recording
  <2>3. \A s \in Serials : onus'[s] \in ONU
    BY <1>1, <2>1, <2>2, MadeType, Upserted
  <2> QED BY <1>1, <1>3, <2>1, <2>3 DEF UpsertONUs
<1>4. CASE DiscoverUnconfigured
  <2>1. \/ unauth' = unauth
        \/ \E found \in SUBSET Candidates : \E serials :
             unauth' = ReplaceUnauth(DiscoverUnconfiguredONUs(found), serials)
    BY <1>4 DEF DiscoverUnconfigured
  <2>2. ASSUME NEW status, NEW serials, unauth' = ReplaceUnauth(status, serials)
        PROVE  /\ unauth'.status = status
               /\ unauth'.rows \in [Serials -> {"never", "listed", "gone"}]
    BY <1>1, <2>2 DEF ReplaceUnauth
  <2>3. unauth'.status \in {"none", "ok", "unsupported"}
    BY <1>1, <2>1, <2>2 DEF DiscoverUnconfiguredONUs
  <2>4. unauth'.rows \in [Serials -> {"never", "listed", "gone"}]
    BY <1>1, <2>1, <2>2
  <2> QED BY <1>1, <1>4, <2>3, <2>4 DEF DiscoverUnconfigured
<1>5. CASE UNCHANGED <<onus, ethState, unauth>>
  BY <1>1, <1>5
<1> QED
  BY <1>2, <1>3, <1>4, <1>5 DEF Next, InsertCollectionRun, UpsertDevice, Interrupted,
     CollectPONInventory, InsertStatusEvents, InsertEthEvents, InsertSamples,
     FinishCollectionRun, CloseStore, CancelContext, Restart

\* Type correctness is preserved.
LEMMA TypeStep == ASSUME TypeOK, Backed, [Next]_vars PROVE TypeOK'
<1>1. CASE Next
  BY <1>1, JobType, RunsType, LogsType, TablesType DEF TypeOK
<1>2. CASE UNCHANGED vars
  BY <1>2 DEF TypeOK, vars, logs
<1> QED BY <1>1, <1>2

-----------------------------------------------------------------------------
(***************************************************************************)
(* What the poll under way has stored.                                     *)
(***************************************************************************)
\* A step that ends or begins a poll, or touches none, keeps Backed.
LEMMA BackedFrame ==
  ASSUME Backed,
         \/ job'.pc \notin Recording
         \/ UNCHANGED <<job, onus, ethState, logs>>
  PROVE  Backed'
<1>1. CASE job'.pc \notin Recording
  BY <1>1 DEF Backed, Recording
<1>2. CASE UNCHANGED <<job, onus, ethState, logs>>
  BY <1>2 DEF Backed, logs, StatusChanged, StatusEventFrom, PortChanged, EthEventFrom,
     PreviousPort, PreviousKey, SampleOf
<1> QED BY <1>1, <1>2

\* The logs only grow, and a poll works through its batch with nothing but pc changing.
LEMMA Advance ==
  ASSUME Backed, TypeOK,
         job.pc \in Recording, NEW x \in Recording, job' = [job EXCEPT !.pc = x],
         onus' = onus, statusEvents \subseteq statusEvents'
  PROVE  /\ job'.pc = x /\ job'.batch = job.batch /\ job'.batch \in Batches
         /\ \A r \in job.batch : /\ StatusChanged(r)' <=> StatusChanged(r)
                                 /\ StatusEventFrom(r)' = StatusEventFrom(r)
                                 /\ SampleOf(r)' = SampleOf(r)
<1>1. job'.pc = x /\ job'.batch = job.batch /\ job'.at = job.at /\ job'.pon = job.pon
  BY DEF TypeOK, Job
<1> QED BY <1>1 DEF Backed, StatusChanged, StatusEventFrom, SampleOf

\* Every step keeps Backed: each write is behind the one it relies on.
LEMMA BackedStep == ASSUME TypeOK, Backed, [Next]_vars PROVE Backed'
<1>1. /\ PonFails.pc \notin Recording /\ Idle.pc \notin Recording
      /\ \A x : [job EXCEPT !.pc = x].pc = x
  BY DEF PonFails, Idle, Recording, TypeOK, Job
<1>2. CASE CollectPONInventory
  <2>1. CASE job'.pc \notin Recording
    BY <2>1, BackedFrame
  <2>2. CASE job'.pc \in Recording
    <3>1. PICK b \in Batches : job' = [[job EXCEPT !.pon = @ + 1, !.at = clock + 1]
                                          EXCEPT !.pc = "status", !.batch = b]
      BY <1>2, <2>2 DEF CollectPONInventory, TypeOK, Job, Recording
    <3>2. job'.pc = "status" /\ job'.batch \in Batches
      BY <3>1 DEF TypeOK, Job
    <3> QED BY <3>2 DEF Backed
  <2> QED BY <2>1, <2>2
<1>3. CASE InsertStatusEvents
  <2>1. CASE job' = PonFails
    BY <1>1, <2>1, BackedFrame
  <2>2. CASE job' # PonFails
    <3>1. /\ job.pc = "status" /\ job' = [job EXCEPT !.pc = "eth"] /\ onus' = onus
          /\ statusEvents' = statusEvents \cup
               {StatusEventFrom(r) : r \in {q \in job.batch : StatusChanged(q)}}
      BY <1>3, <2>2 DEF InsertStatusEvents, Outcome
    <3>2. job'.pc = "eth" /\ job'.batch = job.batch /\ job'.batch \in Batches
      BY <3>1, Advance DEF Recording
    <3>3. \A r \in job'.batch : StatusChanged(r)' => StatusEventFrom(r)' \in statusEvents'
      BY <3>1, Advance DEF Recording
    <3> QED BY <3>2, <3>3 DEF Backed
  <2> QED BY <2>1, <2>2
<1>4. CASE InsertEthEvents
  <2>1. CASE job' = PonFails
    BY <1>1, <2>1, BackedFrame
  <2>2. CASE job' # PonFails
    <3>1. /\ job.pc = "eth" /\ job' = [job EXCEPT !.pc = "ethstate"] /\ onus' = onus
          /\ statusEvents' = statusEvents /\ ethState' = ethState
          /\ ethEvents' = ethEvents \cup
               {EthEventFrom(r) : r \in {q \in job.batch : PortChanged(q)}}
      BY <1>4, <2>2 DEF InsertEthEvents, Outcome
    <3>2. /\ job'.pc = "ethstate" /\ job'.batch = job.batch /\ job'.batch \in Batches
          /\ job'.at = job.at
      BY <3>1, Advance DEF Recording, TypeOK, Job
    <3>3. \A r \in job'.batch : StatusChanged(r)' => StatusEventFrom(r)' \in statusEvents'
      BY <3>1, Advance DEF Recording, Backed
    <3>4. \A r \in job.batch : /\ PortChanged(r)' <=> PortChanged(r)
                               /\ EthEventFrom(r)' = EthEventFrom(r)
      BY <3>1, <3>2 DEF PortChanged, EthEventFrom, PreviousPort, PreviousKey
    <3>5. \A r \in job'.batch : PortChanged(r)' => EthEventFrom(r)' \in ethEvents'
      BY <3>1, <3>2, <3>4
    <3> QED BY <3>2, <3>3, <3>5 DEF Backed
  <2> QED BY <2>1, <2>2
<1>5. CASE UpsertEthState
  <2>1. CASE job' = PonFails
    BY <1>1, <2>1, BackedFrame
  <2>2. CASE job' # PonFails
    <3>1. /\ job.pc = "ethstate" /\ job' = [job EXCEPT !.pc = "samples"] /\ onus' = onus
          /\ statusEvents' = statusEvents
      BY <1>5, <2>2 DEF UpsertEthState, logs
    <3>2. job'.pc = "samples" /\ job'.batch = job.batch /\ job'.batch \in Batches
      BY <3>1, Advance DEF Recording
    <3>3. \A r \in job'.batch : StatusChanged(r)' => StatusEventFrom(r)' \in statusEvents'
      BY <3>1, Advance DEF Recording, Backed
    <3> QED BY <3>2, <3>3 DEF Backed
  <2> QED BY <2>1, <2>2
<1>6. CASE InsertSamples
  <2>1. CASE job' = PonFails
    BY <1>1, <2>1, BackedFrame
  <2>2. CASE job' # PonFails
    <3>1. /\ job.pc = "samples" /\ job' = [job EXCEPT !.pc = "onus"] /\ onus' = onus
          /\ statusEvents' = statusEvents
          /\ samples' = samples \cup {SampleOf(r) : r \in job.batch}
      BY <1>6, <2>2 DEF InsertSamples, Outcome
    <3>2. job'.pc = "onus" /\ job'.batch = job.batch /\ job'.batch \in Batches
      BY <3>1, Advance DEF Recording
    <3>3. \A r \in job'.batch : StatusChanged(r)' => StatusEventFrom(r)' \in statusEvents'
      BY <3>1, Advance DEF Recording, Backed
    <3>4. \A r \in job'.batch : SampleOf(r)' \in samples'
      BY <3>1, Advance DEF Recording
    <3> QED BY <3>2, <3>3, <3>4 DEF Backed
  <2> QED BY <2>1, <2>2
<1>7. CASE UpsertONUs
  <2>1. job'.pc \notin Recording
    BY <1>1, <1>7 DEF UpsertONUs, TypeOK, Job, Recording
  <2> QED BY <2>1, BackedFrame
<1>8. CASE \/ InsertCollectionRun \/ UpsertDevice \/ Interrupted \/ DiscoverUnconfigured
           \/ FinishCollectionRun \/ Restart
  <2>1. Idle.pc = "idle" /\ \A n : [Idle EXCEPT !.pc = "device", !.id = n].pc = "device"
    BY DEF Idle
  <2>2. [job EXCEPT !.pc = "finish", !.failed = TRUE].pc = "finish"
    BY DEF TypeOK, Job
  <2>3. InsertCollectionRun => job'.pc \in {"idle", "device"}
    BY <2>1 DEF InsertCollectionRun
  <2>4. UpsertDevice \/ Interrupted \/ DiscoverUnconfigured => job'.pc \in {"next", "finish"}
    BY <1>1, <2>2 DEF UpsertDevice, Interrupted, DiscoverUnconfigured
  <2>5. FinishCollectionRun \/ Restart => job'.pc = "idle"
    BY <2>1 DEF FinishCollectionRun, Restart
  <2>6. job'.pc \notin Recording
    BY <1>8, <2>3, <2>4, <2>5 DEF Recording
  <2> QED BY <2>6, BackedFrame
<1>9. CASE CloseStore \/ CancelContext \/ UNCHANGED vars
  BY <1>9, BackedFrame DEF CloseStore, CancelContext, vars
<1> QED
  BY <1>2, <1>3, <1>4, <1>5, <1>6, <1>7, <1>8, <1>9 DEF Next

-----------------------------------------------------------------------------
(***************************************************************************)
(* The tables against the logs and the samples.                            *)
(***************************************************************************)
\* What UpsertONUs makes of one serial: nothing, or the row of the batch that has it.
LEMMA UpsertEffect ==
  ASSUME TypeOK, Backed, UpsertONUs, NEW s \in Serials
  PROVE  \/ onus'[s] = onus[s]
         \/ \E r \in job.batch : r.serial = s /\ onus'[s] = IdentityRow(onus[s], r)
<1>1. PICK done \in Prefixes :
        onus' = [k \in Serials |->
          IF \E r \in done : r.serial = k
            THEN IdentityRow(onus[k], CHOOSE r \in done : r.serial = k) ELSE onus[k]]
  BY DEF UpsertONUs
<1>2. job.batch \in Batches /\ done \in SUBSET job.batch
  BY PrefixRows DEF UpsertONUs, Backed, Recording
<1> QED BY <1>1, <1>2, Upserted

\* The same for the ports.
LEMMA UpsertEthEffect ==
  ASSUME TypeOK, Backed, UpsertEthState, NEW s \in Keys
  PROVE  \/ ethState'[s] = ethState[s]
         \/ \E r \in job.batch : r.serial = s /\ ethState'[s] = PortRow(ethState[s], r)
<1>1. PICK done \in Prefixes :
        ethState' = [k \in Keys |->
          IF \E r \in done : r.serial = k
            THEN PortRow(ethState[k], CHOOSE r \in done : r.serial = k) ELSE ethState[k]]
  BY DEF UpsertEthState
<1>2. job.batch \in Batches /\ done \in SUBSET job.batch
  BY PrefixRows DEF UpsertEthState, Backed, Recording
<1> QED BY <1>1, <1>2, Upserted

\* No row of onus, no log and no sample is ever taken back: each action but the two
\* upserts leaves the state tables alone, and the logs only grow.
LEMMA Growth ==
  ASSUME [Next]_vars
  PROVE  /\ statusEvents \subseteq statusEvents' /\ ethEvents \subseteq ethEvents'
         /\ samples \subseteq samples'
         /\ onus' = onus \/ UpsertONUs
         /\ ethState' = ethState \/ UpsertEthState
BY DEF Next, InsertCollectionRun, UpsertDevice, Interrupted, CollectPONInventory,
   InsertStatusEvents, InsertEthEvents, UpsertEthState, InsertSamples, UpsertONUs,
   DiscoverUnconfigured, FinishCollectionRun, CloseStore, CancelContext, Restart, vars, logs

\* An identity row that changes shows the sample the poll has just stored.
LEMMA SampleStep ==
  ASSUME TypeOK, Backed, [Next]_vars, IdentityHasSample PROVE IdentityHasSample'
<1> SUFFICES ASSUME NEW s \in Serials, onus'[s].seen # 0
             PROVE  \E x \in samples' : /\ x.serial = s /\ x.time = onus'[s].seen
                                        /\ x.status = onus'[s].status
  BY DEF IdentityHasSample
<1>1. CASE onus'[s] = onus[s]
  BY <1>1, Growth DEF IdentityHasSample
<1>2. CASE onus'[s] # onus[s]
  <2>1. UpsertONUs
    BY <1>2, Growth
  <2>2. PICK r \in job.batch : r.serial = s /\ onus'[s] = IdentityRow(onus[s], r)
    BY <1>2, <2>1, UpsertEffect
  <2>3. SampleOf(r) \in samples'
    BY <2>1, Growth DEF UpsertONUs, Backed
  <2>4. /\ SampleOf(r).serial = s /\ SampleOf(r).time = onus'[s].seen
        /\ SampleOf(r).status = onus'[s].status
    BY <2>2 DEF SampleOf, IdentityRow
  <2> QED BY <2>3, <2>4
<1> QED BY <1>1, <1>2

\* An identity row that shows a new change shows the event the poll has logged.
LEMMA LogStep ==
  ASSUME TypeOK, Backed, [Next]_vars, IdentityMatchesLog PROVE IdentityMatchesLog'
<1> DEFINE Shown(s, o) == [time |-> o.changed, serial |-> s, status |-> o.status,
                           previous |-> o.previous]
<1> SUFFICES ASSUME NEW s \in Serials, onus'[s].seen # 0
             PROVE  Shown(s, onus'[s]) \in statusEvents'
  BY DEF IdentityMatchesLog
<1>1. CASE onus'[s] = onus[s]
  BY <1>1, Growth DEF IdentityMatchesLog
<1>2. CASE onus'[s] # onus[s]
  <2>1. UpsertONUs
    BY <1>2, Growth
  <2>2. PICK r \in job.batch : r.serial = s /\ onus'[s] = IdentityRow(onus[s], r)
    BY <1>2, <2>1, UpsertEffect
  <2>3. s # Blank
    BY SerialsAssumption DEF Blank
  <2>4. CASE StatusChanged(r)
    <3>1. StatusEventFrom(r) \in statusEvents'
      BY <2>1, <2>4, Growth DEF UpsertONUs, Backed
    <3>2. Shown(s, onus'[s]) = StatusEventFrom(r)
      BY <2>2, <2>4 DEF StatusEventFrom, IdentityRow, StatusChanged
    <3> QED BY <3>1, <3>2
  <2>5. CASE ~StatusChanged(r)
    <3>1. /\ onus[s].seen # 0 /\ onus'[s].changed = onus[s].changed
          /\ onus'[s].status = onus[s].status /\ onus'[s].previous = onus[s].previous
      BY <2>2, <2>3, <2>5 DEF IdentityRow, StatusChanged
    <3> QED BY <3>1, Growth DEF IdentityMatchesLog
  <2> QED BY <2>4, <2>5
<1> QED BY <1>1, <1>2

\* A port state that shows a new change has the event the poll has logged.
LEMMA PortStep ==
  ASSUME TypeOK, Backed, [Next]_vars, PortMatchesLog PROVE PortMatchesLog'
<1> SUFFICES ASSUME NEW s \in Serials, ethState'[s].seen # 0
             PROVE  \E e \in ethEvents' : /\ e.serial = s /\ e.time = ethState'[s].changed
                                          /\ e.link = ethState'[s].link
  BY DEF PortMatchesLog
<1>1. CASE ethState'[s] = ethState[s]
  BY <1>1, Growth DEF PortMatchesLog
<1>2. CASE ethState'[s] # ethState[s]
  <2>1. UpsertEthState
    BY <1>2, Growth
  <2>2. s \in Keys /\ s # Blank
    BY SerialsAssumption DEF Blank, Keys
  <2>3. PICK r \in job.batch : r.serial = s /\ ethState'[s] = PortRow(ethState[s], r)
    BY <1>2, <2>1, <2>2, UpsertEthEffect
  <2>4. PreviousKey(s) # Blank /\ PreviousPort(s) = ethState[s]
    BY <2>2, PreviousPortType
  <2>5. CASE PortChanged(r)
    <3>1. EthEventFrom(r) \in ethEvents'
      BY <2>1, <2>2, <2>3, <2>5, Growth DEF UpsertEthState, Backed
    <3>2. /\ EthEventFrom(r).serial = s /\ EthEventFrom(r).time = ethState'[s].changed
          /\ EthEventFrom(r).link = ethState'[s].link
      BY <2>3, <2>4, <2>5 DEF EthEventFrom, PortRow, PortChanged
    <3> QED BY <3>1, <3>2
  <2>6. CASE ~PortChanged(r)
    <3>1. /\ ethState[s].seen # 0 /\ ethState'[s].changed = ethState[s].changed
          /\ ethState'[s].link = ethState[s].link
      BY <2>3, <2>4, <2>6 DEF PortRow, PortChanged
    <3> QED BY <3>1, Growth DEF PortMatchesLog
  <2> QED BY <2>5, <2>6
<1> QED BY <1>1, <1>2

-----------------------------------------------------------------------------
(***************************************************************************)
(* The theorems.                                                           *)
(***************************************************************************)
\* The initial state satisfies the inductive invariant.
LEMMA InitInv == Init => IInv
<1> SUFFICES ASSUME Init PROVE IInv
  OBVIOUS
<1>1. Idle \in Job /\ NoONU \in ONU /\ NoPort \in EthState
  BY DEF Idle, Job, NoONU, ONU, NoPort, EthState
<1>2. TypeOK
  BY <1>1 DEF Init, TypeOK
<1>3. Backed
  BY DEF Init, Backed, Idle, Recording
<1>4. IdentityHasSample /\ IdentityMatchesLog /\ PortMatchesLog
  BY DEF Init, IdentityHasSample, IdentityMatchesLog, PortMatchesLog, NoONU, NoPort, Keys
<1> QED BY <1>2, <1>3, <1>4 DEF IInv

\* Every step preserves it.
LEMMA StepInv == IInv /\ [Next]_vars => IInv'
BY TypeStep, BackedStep, SampleStep, LogStep, PortStep DEF IInv

\* The inductive invariant holds in every reachable state.
THEOREM Invariance == Spec => []IInv
BY InitInv, StepInv, PTL DEF Spec

\* The poller's memory and the tables keep their types.
THEOREM TypeCorrect == Spec => []TypeOK
BY Invariance, PTL DEF IInv

\* last_status and last_seen_at of every identity are those of a stored sample,
\* whatever statement failed and wherever the process stopped.
THEOREM IdentitiesSampled == Spec => []IdentityHasSample
BY Invariance, PTL DEF IInv

\* status_changed_at, last_status and previous_status of every identity are those of
\* a logged event.
THEOREM IdentitiesLogged == Spec => []IdentityMatchesLog
BY Invariance, PTL DEF IInv

\* last_changed_at and link_state of every port of an ONU with a serial are those of
\* a logged event.
THEOREM PortsLogged == Spec => []PortMatchesLog
BY Invariance, PTL DEF IInv
-----------------------------------------------------------------------------
(***************************************************************************)
(* What a step does to the memory of the poller and to the tables.         *)
(***************************************************************************)
\* The five statements that record a PON.
Record == InsertStatusEvents \/ InsertEthEvents \/ UpsertEthState \/ InsertSamples \/ UpsertONUs

\* Which steps write the tables the runs and the status log are about, and which tick.
LEMMA Writers ==
  ASSUME [Next]_vars
  PROVE  /\ samples' = samples \/ InsertSamples
         /\ statusEvents' = statusEvents \/ InsertStatusEvents
         /\ onus' = onus \/ UpsertONUs
         /\ runs' = runs \/ InsertCollectionRun \/ FinishCollectionRun
         /\ clock' = clock \/ InsertCollectionRun \/ CollectPONInventory
         /\ torn \subseteq torn'
BY DEF Next, InsertCollectionRun, UpsertDevice, Interrupted, CollectPONInventory,
   InsertStatusEvents, InsertEthEvents, UpsertEthState, InsertSamples, UpsertONUs,
   DiscoverUnconfigured, FinishCollectionRun, CloseStore, CancelContext, Restart, Tear, vars, logs

\* A statement that records a PON moves on to the next one, or gives the PON up.
LEMMA RecordEffect ==
  ASSUME TypeOK, Backed, Record
  PROVE  /\ job.pc \in Recording /\ UNCHANGED <<clock, live, runs>>
         /\ job'.id = job.id /\ job'.pon = job.pon /\ job'.at = job.at
         /\ job'.batch = job.batch /\ job'.failed = job.failed
         /\ \/ /\ job'.pc = "next" /\ job'.err = job.err + 1
               /\ job'.ok = job.ok /\ job'.sampled = job.sampled
            \/ /\ job.pc # "onus" /\ job'.pc \in Recording \ {"status"} /\ job'.err = job.err
               /\ job'.pc = "onus" <=> job.pc = "samples"
               /\ job'.ok = job.ok /\ job'.sampled = job.sampled
            \/ /\ job.pc = "onus" /\ job'.pc = "next" /\ job'.err = job.err
               /\ job'.ok = job.ok + 1 /\ job'.sampled = job.sampled + Cardinality(job.batch)
<1>1. job \in Job
  BY DEF TypeOK
<1>2. CASE InsertStatusEvents
  BY <1>1, <1>2 DEF InsertStatusEvents, PonFails, Recording, Job
<1>3. CASE InsertEthEvents
  BY <1>1, <1>3 DEF InsertEthEvents, PonFails, Recording, Job
<1>4. CASE UpsertEthState
  BY <1>1, <1>4 DEF UpsertEthState, PonFails, Recording, Job
<1>5. CASE InsertSamples
  BY <1>1, <1>5 DEF InsertSamples, PonFails, Recording, Job
<1>6. CASE UpsertONUs
  BY <1>1, <1>6 DEF UpsertONUs, PonFails, Recording, Job
<1> QED BY <1>2, <1>3, <1>4, <1>5, <1>6 DEF Record

\* A walk that begins: the tick, the next PON, and what the walk returned.
LEMMA WalkEffect ==
  ASSUME TypeOK, CollectPONInventory
  PROVE  /\ job.pc = "next" /\ job.pon < NumPons /\ clock' = clock + 1
         /\ job'.id = job.id /\ job'.pon = job.pon + 1 /\ job'.at = clock + 1
         /\ job'.failed = job.failed /\ job'.sampled = job.sampled
         /\ UNCHANGED <<live, runs, onus, logs, torn>>
         /\ \/ job'.pc = "next" /\ job'.err = job.err + 1 /\ job'.ok = job.ok
            \/ job'.pc = "next" /\ job'.err = job.err /\ job'.ok = job.ok + 1
            \/ job'.pc = "status" /\ job'.err = job.err /\ job'.ok = job.ok
BY DEF TypeOK, Job, CollectPONInventory

\* A run that begins: the tick, and a row or none.
LEMMA BeginEffect ==
  ASSUME TypeOK, InsertCollectionRun
  PROVE  /\ clock' = clock + 1 /\ UNCHANGED <<live, onus, logs, torn>> /\ job.pc = "idle"
         /\ runs' = runs \/ runs' = Append(runs, NewRun(clock + 1))
         /\ \/ job'.pc = "idle"
            \/ /\ runs' = Append(runs, NewRun(clock + 1))
               /\ job'.pc = "device" /\ job'.id = Len(runs) + 1 /\ ~job'.failed
               /\ job'.pon = 0 /\ job'.ok = 0 /\ job'.err = 0 /\ job'.sampled = 0
BY DEF InsertCollectionRun, Outcome, Idle

\* The steps between the PONs change the place the poller is at.
LEMMA PlaceEffect ==
  ASSUME TypeOK, UpsertDevice \/ Interrupted \/ DiscoverUnconfigured
  PROVE  /\ UNCHANGED <<clock, live, runs, onus, logs, torn>>
         /\ job'.id = job.id /\ job'.pon = job.pon /\ job'.at = job.at
         /\ job'.ok = job.ok /\ job'.err = job.err /\ job'.sampled = job.sampled
         /\ \/ job.pc = "device" /\ job'.pc = "next" /\ job'.failed = job.failed
            \/ job.pc = "device" /\ job'.pc = "finish" /\ job'.failed
            \/ job.pc = "next" /\ job'.pc = "finish" /\ job'.failed /\ live = "cancelled"
            \/ /\ job.pc = "next" /\ job'.pc = "finish" /\ job'.failed = job.failed
               /\ job.pon = NumPons
BY DEF TypeOK, Job, UpsertDevice, Interrupted, DiscoverUnconfigured

\* The end of a run, with its row closed or not.
LEMMA FinishEffect ==
  ASSUME TypeOK, FinishCollectionRun
  PROVE  /\ job.pc = "finish" /\ job'.pc = "idle"
         /\ UNCHANGED <<clock, live, onus, logs, torn>>
         /\ \/ runs' = runs
            \/ /\ live = "serving"
               /\ runs' = [runs EXCEPT ![job.id] = [started |-> @.started, finished |-> clock,
                              status |-> RunStatus, ok |-> job.ok, err |-> job.err,
                              sampled |-> job.sampled]]
BY DEF FinishCollectionRun, Idle

\* The process changes without the poller, or ends.
LEMMA ProcessEffect ==
  ASSUME TypeOK, CloseStore \/ CancelContext \/ Restart \/ UNCHANGED vars
  PROVE  /\ UNCHANGED <<clock, runs, onus, logs>>
         /\ \/ job'.pc = "idle"
            \/ job' = job /\ (live' = live \/ live' # "serving")
BY DEF CloseStore, CancelContext, Restart, Idle, vars

\* Every step is one of these.
LEMMA Steps ==
  ASSUME [Next]_vars
  PROVE  \/ InsertCollectionRun \/ CollectPONInventory \/ Record
         \/ UpsertDevice \/ Interrupted \/ DiscoverUnconfigured
         \/ FinishCollectionRun
         \/ CloseStore \/ CancelContext \/ Restart \/ UNCHANGED vars
BY DEF Next, Record
-----------------------------------------------------------------------------
(***************************************************************************)
(* The runs: what is known of the poller's clock, of the open run and of   *)
(* the samples of the PON being recorded.                                  *)
(***************************************************************************)
\* The samples from the start of the run under way on.
Current == {x \in samples : runs[job.id].started <= x.time}

Closed(i) == runs[i].status # "running"

\* Nothing stored is of the future, and a poll that records has the newest time.
Clocked ==
  /\ IsFiniteSet(samples)
  /\ \A x \in samples : x.time <= clock
  /\ \A e \in statusEvents : e.time <= clock
  /\ \A s \in Serials : onus[s].seen <= clock
  /\ \A i \in DOMAIN runs : Closed(i) => runs[i].finished <= clock
  /\ job.pc \in Recording => job.at = clock /\ job.at > 0

\* The run under way has an open row, younger than the end of every closed one.
Open ==
  job.pc # "idle" =>
    /\ job.id \in DOMAIN runs /\ ~Closed(job.id) /\ runs[job.id].started <= clock
    /\ \A i \in DOMAIN runs : Closed(i) => runs[i].finished < runs[job.id].started
    /\ job.pc \in Recording => runs[job.id].started < job.at

\* Before its own samples are stored, no sample has the time of the PON.
Fresh ==
  /\ job.pc \in Recording \ {"onus"} => \A x \in samples : x.time < job.at
  /\ job.pc = "onus" =>
       \A x \in samples : x.time < job.at \/ \E r \in job.batch : x = SampleOf(r)

\* Rows stored and not yet counted.
Pending == IF job.pc = "onus" THEN Cardinality(job.batch) ELSE 0

\* The counter is never ahead of the samples; without a failed PON it is exact, and the
\* identities have caught up, but for those of the PON being recorded.
Counts ==
  job.pc # "idle" =>
    /\ job.sampled + Pending <= Cardinality(Current)
    /\ job.err = 0 =>
         /\ job.sampled + Pending = Cardinality(Current)
         /\ \A x \in Current : x.serial # Blank =>
              onus[x.serial].seen >= x.time \/ (job.pc = "onus" /\ x.time = job.at)

\* Every PON begun is counted or being recorded; a run ends early before its first
\* sample, or when its row can no longer be closed.
Walked ==
  job.pc # "idle" =>
    /\ job.pc = "device" => Current = {} /\ job.pon = 0
    /\ job.failed => job.pc = "finish" /\ (Current = {} \/ live # "serving")
    /\ job.ok + job.err + (IF job.pc \in Recording THEN 1 ELSE 0) = job.pon
    /\ job.pc = "finish" /\ ~job.failed => job.pon = NumPons
    /\ job.pon <= NumPons

RunInv == Clocked /\ Open /\ Fresh /\ Counts /\ Walked

-----------------------------------------------------------------------------
\* The samples of a batch are finitely many, and as many as its rows.
LEMMA BatchSize ==
  ASSUME NEW b \in Batches
  PROVE  /\ IsFiniteSet(b) /\ Cardinality(b) \in Nat
         /\ IsFiniteSet({SampleOf(r) : r \in b})
         /\ Cardinality({SampleOf(r) : r \in b}) = Cardinality(b)
<1> DEFINE id == [r \in b |-> r.id]
           New == {SampleOf(r) : r \in b}
           sample == [r \in b |-> SampleOf(r)]
<1>1. id \in Injection(b, Ids)
  BY DEF Batches, Row, Injection, IsInjective
<1>2. IsFiniteSet(b)
  BY <1>1, FS_Injection, IdsAssumption
<1>3. \A r, q \in b : SampleOf(r) = SampleOf(q) => r = q
  <2> SUFFICES ASSUME NEW r \in b, NEW q \in b, SampleOf(r) = SampleOf(q) PROVE r = q
    OBVIOUS
  <2>1. SampleOf(r).id = r.id /\ SampleOf(q).id = q.id
    BY DEF SampleOf
  <2> QED BY <2>1 DEF Batches
<1>4. sample \in [b -> New]
  OBVIOUS
<1>5. \A y \in New : \E r \in b : sample[r] = y
  OBVIOUS
<1>6. \A r, q \in b : sample[r] = sample[q] => r = q
  BY <1>3
<1> HIDE DEF sample, New
<1>7. sample \in Bijection(b, New)
  BY <1>4, <1>5, <1>6 DEF Bijection, Injection, Surjection, IsInjective
<1>8. ExistsBijection(b, New)
  BY <1>7 DEF ExistsBijection
<1> QED BY <1>2, <1>8, FS_Bijection, FS_CardinalityType DEF New

\* What InsertSamples adds, if it is applied.
LEMMA SamplesEffect ==
  ASSUME TypeOK, Backed, InsertSamples
  PROVE  LET New == {SampleOf(r) : r \in job.batch} IN
         /\ job.batch \in Batches
         /\ \/ samples' = samples /\ job'.pc # "onus"
            \/ samples' = samples \cup New
         /\ \A x \in New : x.time = job.at
         /\ \A r \in job.batch : SampleOf(r)' = SampleOf(r)
<1>1. job.batch \in Batches
  BY DEF Backed, InsertSamples, Recording
<1>2. job'.at = job.at /\ job'.pon = job.pon /\ (job'.pc # "onus" <=> job' = PonFails)
  BY DEF InsertSamples, PonFails, TypeOK, Job
<1>3. \/ samples' = samples /\ job'.pc # "onus"
      \/ samples' = samples \cup {SampleOf(r) : r \in job.batch}
  BY <1>2 DEF InsertSamples, Outcome
<1>4. \A r \in job.batch : SampleOf(r)' = SampleOf(r) /\ SampleOf(r).time = job.at
  BY <1>2 DEF SampleOf
<1> QED BY <1>1, <1>3, <1>4

\* What InsertStatusEvents adds, if it is applied, and what it tears when it fails.
LEMMA EventsEffect ==
  ASSUME TypeOK, Backed, InsertStatusEvents
  PROVE  LET New == {StatusEventFrom(r) : r \in {q \in job.batch : StatusChanged(q)}} IN
         /\ UNCHANGED <<onus, samples>>
         /\ \/ statusEvents' = statusEvents
            \/ /\ statusEvents' = statusEvents \cup New
               /\ job'.pc = "next" => torn' = torn \cup {e.serial : e \in New}
         /\ job'.pc # "next" => statusEvents' = statusEvents \cup New
         /\ \A e \in New : e.time = job.at
         /\ \A r \in job.batch : StatusChanged(r)' = StatusChanged(r)
                                 /\ StatusEventFrom(r)' = StatusEventFrom(r)
<1> DEFINE New == {StatusEventFrom(r) : r \in {q \in job.batch : StatusChanged(q)}}
<1>1. job'.at = job.at /\ (job'.pc = "next" <=> job' = PonFails) /\ PonFails # [job EXCEPT !.pc = "eth"]
  BY DEF InsertStatusEvents, PonFails, TypeOK, Job
<1>2. PICK ok, applied \in BOOLEAN :
        /\ ok => applied
        /\ statusEvents' = statusEvents \cup (IF applied THEN New ELSE {})
        /\ job' = IF ok THEN [job EXCEPT !.pc = "eth"] ELSE PonFails
        /\ IF ok THEN UNCHANGED torn
                 ELSE torn' = torn \cup {e.serial : e \in (IF applied THEN New ELSE {})}
  BY DEF InsertStatusEvents, Outcome, Tear
<1>3. UNCHANGED <<onus, samples>>
  BY DEF InsertStatusEvents
<1>4. \A e \in New : e.time = job.at
  BY DEF StatusEventFrom
<1>5. \A r \in job.batch : StatusChanged(r)' = StatusChanged(r)
                           /\ StatusEventFrom(r)' = StatusEventFrom(r)
  BY <1>1, <1>3 DEF StatusChanged, StatusEventFrom
<1> HIDE DEF New
<1>6. \/ statusEvents' = statusEvents
      \/ /\ statusEvents' = statusEvents \cup New
         /\ job'.pc = "next" => torn' = torn \cup {e.serial : e \in New}
  BY <1>1, <1>2
<1>7. job'.pc # "next" => statusEvents' = statusEvents \cup New
  BY <1>1, <1>2
<1> QED BY <1>3, <1>4, <1>5, <1>6, <1>7 DEF New

\* A row of the batch that an upsert loop applied is the identity from then on; one it
\* did not reach leaves the identity alone, and a loop that succeeds reaches them all.
LEMMA UpsertReach ==
  ASSUME TypeOK, Backed, UpsertONUs
  PROVE  \E done \in SUBSET job.batch :
           /\ job'.err = job.err => done = job.batch
           /\ job'.err # job.err => torn' = torn \cup (Logged \ {r.serial : r \in done})
           /\ \A r \in done : r.serial \in Serials => onus'[r.serial] = IdentityRow(onus[r.serial], r)
           /\ \A s \in Serials : s \notin {r.serial : r \in done} => onus'[s] = onus[s]
<1>1. PICK ok \in BOOLEAN, done \in Prefixes :
        /\ ok => done = job.batch
        /\ onus' = [k \in Serials |->
             IF \E r \in done : r.serial = k
               THEN IdentityRow(onus[k], CHOOSE r \in done : r.serial = k) ELSE onus[k]]
        /\ ~ok => job' = PonFails /\ torn' = torn \cup (Logged \ {r.serial : r \in done})
        /\ ok => job' = [job EXCEPT !.pc = "next", !.ok = @ + 1,
                                   !.sampled = @ + Cardinality(job.batch)]
  BY DEF UpsertONUs, Tear
<1>2. job.batch \in Batches /\ done \in SUBSET job.batch
  BY PrefixRows DEF UpsertONUs, Backed, Recording
<1>3. job'.err = job.err <=> ok
  <2>1. job \in Job /\ job.err \in Nat /\ job.err + 1 # job.err
    BY DEF TypeOK, Job
  <2>2. PonFails.err = job.err + 1
    BY <2>1 DEF PonFails, Job
  <2>3. ok => job'.err = job.err
    BY <1>1, <2>1 DEF Job
  <2> QED BY <1>1, <2>1, <2>2, <2>3
<1>4. \A r \in done : r.serial \in Serials => onus'[r.serial] = IdentityRow(onus[r.serial], r)
  <2> SUFFICES ASSUME NEW r \in done, r.serial \in Serials
               PROVE  onus'[r.serial] = IdentityRow(onus[r.serial], r)
    OBVIOUS
  <2> DEFINE q == CHOOSE x \in done : x.serial = r.serial
  <2>1. r = q
    BY <1>2, RowOfSerial
  <2>2. onus'[r.serial] = IdentityRow(onus[r.serial], q)
    BY <1>1
  <2> HIDE DEF q
  <2> QED BY <2>1, <2>2
<1>5. \A s \in Serials : s \notin {r.serial : r \in done} => onus'[s] = onus[s]
  BY <1>1
<1> QED BY <1>1, <1>2, <1>3, <1>4, <1>5

\* A sighting never goes back, and a poll that succeeds leaves every serial it saw with
\* an identity of its own time.
LEMMA Sightings ==
  ASSUME TypeOK, Backed, Clocked, [Next]_vars
  PROVE  /\ \A s \in Serials : onus'[s].seen >= onus[s].seen
         /\ UpsertONUs /\ job'.err = job.err =>
              \A r \in job.batch : r.serial # Blank => onus'[r.serial].seen = job.at
<1>1. ASSUME NEW s \in Serials PROVE onus'[s].seen >= onus[s].seen
  <2>1. onus[s].seen \in Nat /\ onus[s].seen <= clock
    BY DEF TypeOK, ONU, Clocked
  <2>2. CASE onus'[s] = onus[s]
    BY <2>1, <2>2
  <2>3. CASE onus'[s] # onus[s]
    <3>1. UpsertONUs
      BY <2>3, Writers
    <3>2. PICK r \in job.batch : onus'[s] = IdentityRow(onus[s], r)
      BY <2>3, <3>1, UpsertEffect
    <3>3. onus'[s].seen = job.at /\ job.at = clock
      BY <3>1, <3>2 DEF IdentityRow, Clocked, UpsertONUs, Recording
    <3> QED BY <2>1, <3>3
  <2> QED BY <2>2, <2>3
<1>2. ASSUME UpsertONUs, job'.err = job.err, NEW r \in job.batch, r.serial # Blank
      PROVE  onus'[r.serial].seen = job.at
  <2>1. r.serial \in Serials
    BY <1>2, BatchType DEF UpsertONUs, Recording
  <2>2. onus'[r.serial] = IdentityRow(onus[r.serial], r)
    BY <1>2, <2>1, UpsertReach
  <2> QED BY <2>2 DEF IdentityRow
<1> QED BY <1>1, <1>2

\* A row of collection_runs is a run.
LEMMA RunType ==
  ASSUME TypeOK, NEW i \in DOMAIN runs
  PROVE  runs[i] \in Run /\ runs[i].started \in Nat /\ runs[i].finished \in Nat
<1>1. runs \in Seq(Run)
  BY DEF TypeOK
<1>2. runs[i] \in Run
  BY <1>1, ElementOfSeq
<1> QED BY <1>2 DEF Run

\* A row of collection_runs is added open, and only the run under way is closed.
LEMMA RunsEffect ==
  ASSUME TypeOK, [Next]_vars, Open
  PROVE  /\ DOMAIN runs \subseteq DOMAIN runs'
         /\ \A i \in DOMAIN runs' :
              \/ i \in DOMAIN runs /\ runs'[i] = runs[i]
              \/ /\ InsertCollectionRun /\ i = Len(runs) + 1 /\ i \notin DOMAIN runs
                 /\ runs'[i] = NewRun(clock + 1)
              \/ /\ FinishCollectionRun /\ live = "serving" /\ i = job.id /\ job.id \in DOMAIN runs
                 /\ runs'[i] = [started |-> runs[i].started, finished |-> clock,
                                status |-> RunStatus, ok |-> job.ok, err |-> job.err,
                                sampled |-> job.sampled]
<1>1. runs \in Seq(Run) /\ clock \in Nat
  BY DEF TypeOK
<1>2. CASE runs' = runs
  BY <1>2
<1>3. CASE InsertCollectionRun /\ runs' # runs
  <2>1. runs' = Append(runs, NewRun(clock + 1))
    BY <1>3, BeginEffect
  <2>2. NewRun(clock + 1) \in Run
    BY <1>1 DEF NewRun, Run
  <2>3. /\ Len(runs') = Len(runs) + 1 /\ Len(runs) \in Nat
        /\ \A i \in 1..Len(runs) : runs'[i] = runs[i]
        /\ runs'[Len(runs) + 1] = NewRun(clock + 1)
        /\ DOMAIN runs = 1..Len(runs) /\ DOMAIN runs' = 1..Len(runs) + 1
    BY <1>1, <2>1, <2>2, AppendProperties, LenProperties
  <2> QED BY <1>3, <2>3
<1>4. CASE FinishCollectionRun /\ runs' # runs
  <2>1. job.id \in DOMAIN runs
    BY <1>4, FinishEffect DEF Open
  <2>2. /\ live = "serving"
        /\ runs' = [runs EXCEPT ![job.id] = [started |-> @.started, finished |-> clock,
                       status |-> RunStatus, ok |-> job.ok, err |-> job.err,
                       sampled |-> job.sampled]]
    BY <1>4, FinishEffect
  <2> DEFINE row == [started |-> runs[job.id].started, finished |-> clock,
                       status |-> RunStatus, ok |-> job.ok, err |-> job.err,
                       sampled |-> job.sampled]
  <2>3. DOMAIN runs' = DOMAIN runs /\ runs'[job.id] = row
    BY <2>1, <2>2
  <2>4. \A i \in DOMAIN runs : i # job.id => runs'[i] = runs[i]
    BY <2>2
  <2> QED BY <1>4, <2>1, <2>2, <2>3, <2>4
<1> QED BY <1>2, <1>3, <1>4, Writers

\* The times of what is stored stay behind the clock.
LEMMA ClockedStep ==
  ASSUME TypeOK, Backed, Clocked, Open, [Next]_vars PROVE Clocked'
<1>1. clock \in Nat /\ clock' >= clock /\ clock' \in Nat
  BY Writers, BeginEffect, WalkEffect DEF TypeOK
<1>2. IsFiniteSet(samples') /\ \A x \in samples' : x.time <= clock'
  <2>1. CASE samples' = samples
    <3>1. \A x \in samples : x.time \in Nat /\ x.time <= clock
      BY DEF TypeOK, Sample, Clocked
    <3> QED BY <1>1, <2>1, <3>1 DEF Clocked
  <2>2. CASE InsertSamples
    <3> DEFINE New == {SampleOf(r) : r \in job.batch}
    <3>1. IsFiniteSet(New)
      BY <2>2, SamplesEffect, BatchSize
    <3>2. IsFiniteSet(samples \cup New)
      BY <3>1, FS_Union DEF Clocked
    <3>3. clock' = clock /\ job.at = clock /\ \A x \in New : x.time = job.at
      BY <2>2, SamplesEffect DEF InsertSamples, Recording, Clocked
    <3>4. samples' = samples \/ samples' = samples \cup New
      BY <2>2, SamplesEffect
    <3> HIDE DEF New
    <3> QED BY <1>1, <3>2, <3>3, <3>4 DEF Clocked
  <2> QED BY <2>1, <2>2, Writers
<1>3. \A e \in statusEvents' : e.time <= clock'
  <2>1. CASE statusEvents' = statusEvents
    <3>1. \A x \in statusEvents : x.time \in Nat /\ x.time <= clock
      BY DEF TypeOK, StatusEvent, Clocked
    <3> QED BY <1>1, <2>1, <3>1
  <2>2. CASE InsertStatusEvents
    <3>1. clock' = clock /\ job.at = clock
      BY <2>2 DEF InsertStatusEvents, Recording, Clocked
    <3> QED BY <1>1, <2>2, <3>1, EventsEffect DEF Clocked
  <2> QED BY <2>1, <2>2, Writers
<1>4. \A s \in Serials : onus'[s].seen <= clock'
  <2> SUFFICES ASSUME NEW s \in Serials PROVE onus'[s].seen <= clock'
    OBVIOUS
  <2>1. CASE onus'[s] = onus[s]
    <3>1. onus[s].seen \in Nat /\ onus[s].seen <= clock
      BY DEF TypeOK, ONU, Clocked
    <3> QED BY <1>1, <2>1, <3>1
  <2>2. CASE onus'[s] # onus[s]
    <3>1. UpsertONUs
      BY <2>2, Writers
    <3>2. PICK r \in job.batch : onus'[s] = IdentityRow(onus[s], r)
      BY <2>2, <3>1, UpsertEffect
    <3>3. onus'[s].seen = job.at /\ job.at = clock /\ clock' = clock
      BY <3>1, <3>2 DEF IdentityRow, Clocked, UpsertONUs, Recording
    <3> QED BY <1>1, <3>3
  <2> QED BY <2>1, <2>2
<1>5. \A i \in DOMAIN runs' : Closed(i)' => runs'[i].finished <= clock'
  <2> SUFFICES ASSUME NEW i \in DOMAIN runs', Closed(i)' PROVE runs'[i].finished <= clock'
    OBVIOUS
  <2>1. CASE i \in DOMAIN runs /\ runs'[i] = runs[i]
    <3>1. runs[i].finished <= clock /\ runs[i].finished \in Nat
      BY <2>1, RunType DEF Clocked, Closed
    <3> QED BY <1>1, <2>1, <3>1
  <2>2. CASE runs'[i] = NewRun(clock + 1)
    BY <2>2 DEF NewRun, Closed
  <2>3. CASE FinishCollectionRun /\ runs'[i].finished = clock
    BY <1>1, <2>3, FinishEffect
  <2> QED BY <2>1, <2>2, <2>3, RunsEffect
<1>6. job'.pc \in Recording => job'.at = clock' /\ job'.at > 0
  <2>1. CASE Record
    BY <2>1, RecordEffect DEF Clocked
  <2>2. CASE CollectPONInventory
    BY <1>1, <2>2, WalkEffect
  <2>3. CASE ~Record /\ ~CollectPONInventory
    <3>1. job'.pc \in Recording => job' = job /\ clock' = clock
      BY <2>3, Steps, BeginEffect, PlaceEffect, FinishEffect, ProcessEffect DEF Recording
    <3> QED BY <3>1 DEF Clocked
  <2> QED BY <2>1, <2>2, <2>3
<1> QED BY <1>2, <1>3, <1>4, <1>5, <1>6 DEF Clocked

\* A step that begins no run and ends none keeps the run under way, and its row.
LEMMA SameRun ==
  ASSUME TypeOK, Backed, [Next]_vars, job'.pc # "idle", ~InsertCollectionRun
  PROVE  /\ job.pc # "idle" /\ job'.id = job.id /\ runs' = runs
         /\ ~FinishCollectionRun
<1>1. CASE Record
  BY <1>1, RecordEffect, FinishEffect DEF Recording
<1>2. CASE CollectPONInventory
  BY <1>2, WalkEffect, FinishEffect
<1>3. CASE UpsertDevice \/ Interrupted \/ DiscoverUnconfigured
  BY <1>3, PlaceEffect, FinishEffect
<1>4. CASE FinishCollectionRun
  BY <1>4, FinishEffect
<1>5. CASE CloseStore \/ CancelContext \/ Restart \/ UNCHANGED vars
  BY <1>5, ProcessEffect, FinishEffect
<1> QED BY <1>1, <1>2, <1>3, <1>4, <1>5, Steps

\* The run under way keeps its open row, and stays younger than every closed one.
LEMMA OpenStep ==
  ASSUME TypeOK, Backed, Clocked, Open, [Next]_vars PROVE Open'
<1> SUFFICES ASSUME job'.pc # "idle"
             PROVE  /\ job'.id \in DOMAIN runs' /\ ~Closed(job.id)' /\ runs'[job'.id].started <= clock'
                    /\ \A i \in DOMAIN runs' : Closed(i)' => runs'[i].finished < runs'[job'.id].started
                    /\ job'.pc \in Recording => runs'[job'.id].started < job'.at
  BY DEF Open
<1>1. clock \in Nat /\ clock' >= clock /\ clock' \in Nat
  BY Writers, BeginEffect, WalkEffect DEF TypeOK
<1>2. CASE InsertCollectionRun
  <2>1. /\ job'.id = Len(runs) + 1 /\ job'.pc = "device" /\ clock' = clock + 1
        /\ runs' = Append(runs, NewRun(clock + 1)) /\ runs \in Seq(Run)
    BY <1>2, BeginEffect DEF TypeOK
  <2>2. NewRun(clock + 1) \in Run
    BY <1>1 DEF NewRun, Run
  <2>3. job'.id \in DOMAIN runs' /\ runs'[job'.id] = NewRun(clock + 1)
    BY <2>1, <2>2, AppendProperties, LenProperties
  <2>4. ASSUME NEW i \in DOMAIN runs', Closed(i)' PROVE runs'[i].finished < clock + 1
    <3>1. runs'[i] # NewRun(clock + 1)
      BY <2>4 DEF NewRun, Closed
    <3>2. ~FinishCollectionRun
      BY <1>2, BeginEffect, FinishEffect
    <3>3. i \in DOMAIN runs /\ runs'[i] = runs[i]
      BY <3>1, <3>2, RunsEffect
    <3>4. runs[i].finished <= clock /\ runs[i].finished \in Nat
      BY <2>4, <3>3, RunType DEF Clocked, Closed
    <3> QED BY <1>1, <3>3, <3>4
  <2>5. NewRun(clock + 1).started = clock + 1 /\ NewRun(clock + 1).status = "running"
    BY DEF NewRun
  <2> QED BY <1>1, <2>1, <2>3, <2>4, <2>5 DEF Closed, Recording
<1>3. CASE ~InsertCollectionRun
  <2>1. job.pc # "idle" /\ job'.id = job.id /\ runs' = runs
    BY <1>3, SameRun
  <2>2. /\ job.id \in DOMAIN runs /\ ~Closed(job.id) /\ runs[job.id].started <= clock
        /\ \A i \in DOMAIN runs : Closed(i) => runs[i].finished < runs[job.id].started
        /\ runs[job.id].started \in Nat
    BY <2>1, RunType DEF Open
  <2>3. ASSUME job'.pc \in Recording PROVE runs[job.id].started < job'.at
    <3>1. CASE Record
      BY <3>1, <2>1, RecordEffect DEF Open
    <3>2. CASE CollectPONInventory
      BY <1>1, <2>2, <3>2, WalkEffect
    <3>3. CASE ~Record /\ ~CollectPONInventory
      <4>1. job' = job
        BY <1>3, <2>3, <3>3, Steps, PlaceEffect, FinishEffect, ProcessEffect DEF Recording
      <4> QED BY <2>1, <2>3, <4>1 DEF Open
    <3> QED BY <3>1, <3>2, <3>3
  <2> QED BY <1>1, <2>1, <2>2, <2>3 DEF Closed
<1> QED BY <1>2, <1>3

\* Until the poll stores its own samples, none has its time.
LEMMA FreshStep ==
  ASSUME TypeOK, Backed, Clocked, Fresh, [Next]_vars PROVE Fresh'
<1>1. \A x \in samples : x.time \in Nat /\ x.time <= clock
  BY DEF TypeOK, Sample, Clocked
<1>2. CASE Record
  <2>1. CASE job'.pc \in Recording
    <3>1. /\ job.pc \in Recording \ {"onus"} /\ job'.at = job.at /\ job'.batch = job.batch
          /\ job'.pc = "onus" <=> job.pc = "samples"
      BY <1>2, <2>1, RecordEffect DEF Recording
    <3>2. \A x \in samples : x.time < job.at
      BY <3>1 DEF Fresh
    <3>3. CASE InsertSamples
      <4>1. /\ \A r \in job.batch : SampleOf(r)' = SampleOf(r)
            /\ samples' \subseteq samples \cup {SampleOf(r) : r \in job.batch}
        BY <3>3, SamplesEffect
      <4>2. job'.pc = "onus"
        BY <3>1, <3>3 DEF InsertSamples
      <4>3. \A x \in samples' : x.time < job'.at \/ \E r \in job'.batch : x = SampleOf(r)'
        BY <3>1, <3>2, <4>1
      <4> QED BY <4>2, <4>3 DEF Fresh, Recording
    <3>4. CASE ~InsertSamples
      <4>1. samples' = samples
        BY <3>4, Writers
      <4> QED BY <3>1, <3>2, <4>1 DEF Fresh
    <3> QED BY <3>3, <3>4
  <2>2. CASE job'.pc \notin Recording
    BY <2>2 DEF Fresh, Recording
  <2> QED BY <2>1, <2>2
<1>3. CASE CollectPONInventory
  <2>1. samples' = samples /\ job'.at = clock + 1 /\ clock \in Nat /\ job'.pc # "onus"
    BY <1>3, WalkEffect DEF logs, TypeOK
  <2>2. \A x \in samples' : x.time < job'.at
    BY <1>1, <2>1
  <2> QED BY <2>1, <2>2 DEF Fresh
<1>4. CASE ~Record /\ ~CollectPONInventory
  <2>1. job'.pc \notin Recording \/ (job' = job /\ samples' = samples)
    BY <1>4, Steps, BeginEffect, PlaceEffect, FinishEffect, ProcessEffect DEF Recording, logs
  <2>2. CASE job'.pc \notin Recording
    BY <2>2 DEF Fresh, Recording
  <2>3. CASE job' = job /\ samples' = samples
    BY <2>3 DEF Fresh, SampleOf
  <2> QED BY <2>1, <2>2, <2>3
<1> QED BY <1>2, <1>3, <1>4

\* The samples of the run under way: a step stores none of them but InsertSamples, which
\* adds one for each row of the batch if it is applied.
LEMMA CurrentEffect ==
  ASSUME TypeOK, Backed, Clocked, Open, Fresh, [Next]_vars,
         job'.pc # "idle", ~InsertCollectionRun
  PROVE  /\ IsFiniteSet(Current) /\ Cardinality(Current) \in Nat
         /\ ~InsertSamples => Current' = Current
         /\ InsertSamples =>
              LET New == {SampleOf(r) : r \in job.batch} IN
              /\ Cardinality(job.batch) \in Nat
              /\ \/ Current' = Current /\ job'.pc # "onus"
                 \/ /\ Current' = Current \cup New
                    /\ Cardinality(Current') = Cardinality(Current) + Cardinality(job.batch)
<1>1. job.pc # "idle" /\ job'.id = job.id /\ runs' = runs
  BY SameRun
<1>2. IsFiniteSet(Current) /\ Cardinality(Current) \in Nat
  <2>1. Current \in SUBSET samples
    BY DEF Current
  <2> QED BY <2>1, FS_Subset, FS_CardinalityType DEF Clocked
<1>3. CASE ~InsertSamples
  <2>1. samples' = samples
    BY <1>3, Writers
  <2> QED BY <1>1, <1>2, <1>3, <2>1 DEF Current
<1>4. CASE InsertSamples
  <2> DEFINE New == {SampleOf(r) : r \in job.batch}
  <2>1. /\ job.batch \in Batches /\ \A x \in New : x.time = job.at
        /\ \/ samples' = samples /\ job'.pc # "onus"
           \/ samples' = samples \cup New
    BY <1>4, SamplesEffect
  <2>2. /\ IsFiniteSet(New) /\ Cardinality(New) = Cardinality(job.batch)
        /\ Cardinality(job.batch) \in Nat
    BY <2>1, BatchSize
  <2>3. job.pc = "samples" /\ runs[job.id].started < job.at
    BY <1>1, <1>4 DEF InsertSamples, Open, Recording
  <2>4. /\ job.at \in Nat /\ runs[job.id].started \in Nat
        /\ \A x \in samples : x.time \in Nat /\ x.time < job.at
    BY <1>1, <2>3, RunType DEF TypeOK, Job, Sample, Open, Fresh, Recording
  <2> HIDE DEF New
  <2>5. \A x \in New : runs[job.id].started <= x.time
    BY <2>1, <2>3, <2>4
  <2>6. samples' = samples => Current' = Current
    BY <1>1 DEF Current
  <2>7. samples' = samples \cup New => Current' = Current \cup New
    BY <1>1, <2>5 DEF Current
  <2>8. Current \cap New = {}
    BY <2>1, <2>4 DEF Current
  <2>9. Cardinality(Current \cup New) = Cardinality(Current) + Cardinality(New)
    <3>1. Cardinality(Current \cup New)
            = Cardinality(Current) + Cardinality(New) - Cardinality(Current \cap New)
      BY <1>2, <2>2, FS_Union
    <3>2. Cardinality(Current \cap New) = 0
      BY <2>8, FS_EmptySet
    <3> QED BY <1>2, <2>2, <3>1, <3>2
  <2>10. \/ Current' = Current /\ job'.pc # "onus"
         \/ /\ Current' = Current \cup New
            /\ Cardinality(Current') = Cardinality(Current) + Cardinality(job.batch)
    BY <2>1, <2>2, <2>6, <2>7, <2>9
  <2> QED BY <1>2, <1>4, <2>2, <2>10 DEF New
<1> QED BY <1>3, <1>4

\* A run that begins has no sample yet.
LEMMA FirstSamples ==
  ASSUME TypeOK, Backed, Clocked, InsertCollectionRun, job'.pc # "idle"
  PROVE  Current' = {} /\ Cardinality(Current') = 0
<1>1. /\ job'.id = Len(runs) + 1 /\ clock \in Nat /\ runs \in Seq(Run)
      /\ runs' = Append(runs, NewRun(clock + 1)) /\ samples' = samples
  BY BeginEffect DEF TypeOK, logs
<1>2. NewRun(clock + 1) \in Run /\ NewRun(clock + 1).started = clock + 1
  BY <1>1 DEF NewRun, Run
<1>3. runs'[job'.id].started = clock + 1
  BY <1>1, <1>2, AppendProperties
<1>4. \A x \in samples : x.time \in Nat /\ x.time <= clock
  BY DEF TypeOK, Sample, Clocked
<1>5. Current' = {}
  BY <1>1, <1>3, <1>4 DEF Current
<1> QED BY <1>5, FS_EmptySet

\* The counter of the run stays with its samples.
LEMMA CountsStep ==
  ASSUME TypeOK, Backed, Clocked, Open, Fresh, Counts, [Next]_vars PROVE Counts'
<1> SUFFICES ASSUME job'.pc # "idle"
             PROVE  /\ job'.sampled + Pending' <= Cardinality(Current')
                    /\ job'.err = 0 =>
                         /\ job'.sampled + Pending' = Cardinality(Current')
                         /\ \A x \in Current' : x.serial # Blank =>
                              \/ onus'[x.serial].seen >= x.time
                              \/ job'.pc = "onus" /\ x.time = job'.at
  BY DEF Counts
<1>1. CASE InsertCollectionRun
  <2>1. Current' = {} /\ Cardinality(Current') = 0 /\ job'.sampled = 0 /\ job'.pc = "device"
    BY <1>1, FirstSamples, BeginEffect
  <2>2. Pending' = 0
    BY <2>1 DEF Pending
  <2> QED BY <2>1, <2>2
<1>2. CASE ~InsertCollectionRun
  <2>1. /\ job.pc # "idle" /\ job'.id = job.id /\ runs' = runs
        /\ Cardinality(Current) \in Nat /\ ~FinishCollectionRun
        /\ ~InsertSamples => Current' = Current
    BY <1>2, SameRun, CurrentEffect
  <2>2. job.sampled \in Nat /\ job.err \in Nat /\ job.ok \in Nat
    BY DEF TypeOK, Job
  <2>3. \A x \in samples : x.time \in Nat /\ (x.serial # Blank => x.serial \in Serials)
    BY DEF TypeOK, Sample, Keys
  <2>4. \A s \in Serials : /\ onus'[s].seen >= onus[s].seen
                           /\ onus[s].seen \in Nat /\ onus'[s].seen \in Nat
    BY Sightings, TypeStep DEF TypeOK, ONU
  <2>5. job.err = 0 => \A x \in Current : x.serial # Blank =>
          onus'[x.serial].seen >= x.time \/ (job.pc = "onus" /\ x.time = job.at)
    BY <2>1, <2>3, <2>4 DEF Counts, Current
  <2>6. CASE InsertSamples
    <3> DEFINE New == {SampleOf(r) : r \in job.batch}
    <3>1. /\ job.pc = "samples" /\ job'.sampled = job.sampled
          /\ \/ job'.pc = "next" /\ job'.err = job.err + 1
             \/ job'.pc = "onus" /\ job'.err = job.err /\ job'.at = job.at
      BY <2>6, RecordEffect DEF Record, InsertSamples
    <3>2. /\ Cardinality(job.batch) \in Nat
          /\ \/ Current' = Current /\ job'.pc # "onus"
             \/ /\ Current' = Current \cup New
                /\ Cardinality(Current') = Cardinality(Current) + Cardinality(job.batch)
          /\ \A x \in New : x.time = job.at
          /\ job'.batch = job.batch
      BY <1>2, <2>6, CurrentEffect, SamplesEffect, RecordEffect DEF Record
    <3> HIDE DEF New
    <3>3. Pending = 0 /\ Pending' = IF job'.pc = "onus" THEN Cardinality(job.batch) ELSE 0
      BY <3>1, <3>2 DEF Pending
    <3>4. CASE job'.pc = "next"
      BY <2>1, <2>2, <3>1, <3>2, <3>3, <3>4 DEF Counts
    <3>5. CASE job'.pc = "onus"
      <4>1. job.err = 0 => \A x \in Current \cup New : x.serial # Blank =>
              onus'[x.serial].seen >= x.time \/ x.time = job.at
        BY <2>5, <3>2
      <4> QED BY <2>1, <2>2, <3>1, <3>2, <3>3, <3>5, <4>1 DEF Counts
    <3> QED BY <3>1, <3>4, <3>5
  <2>7. CASE UpsertONUs
    <3>1. /\ job.pc = "onus" /\ job'.pc = "next" /\ job.batch \in Batches
          /\ \/ job'.err = job.err + 1 /\ job'.sampled = job.sampled
             \/ job'.err = job.err /\ job'.sampled = job.sampled + Cardinality(job.batch)
      BY <2>7, RecordEffect DEF Record, UpsertONUs, Backed, Recording
    <3>2. Cardinality(job.batch) \in Nat /\ Current' = Current
      BY <2>1, <2>7, <3>1, BatchSize, Writers DEF UpsertONUs, InsertSamples
    <3>3. Pending = Cardinality(job.batch) /\ Pending' = 0
      BY <3>1 DEF Pending
    <3>4. CASE job'.err = job.err + 1
      BY <2>1, <2>2, <3>1, <3>2, <3>3, <3>4 DEF Counts
    <3>5. CASE job'.err = job.err
      <4>1. ASSUME job.err = 0, NEW x \in Current, x.serial # Blank
            PROVE  onus'[x.serial].seen >= x.time
        <5>1. onus'[x.serial].seen >= x.time \/ x.time = job.at
          BY <2>5, <4>1
        <5>2. CASE x.time = job.at
          <6>1. x \in samples /\ ~(x.time < job.at) /\ job.at \in Nat
            BY <5>2 DEF Current, TypeOK, Job
          <6>2. PICK r \in job.batch : x = SampleOf(r)
            BY <3>1, <6>1 DEF Fresh
          <6>3. onus'[x.serial].seen = job.at
            BY <2>7, <3>5, <4>1, <6>2, Sightings DEF SampleOf
          <6> QED BY <5>2, <6>1, <6>3
        <5> QED BY <5>1, <5>2
      <4> QED BY <2>1, <2>2, <3>1, <3>2, <3>3, <3>5, <4>1 DEF Counts
    <3> QED BY <3>1, <3>4, <3>5
  <2>8. CASE ~InsertSamples /\ ~UpsertONUs
    <3>1. /\ job'.sampled = job.sampled
          /\ job'.err = job.err \/ job'.err = job.err + 1
          /\ \/ job.pc # "onus" /\ job'.pc # "onus"
             \/ job' = job
      <4>1. CASE Record
        BY <2>8, <4>1, RecordEffect DEF Record, InsertStatusEvents, InsertEthEvents, UpsertEthState
      <4>2. CASE ~Record
        BY <1>2, <2>1, <4>2, Steps, WalkEffect, PlaceEffect, ProcessEffect
      <4> QED BY <4>1, <4>2
    <3>2. Pending' = Pending /\ Current' = Current
      BY <2>1, <2>8, <3>1 DEF Pending
    <3>3. job'.err = 0 => job.err = 0
      BY <2>2, <3>1
    <3> QED BY <2>1, <2>5, <3>1, <3>2, <3>3 DEF Counts
  <2> QED BY <2>6, <2>7, <2>8
<1> QED BY <1>1, <1>2

\* The PONs stay accounted for.
LEMMA WalkedStep ==
  ASSUME TypeOK, Backed, Clocked, Open, Fresh, Walked, [Next]_vars PROVE Walked'
<1> SUFFICES ASSUME job'.pc # "idle"
             PROVE  /\ job'.pc = "device" => Current' = {} /\ job'.pon = 0
                    /\ job'.failed => job'.pc = "finish" /\ (Current' = {} \/ live' # "serving")
                    /\ job'.ok + job'.err + (IF job'.pc \in Recording THEN 1 ELSE 0) = job'.pon
                    /\ job'.pc = "finish" /\ ~job'.failed => job'.pon = NumPons
                    /\ job'.pon <= NumPons
  BY DEF Walked
<1>1. /\ job.ok \in Nat /\ job.err \in Nat /\ job.pon \in Nat /\ NumPons \in Nat
  BY BoundsAssumption DEF TypeOK, Job
<1>2. CASE InsertCollectionRun
  BY <1>1, <1>2, BeginEffect, FirstSamples DEF Recording
<1>3. CASE Record
  <2>1. /\ job.pc \in Recording /\ job'.failed = job.failed /\ job'.pon = job.pon
        /\ \/ job'.pc = "next" /\ job'.err = job.err + 1 /\ job'.ok = job.ok
           \/ job'.pc \in Recording /\ job'.err = job.err /\ job'.ok = job.ok
           \/ job'.pc = "next" /\ job'.err = job.err /\ job'.ok = job.ok + 1
    BY <1>3, RecordEffect
  <2> QED BY <1>1, <2>1 DEF Walked, Recording
<1>4. CASE CollectPONInventory
  BY <1>1, <1>4, WalkEffect DEF Walked, Recording
<1>5. CASE UpsertDevice \/ Interrupted \/ DiscoverUnconfigured
  <2>1. Current' = Current
    BY <1>5, PlaceEffect DEF Current, logs
  <2> QED BY <1>1, <1>5, <2>1, PlaceEffect DEF Walked, Recording
<1>6. CASE FinishCollectionRun
  BY <1>6, FinishEffect
<1>7. CASE CloseStore \/ CancelContext \/ Restart \/ UNCHANGED vars
  <2>1. job' = job /\ (live' = live \/ live' # "serving") /\ Current' = Current
    BY <1>7, ProcessEffect DEF Current, logs
  <2> QED BY <2>1 DEF Walked
<1> QED BY <1>2, <1>3, <1>4, <1>5, <1>6, <1>7, Steps

\* The window of a closed run is complete: later samples are younger than its end.
LEMMA WindowsClosed ==
  ASSUME TypeOK, Backed, Clocked, Open, Fresh, [Next]_vars,
         NEW i \in DOMAIN runs, Closed(i)
  PROVE  Window(runs[i])' = Window(runs[i]) \/ runs'[i] # runs[i]
<1> SUFFICES ASSUME runs'[i] = runs[i]
             PROVE  {x \in samples' : runs[i].started <= x.time /\ x.time <= runs[i].finished}
                      = {x \in samples : runs[i].started <= x.time /\ x.time <= runs[i].finished}
  BY DEF Window
<1>1. CASE samples' = samples
  BY <1>1
<1>2. CASE InsertSamples
  <2>1. job.pc = "samples"
    BY <1>2 DEF InsertSamples
  <2>2. runs[i].finished < runs[job.id].started /\ runs[job.id].started < job.at
    BY <2>1 DEF Open, Recording
  <2>3. job.id \in DOMAIN runs
    BY <2>1 DEF Open
  <2>4. runs[i].finished \in Nat /\ runs[job.id].started \in Nat /\ job.at \in Nat
    BY <2>3, RunType DEF TypeOK, Job
  <2> DEFINE New == {SampleOf(r) : r \in job.batch}
  <2>5. \A x \in New : x.time = job.at
    BY <1>2, SamplesEffect
  <2>6. samples' = samples \/ samples' = samples \cup New
    BY <1>2, SamplesEffect
  <2> HIDE DEF New
  <2>7. \A x \in New : ~(x.time <= runs[i].finished)
    BY <2>2, <2>4, <2>5
  <2> QED BY <2>6, <2>7
<1> QED BY <1>1, <1>2, Writers

\* What finished runs say stays true, and is true of the run that finishes.
LEMMA RunsStep ==
  ASSUME TypeOK, Backed, RunInv, RunsAccountForSamples, [Next]_vars
  PROVE  RunsAccountForSamples'
<1> USE DEF RunInv
<1>1. \A x \in samples' : x.time \in Nat /\ (x.serial # Blank => x.serial \in Serials)
  BY TypeStep DEF TypeOK, Sample, Keys
<1>2. \A s \in Serials : /\ onus'[s].seen >= onus[s].seen
                         /\ onus[s].seen \in Nat /\ onus'[s].seen \in Nat
  BY Sightings, TypeStep DEF TypeOK, ONU
<1> SUFFICES ASSUME NEW i \in DOMAIN runs', Closed(i)'
             PROVE  /\ runs'[i].sampled <= Cardinality(Window(runs[i])')
                    /\ runs'[i].status = "ok" =>
                         /\ runs'[i].ok = NumPons /\ runs'[i].err = 0
                         /\ runs'[i].sampled = Cardinality(Window(runs[i])')
                         /\ \A x \in Window(runs[i])' :
                              x.serial # Blank => onus'[x.serial].seen >= x.time
                    /\ runs'[i].status = "partial" =>
                         runs'[i].err > 0 /\ runs'[i].ok + runs'[i].err = NumPons
                    /\ runs'[i].status = "error" => Window(runs[i])' = {}
  BY DEF RunsAccountForSamples, Closed, Window
<1>3. CASE i \in DOMAIN runs /\ runs'[i] = runs[i]
  <2>1. Closed(i) /\ Window(runs[i])' = Window(runs[i])
    BY <1>3, WindowsClosed DEF Closed
  <2>2. ASSUME runs[i].status = "ok", NEW x \in Window(runs[i])', x.serial # Blank
        PROVE  onus'[x.serial].seen >= x.time
    <3>1. x \in samples' /\ onus[x.serial].seen >= x.time
      BY <1>3, <2>1, <2>2 DEF RunsAccountForSamples, Window
    <3> QED BY <1>1, <1>2, <2>2, <3>1
  <2>3. /\ runs[i].sampled <= Cardinality(Window(runs[i]))
        /\ runs[i].status = "ok" =>
             /\ runs[i].ok = NumPons /\ runs[i].err = 0
             /\ runs[i].sampled = Cardinality(Window(runs[i]))
        /\ runs[i].status = "partial" => runs[i].err > 0 /\ runs[i].ok + runs[i].err = NumPons
        /\ runs[i].status = "error" => Window(runs[i]) = {}
    BY <1>3, <2>1 DEF RunsAccountForSamples, Closed
  <2> QED BY <1>3, <2>1, <2>2, <2>3
<1>4. CASE runs'[i] = NewRun(clock + 1)
  BY <1>4 DEF NewRun, Closed
<1>5. CASE /\ FinishCollectionRun /\ live = "serving" /\ i = job.id /\ job.id \in DOMAIN runs
           /\ runs'[i] = [started |-> runs[i].started, finished |-> clock,
                          status |-> RunStatus, ok |-> job.ok, err |-> job.err,
                          sampled |-> job.sampled]
  <2>1. /\ job.pc = "finish" /\ samples' = samples /\ onus' = onus
    BY <1>5, FinishEffect DEF logs
  <2>2. /\ runs'[i].started = runs[job.id].started /\ runs'[i].finished = clock
        /\ runs'[i].status = RunStatus /\ runs'[i].ok = job.ok /\ runs'[i].err = job.err
        /\ runs'[i].sampled = job.sampled
    BY <1>5
  <2>3. Window(runs[i])' = Current
    <3>1. Window(runs[i])' = {x \in samples : runs[job.id].started <= x.time /\ x.time <= clock}
      BY <2>1, <2>2 DEF Window
    <3> QED BY <3>1 DEF Current, Clocked
  <2>4. Pending = 0 /\ job.pc # "idle" /\ job.pc \notin Recording
    BY <2>1 DEF Pending, Recording
  <2>5. job.sampled \in Nat /\ job.err \in Nat /\ job.ok \in Nat /\ NumPons \in Nat
    BY BoundsAssumption DEF TypeOK, Job
  <2>6. job.ok + job.err = job.pon /\ (~job.failed => job.pon = NumPons)
    BY <2>1, <2>4, <2>5 DEF Walked
  <2>7. /\ job.sampled <= Cardinality(Current)
        /\ job.err = 0 =>
             /\ job.sampled = Cardinality(Current)
             /\ \A x \in Current : x.serial # Blank => onus[x.serial].seen >= x.time
    BY <2>1, <2>4, <2>5 DEF Counts
  <2>8. job.failed => Current = {}
    BY <1>5, <2>4 DEF Walked
  <2>9. /\ RunStatus = "ok" => ~job.failed /\ job.err = 0
        /\ RunStatus = "partial" => ~job.failed /\ job.err > 0
        /\ RunStatus = "error" => job.failed
    BY <2>5 DEF RunStatus
  <2> QED BY <2>1, <2>2, <2>3, <2>5, <2>6, <2>7, <2>8, <2>9
<1> QED BY <1>3, <1>4, <1>5, RunsEffect

\* The runs hold together from the start.
LEMMA RunInit == Init => RunInv /\ RunsAccountForSamples
<1> SUFFICES ASSUME Init PROVE RunInv /\ RunsAccountForSamples
  OBVIOUS
<1>1. DOMAIN runs = {} /\ job.pc = "idle" /\ samples = {} /\ statusEvents = {}
      /\ clock = 0 /\ \A s \in Serials : onus[s].seen = 0
  <2>1. runs = <<>> /\ DOMAIN <<>> = {}
    BY DEF Init
  <2>2. job.pc = "idle" /\ samples = {} /\ statusEvents = {} /\ clock = 0
    BY DEF Init, Idle
  <2>3. \A s \in Serials : onus[s].seen = 0
    BY DEF Init, NoONU
  <2> QED BY <2>1, <2>2, <2>3
<1>2. Clocked /\ Open /\ Fresh /\ Counts /\ Walked
  BY <1>1, FS_EmptySet DEF Clocked, Open, Fresh, Counts, Walked, Recording
<1>3. RunsAccountForSamples
  BY <1>1 DEF RunsAccountForSamples
<1> QED BY <1>2, <1>3 DEF RunInv

\* Every step keeps them together.
LEMMA RunInvStep ==
  IInv /\ RunInv /\ RunsAccountForSamples /\ [Next]_vars => (RunInv /\ RunsAccountForSamples)'
BY ClockedStep, OpenStep, FreshStep, CountsStep, WalkedStep, RunsStep DEF IInv, RunInv

\* Of every run the poller has closed, the counters, the status and the samples of its
\* time window agree: whatever statement failed and wherever the process stopped, "ok"
\* counts exactly, "partial" accounts for every PON, and "error" sampled nothing.
THEOREM RunsAccounted == Spec => []RunsAccountForSamples
<1>1. Spec => [](RunInv /\ RunsAccountForSamples)
  BY RunInit, RunInvStep, Invariance, PTL DEF Spec
<1> QED BY <1>1, PTL

-----------------------------------------------------------------------------
(***************************************************************************)
(* The status log: what is known of the events of the PON being recorded,  *)
(* and of the newest event of an ONU none of whose polls stopped half way. *)
(***************************************************************************)
\* An ONU never seen has no state.
Unseen == \A s \in Serials : onus[s].seen = 0 => onus[s].status = ""

\* The events of the time of the poll are those of its own changed rows.
OwnEvents ==
  /\ job.pc = "status" => \A e \in statusEvents : e.time < job.at
  /\ job.pc \in Recording \ {"status"} => \A e \in statusEvents :
       e.time < job.at \/ \E r \in job.batch : StatusChanged(r) /\ e = StatusEventFrom(r)

\* The events of a serial without those of the poll under way.
Settled(s) == {e \in StatusLog(s) : job.pc \in Recording => e.time < job.at}

\* The log ends in the state the identity shows.
Follows(s) ==
  IF Settled(s) = {} THEN onus[s].status = ""
  ELSE \E x \in Settled(s) :
         x.status = onus[s].status /\ \A y \in Settled(s) : y.time <= x.time

ChainInv == Unseen /\ OwnEvents /\ \A s \in Serials \ torn : Follows(s)

\* What fails with events logged tears their serials, and the end of the process too.
LEMMA Torn ==
  ASSUME TypeOK, Backed, [Next]_vars, job.pc \in Recording, job'.pc \notin Recording
  PROVE  \/ UpsertONUs
         \/ InsertStatusEvents
         \/ torn' = torn \cup Logged /\ UNCHANGED <<statusEvents, onus>>
<1>1. job \in Job /\ \A x \in Recording : [job EXCEPT !.pc = x].pc \in Recording
  BY DEF TypeOK, Job
<1>2. CASE InsertEthEvents
  BY <1>1, <1>2 DEF InsertEthEvents, Tear, Recording
<1>3. CASE UpsertEthState
  BY <1>1, <1>3 DEF UpsertEthState, Tear, Recording, logs
<1>4. CASE InsertSamples
  BY <1>1, <1>4 DEF InsertSamples, Tear, Recording
<1>5. CASE Restart
  BY <1>5 DEF Restart, Tear, logs
<1>6. CASE ~Record /\ ~Restart
  <2>1. job.pc \notin {"idle", "device", "next", "finish"}
    BY DEF Recording
  <2>2. CASE UNCHANGED vars
    BY <2>2 DEF vars
  <2>3. CASE ~UNCHANGED vars
    BY <1>6, <2>1, <2>3, Steps DEF InsertCollectionRun, CollectPONInventory, UpsertDevice,
       Interrupted, DiscoverUnconfigured, FinishCollectionRun, CloseStore, CancelContext
  <2> QED BY <2>2, <2>3
<1> QED BY <1>2, <1>3, <1>4, <1>5, <1>6 DEF Record

\* A stage that a recording poll reaches, or keeps, without ending.
LEMMA StillRecording ==
  ASSUME TypeOK, Backed, [Next]_vars, job'.pc \in Recording
  PROVE  \/ CollectPONInventory
         \/ /\ job.pc \in Recording /\ job'.at = job.at /\ job'.batch = job.batch
            /\ onus' = onus /\ (job'.pc = "status" => job.pc = "status")
            /\ \/ InsertStatusEvents /\ job'.pc # "status"
               \/ statusEvents' = statusEvents /\ (job.pc = "status" => job'.pc = "status")
<1>1. CASE Record
  <2>1. /\ job.pc \in Recording /\ job.pc # "onus" /\ job'.pc # "status"
        /\ job'.at = job.at /\ job'.batch = job.batch
    BY <1>1, RecordEffect DEF Recording
  <2>2. onus' = onus
    BY <2>1, Writers DEF UpsertONUs
  <2>3. ~InsertStatusEvents => statusEvents' = statusEvents /\ job.pc # "status"
    BY <1>1, Writers DEF Record, InsertEthEvents, UpsertEthState, InsertSamples, UpsertONUs
  <2> QED BY <1>1, <2>1, <2>2, <2>3
<1>2. CASE ~Record /\ ~CollectPONInventory
  <2>1. job' = job /\ onus' = onus /\ statusEvents' = statusEvents
    BY <1>2, Steps, BeginEffect, PlaceEffect, FinishEffect, ProcessEffect DEF Recording, logs
  <2> QED BY <2>1
<1> QED BY <1>1, <1>2

\* A row of an identity is that of a sighting.
LEMMA UnseenStep ==
  ASSUME TypeOK, Backed, Clocked, Unseen, [Next]_vars PROVE Unseen'
<1> SUFFICES ASSUME NEW s \in Serials, onus'[s].seen = 0 PROVE onus'[s].status = ""
  BY DEF Unseen
<1>1. CASE onus'[s] = onus[s]
  BY <1>1 DEF Unseen
<1>2. CASE onus'[s] # onus[s]
  <2>1. UpsertONUs
    BY <1>2, Writers
  <2>2. PICK r \in job.batch : onus'[s] = IdentityRow(onus[s], r)
    BY <1>2, <2>1, UpsertEffect
  <2>3. job.at # 0
    BY <2>1 DEF Clocked, UpsertONUs, Recording, TypeOK, Job
  <2>4. onus'[s].seen = job.at
    BY <2>2 DEF IdentityRow
  <2> QED BY <2>3, <2>4
<1> QED BY <1>1, <1>2

\* The events of the time of the poll stay its own.
LEMMA OwnEventsStep ==
  ASSUME TypeOK, Backed, Clocked, OwnEvents, [Next]_vars PROVE OwnEvents'
<1>1. CASE job'.pc \notin Recording
  BY <1>1 DEF OwnEvents, Recording
<1>2. CASE CollectPONInventory
  <2>1. /\ statusEvents' = statusEvents /\ job'.at = clock + 1 /\ clock \in Nat
        /\ job'.pc \in {"next", "status"}
    BY <1>2, WalkEffect DEF logs, TypeOK
  <2>2. \A e \in statusEvents : e.time \in Nat /\ e.time <= clock
    BY DEF TypeOK, StatusEvent, Clocked
  <2>3. \A e \in statusEvents' : e.time < job'.at
    BY <2>1, <2>2
  <2> QED BY <2>1, <2>3 DEF OwnEvents, Recording
<1>3. CASE job'.pc \in Recording /\ ~CollectPONInventory
  <2>1. /\ job.pc \in Recording /\ job'.at = job.at /\ job'.batch = job.batch
        /\ onus' = onus /\ (job'.pc = "status" => job.pc = "status")
        /\ \/ InsertStatusEvents /\ job'.pc # "status"
           \/ statusEvents' = statusEvents /\ (job.pc = "status" => job'.pc = "status")
    BY <1>3, StillRecording
  <2>2. \A r \in job.batch : StatusChanged(r)' = StatusChanged(r)
                             /\ StatusEventFrom(r)' = StatusEventFrom(r)
    BY <2>1 DEF StatusChanged, StatusEventFrom
  <2>3. CASE statusEvents' = statusEvents /\ (job.pc = "status" => job'.pc = "status")
    BY <2>1, <2>2, <2>3 DEF OwnEvents
  <2>4. CASE InsertStatusEvents /\ job'.pc # "status"
    <3> DEFINE New == {StatusEventFrom(r) : r \in {q \in job.batch : StatusChanged(q)}}
    <3>1. statusEvents' \subseteq statusEvents \cup New
      BY <2>4, EventsEffect
    <3>2. \A e \in statusEvents : e.time < job.at
      BY <2>4 DEF OwnEvents, InsertStatusEvents
    <3>3. \A e \in New : \E r \in job.batch : StatusChanged(r) /\ e = StatusEventFrom(r)
      OBVIOUS
    <3> HIDE DEF New
    <3>4. \A e \in statusEvents' : e.time < job'.at
            \/ \E r \in job'.batch : StatusChanged(r)' /\ e = StatusEventFrom(r)'
      BY <2>1, <2>2, <3>1, <3>2, <3>3
    <3> QED BY <2>4, <3>4 DEF OwnEvents
  <2> QED BY <2>1, <2>3, <2>4
<1> QED BY <1>1, <1>2, <1>3

\* The state and the sighting of an identity are those of its newest event.
Shows(s, e) ==
  /\ e.status = onus[s].status /\ e.time <= onus[s].seen
  /\ \A y \in Settled(s) : y.time <= e.time

\* What is settled of an ONU that is not torn changes only with its identity, which then
\* shows the newest event.
LEMMA SettledStep ==
  ASSUME TypeOK, Backed, Clocked, OwnEvents, [Next]_vars, NEW s \in Serials, s \notin torn'
  PROVE  \/ Settled(s)' = Settled(s) /\ onus'[s].status = onus[s].status
         \/ \E e \in Settled(s)' : Shows(s, e)'
<1>1. s # Blank
  BY SerialsAssumption DEF Blank
<1>2. \A e \in statusEvents : e.time \in Nat /\ e.time <= clock
  BY DEF TypeOK, StatusEvent, Clocked
<1>3. clock \in Nat /\ job.at \in Nat /\ (job.pc \in Recording => job.at = clock)
  BY DEF TypeOK, Job, Clocked
<1>4. CASE job.pc \notin Recording /\ job'.pc \notin Recording
  <2>1. onus' = onus /\ statusEvents' = statusEvents
    BY <1>4, Writers DEF UpsertONUs, InsertStatusEvents, Recording
  <2>2. Settled(s)' = Settled(s)
    BY <1>4, <2>1 DEF Settled, StatusLog
  <2> QED BY <2>1, <2>2
<1>5. CASE job.pc \notin Recording /\ job'.pc \in Recording
  <2>1. onus' = onus /\ statusEvents' = statusEvents /\ job'.at = clock + 1
    BY <1>5, StillRecording, WalkEffect DEF logs
  <2>2. \A e \in statusEvents : e.time < job'.at
    BY <1>2, <1>3, <2>1
  <2>3. Settled(s)' = Settled(s)
    BY <1>5, <2>1, <2>2 DEF Settled, StatusLog
  <2> QED BY <2>1, <2>3
<1>6. CASE job.pc \in Recording /\ job'.pc \in Recording
  <2>1. ~CollectPONInventory
    BY <1>6, WalkEffect DEF Recording
  <2>2. /\ job'.at = job.at /\ onus' = onus
        /\ InsertStatusEvents \/ statusEvents' = statusEvents
    BY <1>6, <2>1, StillRecording
  <2>3. Settled(s)' = Settled(s)
    <3>1. CASE statusEvents' = statusEvents
      BY <1>6, <2>2, <3>1 DEF Settled, StatusLog
    <3>2. CASE InsertStatusEvents
      <4> DEFINE New == {StatusEventFrom(r) : r \in {q \in job.batch : StatusChanged(q)}}
      <4>1. statusEvents' = statusEvents \/ statusEvents' = statusEvents \cup New
        BY <3>2, EventsEffect
      <4>2. \A e \in New : ~(e.time < job.at)
        BY <1>3, <3>2, EventsEffect
      <4> HIDE DEF New
      <4> QED BY <1>6, <2>2, <4>1, <4>2 DEF Settled, StatusLog
    <3> QED BY <2>2, <3>1, <3>2
  <2> QED BY <2>2, <2>3
<1>7. CASE job.pc \in Recording /\ job'.pc \notin Recording
  <2>1. Settled(s)' = StatusLog(s)'
    BY <1>7 DEF Settled, StatusLog
  <2>2. (\A e \in StatusLog(s) : e.time # job.at) => Settled(s) = StatusLog(s)
    BY <1>2, <1>3, <1>7 DEF Settled, StatusLog
  <2>3. CASE torn' = torn \cup Logged /\ UNCHANGED <<statusEvents, onus>>
    <3>1. \A e \in StatusLog(s) : e.time # job.at
      BY <2>3 DEF Logged, StatusLog
    <3>2. StatusLog(s)' = StatusLog(s)
      BY <2>3 DEF StatusLog
    <3> QED BY <2>1, <2>2, <2>3, <3>1, <3>2
  <2>4. CASE InsertStatusEvents
    <3> DEFINE New == {StatusEventFrom(r) : r \in {q \in job.batch : StatusChanged(q)}}
    <3>1. job'.pc = "next" /\ job.pc = "status"
      BY <1>7, <2>4, RecordEffect DEF Record, InsertStatusEvents
    <3>2. \A e \in StatusLog(s) : e.time # job.at
      BY <1>3, <3>1 DEF OwnEvents, StatusLog
    <3>3. /\ onus' = onus
          /\ \/ statusEvents' = statusEvents
             \/ /\ statusEvents' = statusEvents \cup New
                /\ torn' = torn \cup {e.serial : e \in New}
      BY <2>4, <3>1, EventsEffect
    <3> HIDE DEF New
    <3>4. StatusLog(s)' = StatusLog(s)
      BY <3>3 DEF StatusLog
    <3> QED BY <2>1, <2>2, <3>2, <3>3, <3>4
  <2>5. CASE UpsertONUs
    <3>1. job.pc = "onus" /\ job.batch \in Batches /\ statusEvents' = statusEvents
      BY <2>5 DEF UpsertONUs, Backed, Recording, logs
    <3>2. Settled(s)' = StatusLog(s)
      BY <2>1, <3>1 DEF StatusLog
    <3>3. CASE \A e \in StatusLog(s) : e.time # job.at
      <4>1. onus'[s].status = onus[s].status
        <5>1. CASE onus'[s] = onus[s]
          BY <5>1
        <5>2. CASE onus'[s] # onus[s]
          <6>1. PICK r \in job.batch : r.serial = s /\ onus'[s] = IdentityRow(onus[s], r)
            BY <2>5, <5>2, UpsertEffect
          <6>2. StatusEventFrom(r).serial = s /\ StatusEventFrom(r).time = job.at
            BY <6>1 DEF StatusEventFrom
          <6>3. ~StatusChanged(r)
            BY <3>1, <3>3, <6>2 DEF Backed, StatusLog
          <6>4. onus[s].status = r.status
            BY <1>1, <6>1, <6>3 DEF StatusChanged
          <6> QED BY <6>1, <6>4 DEF IdentityRow
        <5> QED BY <5>1, <5>2
      <4> QED BY <2>2, <3>2, <3>3, <4>1
    <3>4. ASSUME NEW e \in StatusLog(s), e.time = job.at
          PROVE  e \in Settled(s)' /\ Shows(s, e)'
      <4>1. PICK r \in job.batch : StatusChanged(r) /\ e = StatusEventFrom(r)
        BY <1>3, <3>1, <3>4 DEF OwnEvents, StatusLog, Recording
      <4>2. r.serial = s /\ r.status = e.status
        BY <3>4, <4>1 DEF StatusEventFrom, StatusLog
      <4>3. PICK done \in SUBSET job.batch :
              /\ job'.err = job.err => done = job.batch
              /\ job'.err # job.err => torn' = torn \cup (Logged \ {q.serial : q \in done})
              /\ \A q \in done : q.serial \in Serials =>
                   onus'[q.serial] = IdentityRow(onus[q.serial], q)
        BY <2>5, UpsertReach
      <4>4. s \in Logged
        BY <3>4 DEF Logged, StatusLog
      <4>5. PICK q \in done : q.serial = s
        BY <4>1, <4>2, <4>3, <4>4
      <4>6. q = r
        BY <3>1, <4>2, <4>5, BatchRows
      <4>7. onus'[s].status = e.status /\ onus'[s].seen = e.time
        <5>1. onus'[s] = IdentityRow(onus[s], r)
          BY <4>2, <4>3, <4>5, <4>6
        <5> QED BY <3>4, <4>2, <5>1 DEF IdentityRow
      <4>8. \A y \in StatusLog(s) : y.time <= e.time
        BY <1>2, <1>3, <1>7, <3>4 DEF StatusLog
      <4>9. e \in Settled(s)' /\ \A y \in Settled(s)' : y.time <= e.time
        BY <3>2, <3>4, <4>8
      <4>10. e.time <= onus'[s].seen
        BY <1>3, <3>4, <4>7
      <4> QED BY <4>7, <4>9, <4>10 DEF Shows
    <3> QED BY <3>3, <3>4
  <2> QED BY <1>7, <2>3, <2>4, <2>5, Torn
<1> QED BY <1>4, <1>5, <1>6, <1>7

\* The log of an ONU that is not torn ends in the state its identity shows.
LEMMA FollowsStep ==
  ASSUME TypeOK, Backed, Clocked, ChainInv, [Next]_vars
  PROVE  \A s \in Serials \ torn' : Follows(s)'
<1> SUFFICES ASSUME NEW s \in Serials, s \notin torn'
             PROVE  IF Settled(s)' = {} THEN onus'[s].status = ""
                    ELSE \E x \in Settled(s)' :
                           /\ x.status = onus'[s].status
                           /\ \A y \in Settled(s)' : y.time <= x.time
  BY DEF Follows
<1>1. CASE Settled(s)' = Settled(s) /\ onus'[s].status = onus[s].status
  <2>1. Follows(s)
    BY Writers DEF ChainInv
  <2> QED BY <1>1, <2>1 DEF Follows
<1>2. CASE \E e \in Settled(s)' : Shows(s, e)'
  <2>1. PICK e \in Settled(s)' : Shows(s, e)'
    BY <1>2
  <2>2. e.status = onus'[s].status /\ \A y \in Settled(s)' : y.time <= e.time
    BY <2>1 DEF Shows
  <2> QED BY <2>1, <2>2
<1> QED BY <1>1, <1>2, SettledStep DEF ChainInv

\* The log of an ONU that is not torn is never ahead of its last sighting, but for the
\* events of the poll under way, which is ahead of every sighting.
Caught ==
  /\ job.pc \in Recording => \A s \in Serials : onus[s].seen < job.at
  /\ \A s \in Serials \ torn : \A e \in Settled(s) : e.time <= onus[s].seen

\* A step keeps it so.
LEMMA CaughtStep ==
  ASSUME TypeOK, Backed, Clocked, OwnEvents, Caught, [Next]_vars PROVE Caught'
<1>1. \A s \in Serials : onus[s].seen \in Nat /\ onus'[s].seen \in Nat
  BY TypeStep DEF TypeOK, ONU
<1>2. ASSUME job'.pc \in Recording, NEW s \in Serials PROVE onus'[s].seen < job'.at
  <2>1. CASE CollectPONInventory
    <3>1. job'.at = clock + 1 /\ onus' = onus /\ clock \in Nat
      BY <2>1, WalkEffect DEF TypeOK
    <3>2. onus[s].seen <= clock
      BY DEF Clocked
    <3> QED BY <1>1, <3>1, <3>2
  <2>2. CASE ~CollectPONInventory
    BY <1>2, <2>2, StillRecording DEF Caught
  <2> QED BY <2>1, <2>2
<1>3. ASSUME NEW s \in Serials, s \notin torn', NEW e \in Settled(s)'
      PROVE  e.time <= onus'[s].seen
  <2>1. e.time \in Nat
    BY TypeStep DEF Settled, StatusLog, TypeOK, StatusEvent
  <2>2. CASE Settled(s)' = Settled(s)
    <3>1. e.time <= onus[s].seen /\ onus'[s].seen >= onus[s].seen
      BY <1>3, <2>2, Writers, Sightings DEF Caught
    <3> QED BY <1>1, <2>1, <3>1
  <2>3. CASE \E x \in Settled(s)' : Shows(s, x)'
    <3>1. PICK x \in Settled(s)' : Shows(s, x)'
      BY <2>3
    <3>2. x.time \in Nat /\ e.time <= x.time /\ x.time <= onus'[s].seen
      BY <1>3, <3>1, TypeStep DEF Shows, Settled, StatusLog, TypeOK, StatusEvent
    <3> QED BY <1>1, <2>1, <3>2
  <2> QED BY <1>3, <2>2, <2>3, SettledStep
<1> QED BY <1>2, <1>3 DEF Caught

\* A new event continues the log of its ONU; no step puts one before an older event.
LEMMA ChainStep ==
  ASSUME TypeOK, Backed, Clocked, ChainInv, StatusLogChains, [Next]_vars
  PROVE  StatusLogChains'
<1> DEFINE Linked(e, earlier) ==
      /\ e.previous # e.status
      /\ IF earlier = {} THEN e.previous = ""
         ELSE \E x \in earlier : x.status = e.previous /\ \A y \in earlier : y.time <= x.time
<1> SUFFICES ASSUME NEW e \in statusEvents', e.serial \notin torn'
             PROVE  Linked(e, EarlierEvents(e)')
  BY DEF StatusLogChains
<1>1. e.serial \notin torn
  BY Writers
<1>2. \A x \in statusEvents : x.time \in Nat /\ x.time <= clock
  BY DEF TypeOK, StatusEvent, Clocked
<1>3. e \in statusEvents => Linked(e, EarlierEvents(e))
  BY <1>1 DEF StatusLogChains
<1>4. CASE statusEvents' = statusEvents
  <2>1. EarlierEvents(e)' = EarlierEvents(e)
    BY <1>4 DEF EarlierEvents, StatusLog
  <2> HIDE DEF Linked
  <2> QED BY <1>3, <1>4, <2>1
<1>5. CASE InsertStatusEvents /\ statusEvents' # statusEvents
  <2> DEFINE New == {StatusEventFrom(r) : r \in {q \in job.batch : StatusChanged(q)}}
  <2>1. statusEvents' = statusEvents \cup New /\ \A x \in New : x.time = job.at
    BY <1>5, EventsEffect
  <2>2. job.pc = "status" /\ job.at = clock /\ clock \in Nat
    BY <1>5 DEF InsertStatusEvents, Clocked, Recording, TypeOK
  <2>3. CASE e \in statusEvents
    <3> HIDE DEF New
    <3>1. \A x \in New : ~(x.time < e.time)
      BY <1>2, <2>1, <2>2, <2>3
    <3>2. EarlierEvents(e)' = EarlierEvents(e)
      BY <2>1, <3>1 DEF EarlierEvents, StatusLog
    <3> HIDE DEF Linked
    <3> QED BY <1>3, <2>3, <3>2
  <2>4. CASE e \in New
    <3>1. PICK r \in job.batch : StatusChanged(r) /\ e = StatusEventFrom(r)
      BY <2>4
    <3>2. /\ e.serial = r.serial /\ e.status = r.status /\ e.time = job.at
          /\ e.previous = onus[r.serial].status
      BY <3>1 DEF StatusEventFrom
    <3>3. r.serial \in Serials /\ r.status \in Statuses
      BY <2>2, <3>1, BatchType DEF StatusChanged, Recording
    <3>4. e.previous # e.status
      BY <3>1, <3>2, <3>3, StatusAssumption DEF StatusChanged, ChainInv, Unseen
    <3> HIDE DEF New
    <3>5. EarlierEvents(e)' = Settled(r.serial)
      <4>1. EarlierEvents(e)' = {x \in statusEvents' : x.serial = r.serial /\ x.time < job.at}
        BY <3>2 DEF EarlierEvents, StatusLog
      <4>2. Settled(r.serial) = {x \in statusEvents : x.serial = r.serial /\ x.time < job.at}
        BY <2>2 DEF Settled, StatusLog, Recording
      <4>3. \A x \in New : ~(x.time < job.at)
        BY <2>1, <2>2
      <4> QED BY <2>1, <4>1, <4>2, <4>3
    <3>6. Follows(r.serial)
      BY <1>1, <3>2, <3>3 DEF ChainInv
    <3>7. Linked(e, Settled(r.serial))
      BY <3>2, <3>4, <3>6 DEF Follows
    <3> HIDE DEF Linked
    <3> QED BY <3>5, <3>7
  <2> QED BY <2>1, <2>3, <2>4
<1> QED BY <1>4, <1>5, Writers

\* The status log holds together from the start.
LEMMA ChainInit == Init => ChainInv /\ Caught /\ StatusLogChains
<1> SUFFICES ASSUME Init PROVE ChainInv /\ Caught /\ StatusLogChains
  OBVIOUS
<1>1. job.pc = "idle" /\ statusEvents = {} /\ \A s \in Serials : onus[s].status = ""
  BY DEF Init, Idle, NoONU
<1> QED BY <1>1 DEF ChainInv, Unseen, OwnEvents, Follows, Settled, StatusLog, StatusLogChains,
           Caught, Recording

\* Every step keeps it together.
LEMMA ChainInvStep ==
  /\ IInv /\ RunInv /\ ChainInv /\ Caught /\ StatusLogChains /\ [Next]_vars
  => (ChainInv /\ Caught /\ StatusLogChains)'
<1> SUFFICES ASSUME IInv, RunInv, ChainInv, Caught, StatusLogChains, [Next]_vars
             PROVE  (ChainInv /\ Caught /\ StatusLogChains)'
  OBVIOUS
<1>1. Unseen' /\ OwnEvents' /\ Caught'
  BY UnseenStep, OwnEventsStep, CaughtStep DEF IInv, RunInv, ChainInv
<1>2. \A s \in Serials \ torn' : Follows(s)'
  BY FollowsStep DEF IInv, RunInv
<1>3. StatusLogChains'
  BY ChainStep DEF IInv, RunInv
<1> QED BY <1>1, <1>2, <1>3 DEF ChainInv

\* The two invariants hold in every reachable state.
LEMMA ChainInvariance == Spec => [](RunInv /\ ChainInv /\ Caught /\ StatusLogChains)
BY RunInit, RunInvStep, ChainInit, ChainInvStep, Invariance, PTL DEF Spec

\* The status log of every ONU is a chain as long as no poll of it stopped between the
\* event and the identity.
THEOREM StatusLogChained == Spec => []StatusLogChains
BY ChainInvariance, PTL

\* LastEventIsLastChange, which an interrupted poll breaks, of the ONUs no poll tore.
UntornLastEventIsLastChange ==
  \A s \in Serials \ torn : onus[s].seen # 0 =>
    LET log == {e \in StatusLog(s) : e.time <= onus[s].seen} IN
    \E e \in log : e.status = onus[s].status /\ \A x \in log : x.time <= e.time

\* The newest event of a serial is its last status change, whatever fails, unless a poll
\* of that serial stopped between its event and its identity: nothing else breaks it.
THEOREM UntornLogsAreCurrent == Spec => []UntornLastEventIsLastChange
<1>1. IInv /\ ChainInv /\ Caught => UntornLastEventIsLastChange
  <2> SUFFICES ASSUME IInv, ChainInv, Caught, NEW s \in Serials, s \notin torn, onus[s].seen # 0
               PROVE  LET log == {e \in StatusLog(s) : e.time <= onus[s].seen} IN
                      \E e \in log : e.status = onus[s].status /\ \A x \in log : x.time <= e.time
    BY DEF UntornLastEventIsLastChange
  <2>1. onus[s].status # ""
    <3>1. \E x \in samples : x.status = onus[s].status /\ x.status \in Statuses
      BY DEF IInv, IdentityHasSample, TypeOK, Sample
    <3> QED BY <3>1, StatusAssumption
  <2>2. onus[s].seen \in Nat /\ \A e \in StatusLog(s) : e.time \in Nat
    BY DEF IInv, TypeOK, ONU, StatusLog, StatusEvent
  <2>3. job.at \in Nat /\ (job.pc \in Recording => onus[s].seen < job.at)
    BY DEF IInv, TypeOK, Job, Caught
  <2>4. Settled(s) = {e \in StatusLog(s) : e.time <= onus[s].seen}
    <3>1. \A e \in Settled(s) : e.time <= onus[s].seen
      BY DEF Caught
    <3>2. ASSUME NEW e \in StatusLog(s), e.time <= onus[s].seen PROVE e \in Settled(s)
      BY <2>2, <2>3, <3>2 DEF Settled
    <3> QED BY <3>1, <3>2 DEF Settled
  <2>5. Follows(s)
    BY DEF ChainInv
  <2> QED BY <2>1, <2>4, <2>5 DEF Follows
<1> QED BY <1>1, Invariance, ChainInvariance, PTL
=============================================================================
