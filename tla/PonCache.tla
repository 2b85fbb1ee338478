------------------------------ MODULE PonCache ------------------------------
(***************************************************************************)
(* The read path of one OLT's usecase for one PON                          *)
(* (internal/usecase/onu.go over internal/repository/redis.go).            *)
(*                                                                         *)
(* Goroutines (HTTP handlers, the pre-warm loop, the poller, background    *)
(* refreshes) read the ONUs of a PON.  Concurrent identical reads share    *)
(* one execution through a singleflight group; an execution may answer     *)
(* from a Redis entry, or walk the OLT over SNMP and store what it read.   *)
(* Three Redis keys are written: the ONU list, the free-ID list and the    *)
(* serial list.  Two keys are written under MORE THAN ONE singleflight     *)
(* key, and the background refresh under none.                             *)
(*                                                                         *)
(* The state of the PON on the OLT is a version number that outside        *)
(* provisioning increments.  The version of a result is the one its walk   *)
(* saw: which ONUs exist.  Their attributes come from Gets after the walk; *)
(* they are not versioned.  The Get of a serial number is itself coalesced *)
(* by OID, inside a coalesced read; one ONU shows it.  Version 0 means "no *)
(* data".  Keys of different PONs and OLTs are disjoint (cacheKey), so one *)
(* PON shows every interaction.                                            *)
(***************************************************************************)
EXTENDS Integers

CONSTANTS Callers,        \* goroutines
          Poller,         \* the poller goroutine: the only caller of CollectPONInventory
          NoCaller,       \* no leader
          Requests,       \* the operations issued (a bound on the environment)
          EmptyVersions,  \* versions of the OLT in which the PON has no ONU
          MaxVersion      \* bound on provisioning changes

ASSUME CallersAssumption == Poller \in Callers /\ NoCaller \notin Callers
ASSUME VersionAssumption == MaxVersion \in Nat /\ EmptyVersions \subseteq Nat

VARIABLES olt,      \* version of the PON on the OLT
          cache,    \* Redis: key -> [ver, low], low = less than a fifth of the TTL is left
          flight,   \* singleflight group: flight key -> its leader
          get,      \* singleflight group: leader of the ONU's serial-number OID
          call,     \* what each goroutine is doing
          quiet     \* history: newest version a clear (or update) settled on while no
                    \* other execution on the key was under way

vars == <<olt, cache, flight, get, call, quiet>>

-----------------------------------------------------------------------------
Keys    == {"onu_info", "empty_onu_id", "serial_list"}
Flights == {"onuinfo", "poll-onuinfo", "empty_onu_id", "update_empty_onu_id",
            "onu_id_and_serial_number", "onu"}

\* Operations that go through the singleflight group.
Coalesced == {"list", "poll", "empty", "update", "serial", "serial_nocache", "detail"}
Ops == Coalesced \cup {"refresh", "invalidate", "delete"}

\* Mutant: the poller joins the readers of the list.
FlightOf_PollShares(op) ==
  CASE op \in {"list", "poll"} -> "onuinfo"
    [] op = "empty"  -> "empty_onu_id"
    [] op = "update" -> "update_empty_onu_id"
    [] op \in {"serial", "serial_nocache"} -> "onu_id_and_serial_number"
    [] OTHER -> "onu"

\* Mutant: a forced serial read has a flight of its own.
FlightOf_NoCacheApart(op) ==
  CASE op = "list"   -> "onuinfo"
    [] op = "poll"   -> "poll-onuinfo"
    [] op = "empty"  -> "empty_onu_id"
    [] op \in {"update", "serial_nocache"} -> "update_empty_onu_id"
    [] op = "serial" -> "onu_id_and_serial_number"
    [] OTHER -> "onu"

\* The singleflight key of an operation: ?nocache=true does not change it.
FlightOf(op) ==
  CASE op = "list"   -> "onuinfo"
    [] op = "poll"   -> "poll-onuinfo"
    [] op = "empty"  -> "empty_onu_id"
    [] op = "update" -> "update_empty_onu_id"
    [] op \in {"serial", "serial_nocache"} -> "onu_id_and_serial_number"
    [] OTHER -> "onu"

\* The Redis key an operation stores under; "none" if it stores nothing.
KeyOf(op) ==
  CASE op \in {"list", "poll", "refresh"}   -> "onu_info"
    [] op \in {"empty", "update"}           -> "empty_onu_id"
    [] op \in {"serial", "serial_nocache"}  -> "serial_list"
    [] OTHER -> "none"

\* Operations that must answer from the OLT, never from Redis.
Forced == {"poll", "update", "serial_nocache", "detail"}

\* Mutant: a sentinel version for a missing entry.
Absent_Sentinel == [ver |-> -1, low |-> FALSE]

Absent == [ver |-> 0, low |-> FALSE]

Idle == [op |-> "none", pc |-> "idle", ver |-> 0, err |-> "none", lead |-> FALSE,
         since |-> 0, floor |-> 0]

Working == {"lookup", "walk", "get", "getting", "getwait", "save", "finish"}

\* Some goroutine other than p is executing an operation that stores under k.
OtherBusy(p, k) ==
  \E q \in Callers \ {p} : call[q].pc \in Working /\ KeyOf(call[q].op) = k

\* What a goroutine records on entry: the version the OLT holds, and the one a
\* cached answer may not be older than (both history).
Begin(op, pc, lead) ==
  [op |-> op, pc |-> pc, ver |-> 0, err |-> "none", lead |-> lead,
   since |-> IF op \in Forced \cup {"invalidate"} THEN olt ELSE 0,
   floor |-> IF KeyOf(op) \in Keys THEN quiet[KeyOf(op)] ELSE 0]

\* An execution is over: a refresh goroutine ends, a leader hands its result on.
Leave(c) == IF c.op = "refresh" THEN Idle ELSE [c EXCEPT !.pc = "finish"]

-----------------------------------------------------------------------------
Init ==
  /\ olt = 1
  /\ cache = [k \in Keys |-> Absent]
  /\ flight = [f \in Flights |-> NoCaller]
  /\ get = NoCaller
  /\ call = [p \in Callers |-> Idle]
  /\ quiet = [k \in Keys |-> 0]

(***************************************************************************)
(* Singleflight: the first caller of a key executes, the others wait for   *)
(* its result.                                                             *)
(***************************************************************************)
Lead(p, op, first) ==
  /\ flight[FlightOf(op)] = NoCaller
  /\ flight' = [flight EXCEPT ![FlightOf(op)] = p]
  /\ call' = [call EXCEPT ![p] = Begin(op, first, TRUE)]

Join(p, op) ==
  /\ flight[FlightOf(op)] # NoCaller
  /\ call' = [call EXCEPT ![p] = Begin(op, "wait", FALSE)]
  /\ UNCHANGED flight

Enter(p, op, first) ==
  /\ op \in Requests
  /\ call[p].pc = "idle"
  /\ Lead(p, op, first) \/ Join(p, op)
  /\ UNCHANGED <<olt, cache, get, quiet>>

GetByBoardIDAndPonID(p)      == p # Poller /\ Enter(p, "list", "lookup")
CollectPONInventory(p)       == p = Poller /\ Enter(p, "poll", "walk")
GetByBoardIDPonIDAndOnuID(p) == p # Poller /\ Enter(p, "detail", "walk")
GetEmptyOnuID(p)             == p # Poller /\ Enter(p, "empty", "lookup")
UpdateEmptyOnuID(p)          == p # Poller /\ Enter(p, "update", "walk")

GetOnuIDAndSerialNumber(p) ==
  /\ p # Poller
  /\ \E op \in {"serial", "serial_nocache"} : Enter(p, op, "lookup")

\* Mutant: the waiters are not told.
Finish_ForgetsWaiters(p) ==
  /\ call[p].pc = "finish"
  /\ flight' = [flight EXCEPT ![FlightOf(call[p].op)] = NoCaller]
  /\ call' = [call EXCEPT ![p].pc = "done"]
  /\ UNCHANGED <<olt, cache, get, quiet>>

\* The execution returns: the flight is forgotten and everyone who joined it
\* gets the leader's result or its error.
Finish(p) ==
  LET f == FlightOf(call[p].op) IN
  /\ call[p].pc = "finish"
  /\ flight' = [flight EXCEPT ![f] = NoCaller]
  /\ call' = [q \in Callers |->
       IF q = p THEN [call[q] EXCEPT !.pc = "done"]
       ELSE IF call[q].pc = "wait" /\ FlightOf(call[q].op) = f
         THEN [call[q] EXCEPT !.pc = "done", !.ver = call[p].ver, !.err = call[p].err]
         ELSE call[q]]
  /\ UNCHANGED <<olt, cache, get, quiet>>

\* The caller consumes its answer.
Answer(p) ==
  /\ call[p].pc = "done"
  /\ call' = [call EXCEPT ![p] = Idle]
  /\ UNCHANGED <<olt, cache, flight, get, quiet>>

-----------------------------------------------------------------------------
(***************************************************************************)
(* Cached reads.  An empty PON's list is stored as a JSON null and reads   *)
(* back as nil, which counts as a miss; the free-ID list of a full PON is  *)
(* an empty array and counts as a hit.                                     *)
(***************************************************************************)
Served(k) ==
  /\ cache[k].ver # 0
  /\ k # "empty_onu_id" => cache[k].ver \notin EmptyVersions

\* Any Redis error, a cancelled request included, is a miss.
Miss(p) == call' = [call EXCEPT ![p].pc = "walk"]

Hit(p, k) ==
  /\ Served(k)
  /\ call' = [call EXCEPT ![p].ver = cache[k].ver, ![p].pc = "finish"]

\* A hit with little TTL left starts a refresh outside the singleflight group.
\* (A failing GetTTL starts none: that is Hit.)
HitAndRefresh(p, r) ==
  /\ Served("onu_info") /\ cache["onu_info"].low
  /\ r \notin {p, Poller} /\ call[r].pc = "idle"
  /\ call' = [call EXCEPT ![p].ver = cache["onu_info"].ver, ![p].pc = "finish",
                          ![r] = Begin("refresh", "walk", FALSE)]

Lookup(p, op) ==
  /\ call[p].op = op /\ call[p].pc = "lookup"
  /\ UNCHANGED <<olt, cache, flight, get, quiet>>

ListLookup(p) ==
  /\ Lookup(p, "list")
  /\ \/ Miss(p)
     \/ Hit(p, "onu_info")
     \/ \E r \in Callers : HitAndRefresh(p, r)

EmptyLookup(p)  == Lookup(p, "empty") /\ (Miss(p) \/ Hit(p, "empty_onu_id"))

\* Mutant: the leader looks into Redis whatever the request said.
SerialLookup_IgnoresNoCache(p) ==
  \E op \in {"serial", "serial_nocache"} :
    Lookup(p, op) /\ (Miss(p) \/ Hit(p, "serial_list"))

\* WithNoCache makes the leader skip the cached serial list.
SerialLookup(p) ==
  \/ Lookup(p, "serial") /\ (Miss(p) \/ Hit(p, "serial_list"))
  \/ Lookup(p, "serial_nocache") /\ Miss(p)

-----------------------------------------------------------------------------
(***************************************************************************)
(* Walks: BulkWalk reads the PON from the OLT or fails.  The serial list   *)
(* and the detail then Get the serial number of each ONU the walk listed.  *)
(***************************************************************************)
Walk(p, ops, next) ==
  /\ call[p].op \in ops /\ call[p].pc = "walk"
  /\ \/ call' = [call EXCEPT ![p].ver = olt, ![p].pc = next]
     \/ call' = [call EXCEPT ![p] = Leave([@ EXCEPT !.err = "snmp"])]
  /\ UNCHANGED <<olt, cache, flight, get, quiet>>

WalkPON(p)    == Walk(p, {"list", "poll", "refresh"}, "save")
WalkEmpty(p)  == Walk(p, {"empty", "update"}, "save")
WalkSerial(p) == Walk(p, {"serial", "serial_nocache"},
                      IF olt \in EmptyVersions THEN "save" ELSE "get")
WalkDetail(p) == Walk(p, {"detail"}, IF olt \in EmptyVersions THEN "finish" ELSE "get")

(***************************************************************************)
(* getFromSNMPWithSingleflight: a Get of the same OID under way is joined, *)
(* whichever operation issued it.  A failed Get leaves its field blank (or *)
(* the ONU out of the serial list) and is no error of the read.            *)
(***************************************************************************)
\* Mutant: the Get under way is not joined.
SendGet_Alone(p) ==
  /\ call[p].pc = "get"
  /\ get' = p
  /\ call' = [call EXCEPT ![p].pc = "getting"]
  /\ UNCHANGED <<olt, cache, flight, quiet>>

SendGet(p) ==
  /\ call[p].pc = "get"
  /\ IF get = NoCaller
       THEN /\ get' = p
            /\ call' = [call EXCEPT ![p].pc = "getting"]
       ELSE /\ call' = [call EXCEPT ![p].pc = "getwait"]
            /\ UNCHANGED get
  /\ UNCHANGED <<olt, cache, flight, quiet>>

\* The detail stores nothing.
AfterGet(c) == [c EXCEPT !.pc = IF c.op = "detail" THEN "finish" ELSE "save"]

GetReturns(p) ==
  /\ call[p].pc = "getting"
  /\ get' = NoCaller
  /\ call' = [q \in Callers |->
       IF q = p \/ call[q].pc = "getwait" THEN AfterGet(call[q]) ELSE call[q]]
  /\ UNCHANGED <<olt, cache, flight, quiet>>

(***************************************************************************)
(* Saves.  A write that Redis reports as failed may still have been        *)
(* applied (a client timeout).                                             *)
(***************************************************************************)
Store(p, k, applied) ==
  cache' = IF applied THEN [cache EXCEPT ![k] = [ver |-> call[p].ver, low |-> FALSE]]
                      ELSE cache

\* The outcome of a Redis command as its caller sees it.
Fault(ok) == IF ok THEN "none" ELSE "redis"

\* The list and serial saves use a context detached from the request, and their
\* error is only logged.
SaveLogged(p, k) ==
  /\ call[p].pc = "save"
  /\ \E applied \in BOOLEAN : Store(p, k, applied)
  /\ call' = [call EXCEPT ![p] = Leave(@)]
  /\ UNCHANGED <<olt, flight, get, quiet>>

SavePON(p)    == call[p].op \in {"list", "poll", "refresh"} /\ SaveLogged(p, "onu_info")
SaveSerial(p) == call[p].op \in {"serial", "serial_nocache"} /\ SaveLogged(p, "serial_list")

\* Mutant: the update's error is only logged, as the list's is.
SaveEmpty_Logged(p) ==
  /\ call[p].op \in {"empty", "update"} /\ call[p].pc = "save"
  /\ \E applied \in BOOLEAN : Store(p, "empty_onu_id", applied)
  /\ call' = [call EXCEPT ![p] = Leave(@)]
  /\ quiet' = IF call[p].op = "update" /\ ~OtherBusy(p, "empty_onu_id")
                THEN [quiet EXCEPT !["empty_onu_id"] = call[p].ver] ELSE quiet
  /\ UNCHANGED <<olt, flight, get>>

\* The free-ID saves use the leader's request context, and their error is returned.
SaveEmpty(p) ==
  /\ call[p].op \in {"empty", "update"} /\ call[p].pc = "save"
  /\ \E applied, ok \in BOOLEAN :
       /\ ok => applied
       /\ Store(p, "empty_onu_id", applied)
       /\ call' = [call EXCEPT ![p] = Leave([@ EXCEPT !.err = Fault(ok)])]
       /\ quiet' = IF ok /\ call[p].op = "update" /\ ~OtherBusy(p, "empty_onu_id")
                     THEN [quiet EXCEPT !["empty_onu_id"] = call[p].ver] ELSE quiet
  /\ UNCHANGED <<olt, flight, get>>

-----------------------------------------------------------------------------
(***************************************************************************)
(* Clearing.  InvalidateONUCache ignores every error; DeleteCache stops at *)
(* an error on the list key and ignores one on the serial key (the list    *)
(* error that the first drops is kept in err as history).  Neither touches *)
(* the free-ID list.  The per-ONU detail key InvalidateONUCache also       *)
(* deletes is never written.                                               *)
(***************************************************************************)
Clear(p, op) ==
  /\ op \in Requests /\ p # Poller
  /\ call[p].pc = "idle"
  /\ call' = [call EXCEPT ![p] = Begin(op, "delete_list", FALSE)]
  /\ UNCHANGED <<olt, cache, flight, get, quiet>>

InvalidateONUCache(p) == Clear(p, "invalidate")
DeleteCache(p)        == Clear(p, "delete")

\* Mutant: the key that is deleted is not the one the read path wrote (the
\* namespace of a named OLT is missing).
Removed_NoNamespace(k) == cache

Removed(k) == [cache EXCEPT ![k] = Absent]

\* History: what a successful deletion of k entitles later readers to.
NoteCleared(p, k, ok) ==
  quiet' = IF ok /\ ~OtherBusy(p, k) THEN [quiet EXCEPT ![k] = olt] ELSE quiet

DeleteList(p) ==
  /\ call[p].pc = "delete_list"
  /\ \E applied, ok \in BOOLEAN :
       /\ ok => applied
       /\ cache' = IF applied THEN Removed("onu_info") ELSE cache
       /\ call' = [call EXCEPT ![p].err = Fault(ok),
                    ![p].pc = IF ok \/ call[p].op = "invalidate" THEN "delete_serial" ELSE "done"]
       /\ NoteCleared(p, "onu_info", ok)
  /\ UNCHANGED <<olt, flight, get>>

DeleteSerial(p) ==
  /\ call[p].pc = "delete_serial"
  /\ \E applied, ok \in BOOLEAN :
       /\ ok => applied
       /\ cache' = IF applied THEN Removed("serial_list") ELSE cache
       /\ NoteCleared(p, "serial_list", ok)
  /\ call' = [call EXCEPT ![p].pc = "done"]
  /\ UNCHANGED <<olt, flight, get>>

-----------------------------------------------------------------------------
\* The environment: provisioning on the OLT, and the TTL of a Redis entry.
Provision ==
  /\ olt < MaxVersion
  /\ olt' = olt + 1
  /\ UNCHANGED <<cache, flight, get, call, quiet>>

\* Only the list's TTL is ever asked for.
AgeList ==
  /\ cache["onu_info"].ver # 0 /\ ~cache["onu_info"].low
  /\ cache' = [cache EXCEPT !["onu_info"].low = TRUE]
  /\ UNCHANGED <<olt, flight, get, call, quiet>>

Expire(k) ==
  /\ cache[k].ver # 0
  /\ cache' = [cache EXCEPT ![k] = Absent]
  /\ UNCHANGED <<olt, flight, get, call, quiet>>

-----------------------------------------------------------------------------
Issue(p) ==
  \/ GetByBoardIDAndPonID(p)      \/ CollectPONInventory(p)
  \/ GetByBoardIDPonIDAndOnuID(p) \/ GetEmptyOnuID(p)
  \/ UpdateEmptyOnuID(p)          \/ GetOnuIDAndSerialNumber(p)
  \/ InvalidateONUCache(p)        \/ DeleteCache(p)

Progress(p) ==
  \/ ListLookup(p) \/ EmptyLookup(p) \/ SerialLookup(p)
  \/ WalkPON(p)    \/ WalkEmpty(p)   \/ WalkSerial(p)   \/ WalkDetail(p)
  \/ SendGet(p)    \/ GetReturns(p)
  \/ SavePON(p)    \/ SaveEmpty(p)   \/ SaveSerial(p)
  \/ DeleteList(p) \/ DeleteSerial(p)
  \/ Finish(p)

Next ==
  \/ \E p \in Callers : Issue(p) \/ Progress(p) \/ Answer(p)
  \/ Provision
  \/ AgeList \/ \E k \in Keys : Expire(k)

Spec == Init /\ [][Next]_vars

\* Every SNMP and Redis request has a timeout, so a goroutine that is executing
\* an operation goes on; nothing obliges anyone to issue one.
FairSpec == Spec /\ \A p \in Callers : WF_vars(Progress(p))
-----------------------------------------------------------------------------
(***************************************************************************)
(* Properties.                                                             *)
(***************************************************************************)
Call == [op : Ops \cup {"none"},
         pc : Working \cup {"idle", "wait", "done", "delete_list", "delete_serial"},
         ver : Nat, err : {"none", "snmp", "redis"}, lead : BOOLEAN,
         since : Nat, floor : Nat]

\* Type invariant of the usecase's shared state and of what each goroutine holds.
TypeOK ==
  /\ olt \in Nat
  /\ cache \in [Keys -> [ver : Nat, low : BOOLEAN]]
  /\ get \in Callers \cup {NoCaller}
  /\ flight \in [Flights -> Callers \cup {NoCaller}]
  /\ call \in [Callers -> Call]
  /\ quiet \in [Keys -> Nat]

Answered(p) == call[p].pc = "done" /\ call[p].err = "none"

\* A clear that fell between executions works: once a deletion of a key (or a
\* free-ID update) succeeded while nobody else was executing an operation that
\* stores under that key, every read of the key that starts later, from Redis or
\* by joining someone, is at least as new as the OLT was then.
QuietClearIsEffective ==
  \A p \in Callers :
    Answered(p) /\ KeyOf(call[p].op) \in Keys => call[p].ver >= call[p].floor

\* What the poller stores as history is never older than its own call: nothing
\* it collects comes from Redis or from an execution that was already running.
PollerReadsFresh ==
  Answered(Poller) => call[Poller].ver >= call[Poller].since

\* A forced read (poll, detail, free-ID update, ?nocache=true) that leads its own
\* execution answers with what the OLT held after the request began.
ForcedLeaderIsFresh ==
  \A p \in Callers :
    Answered(p) /\ call[p].lead /\ call[p].op \in Forced => call[p].ver >= call[p].since

\* Whoever waits on a flight waits on a goroutine that is executing that flight,
\* whoever waits on a Get (which a leader may do, inside its flight) waits on one
\* that is in transit, and no two goroutines execute the same flight or the same
\* Get.
WaitersHaveALeader ==
  \A p \in Callers : call[p].op \in Coalesced =>
    LET leader == flight[FlightOf(call[p].op)] IN
    /\ call[p].pc = "wait" =>
         /\ leader \in Callers
         /\ call[leader].pc \in Working
         /\ FlightOf(call[leader].op) = FlightOf(call[p].op)
    /\ call[p].pc \in Working => leader = p
    /\ call[p].pc = "getwait" => get \in Callers /\ call[get].pc = "getting"
    /\ call[p].pc = "getting" => get = p

\* The cached serial list never goes back in time while it stays in Redis: its
\* cached and forced readers share one flight, so their saves cannot overtake one
\* another.  (The ONU list and the free-ID list have several writers and can.)
SerialListNeverRegresses ==
  [][ /\ cache["serial_list"].ver # 0
      /\ cache'["serial_list"].ver # 0
      => cache'["serial_list"].ver >= cache["serial_list"].ver ]_vars

\* Every request is answered: waiting on a flight never lasts for ever.
EveryRequestReturns ==
  \A p \in Callers : call[p].pc # "idle" ~> call[p].pc \in {"idle", "done"}

\* The claim of onu.go on WithNoCache: a forced serial read sees the OLT's real
\* state, that is, nothing older than the request.
NoCacheSeesRealState ==
  \A p \in Callers :
    Answered(p) /\ call[p].op = "serial_nocache" => call[p].ver >= call[p].since

=============================================================================
