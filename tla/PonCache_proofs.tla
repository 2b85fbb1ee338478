--------------------------- MODULE PonCache_proofs ---------------------------
(***************************************************************************)
(* What PonCache promises for every number of callers, every sequence of   *)
(* requests and every number of provisioning changes.                      *)
(***************************************************************************)
EXTENDS PonCache, TLAPS

Serials == {"serial", "serial_nocache"}

\* The stages in which an execution holds what its walk (or Redis) gave it.
Holding == {"get", "getting", "getwait", "save", "finish"}

-----------------------------------------------------------------------------
(***************************************************************************)
(* The inductive invariant, in parts.                                      *)
(***************************************************************************)

\* Which operations pass through which stages.
StageOf(p) ==
  /\ call[p].pc = "idle" => call[p] = Idle
  /\ call[p].pc # "idle" => call[p].op \in Ops
  /\ call[p].op \in Coalesced => call[p].pc \notin {"delete_list", "delete_serial"}
  /\ call[p].op = "refresh" => call[p].pc \in {"walk", "save"} /\ ~call[p].lead
  /\ call[p].op \in {"invalidate", "delete"} =>
       call[p].pc \in {"delete_list", "delete_serial", "done"} /\ ~call[p].lead
  /\ call[p].pc \in {"lookup", "walk", "get", "getting", "getwait", "save"} =>
       call[p].err = "none"
  /\ call[p].pc = "wait" => ~call[p].lead
  /\ call[p].pc \in {"get", "getting", "getwait"} =>
       call[p].op \in Serials \cup {"detail"}
  /\ call[p].pc = "save" => KeyOf(call[p].op) \in Keys

StageInv == \A p \in Callers : StageOf(p)

\* The flight table and the goroutines agree.
FlightInv ==
  /\ \A p \in Callers : call[p].op \in Coalesced /\ call[p].pc \in Working =>
       flight[FlightOf(call[p].op)] = p
  /\ \A p \in Callers : call[p].pc = "wait" =>
       call[p].op \in Coalesced /\ flight[FlightOf(call[p].op)] # NoCaller
  /\ \A f \in Flights : flight[f] # NoCaller =>
       /\ call[flight[f]].op \in Coalesced
       /\ call[flight[f]].pc \in Working
       /\ FlightOf(call[flight[f]].op) = f

\* The Get in transit and the goroutines agree.
GetInv ==
  /\ \A p \in Callers : call[p].pc = "getting" => get = p
  /\ \A p \in Callers : call[p].pc = "getwait" => get # NoCaller
  /\ get # NoCaller => call[get].pc = "getting"

\* Nothing in Redis, and nothing an execution holds, is older than the last
\* quiet clear of its key; a caller expects no more than that.
KeyFresh(k) ==
  /\ quiet[k] <= olt
  /\ cache[k].ver # 0 => quiet[k] <= cache[k].ver /\ cache[k].ver <= olt

CallFresh(p) ==
  KeyOf(call[p].op) \in Keys =>
    /\ call[p].pc # "done" => call[p].floor <= quiet[KeyOf(call[p].op)]
    /\ call[p].pc \in Holding /\ call[p].err = "none" =>
         quiet[KeyOf(call[p].op)] <= call[p].ver /\ call[p].ver <= olt
    /\ Answered(p) => call[p].floor <= call[p].ver

FreshInv ==
  /\ olt > 0
  /\ \A k \in Keys : KeyFresh(k)
  /\ \A p \in Callers : CallFresh(p)

\* A forced execution holds nothing older than its start.
ForcedOf(p) ==
  call[p].op \in Forced =>
    /\ call[p].since <= olt
    /\ call[p].lead /\ call[p].pc \in Holding \cup {"done"} /\ call[p].err = "none" =>
         call[p].since <= call[p].ver

ForcedInv == \A p \in Callers : ForcedOf(p)

\* The poller polls, leads whatever it does, and nobody else polls.
PollerOf(p) ==
  call[p].pc # "idle" =>
    /\ p = Poller <=> call[p].op = "poll"
    /\ p = Poller => call[p].lead

PollerInv == \A p \in Callers : PollerOf(p)

\* The serial execution under way holds nothing older than the cached list.
SerialOf(p) ==
    call[p].op \in Serials /\ call[p].pc \in {"get", "getting", "getwait", "save"} =>
      cache["serial_list"].ver <= call[p].ver

SerialInv == \A p \in Callers : SerialOf(p)

IInv == /\ TypeOK /\ StageInv /\ FlightInv /\ GetInv
        /\ FreshInv /\ ForcedInv /\ PollerInv /\ SerialInv

-----------------------------------------------------------------------------
(***************************************************************************)
(* The steps, grouped by what they do.                                     *)
(***************************************************************************)
Entering(p, op, first) ==
  /\ Enter(p, op, first)
  /\ p = Poller <=> op = "poll"

Clearing(p, op) == Clear(p, op)

\* A lookup that finds nothing, one that is served, and one that also refreshes.
Missing(p) ==
  /\ call[p].pc = "lookup" /\ Miss(p)
  /\ UNCHANGED <<olt, cache, flight, get, quiet>>

Hitting(p, k) ==
  /\ call[p].pc = "lookup" /\ call[p].op \notin Forced /\ KeyOf(call[p].op) = k
  /\ Hit(p, k)
  /\ UNCHANGED <<olt, cache, flight, get, quiet>>

Refreshing(p, r) ==
  /\ call[p].pc = "lookup" /\ call[p].op = "list"
  /\ HitAndRefresh(p, r)
  /\ UNCHANGED <<olt, cache, flight, get, quiet>>

\* A walk that succeeds, and one that fails.
Walking(p, next) ==
  /\ call[p].pc = "walk"
  /\ \/ next = "get" /\ call[p].op \in Serials \cup {"detail"}
     \/ next = "save" /\ KeyOf(call[p].op) \in Keys
     \/ next = "finish" /\ call[p].op = "detail"
  /\ call' = [call EXCEPT ![p].ver = olt, ![p].pc = next]
  /\ UNCHANGED <<olt, cache, flight, get, quiet>>

WalkFailing(p) ==
  /\ call[p].pc = "walk"
  /\ call' = [call EXCEPT ![p] = Leave([@ EXCEPT !.err = "snmp"])]
  /\ UNCHANGED <<olt, cache, flight, get, quiet>>

Saving(p, k) ==
  /\ k \in {"onu_info", "serial_list"} /\ KeyOf(call[p].op) = k
  /\ SaveLogged(p, k)

\* Every step is one of these.
LEMMA Steps ==
  ASSUME StageInv, [Next]_vars
  PROVE  \/ \E p \in Callers, op \in Coalesced, first \in {"lookup", "walk"} :
                Entering(p, op, first)
         \/ \E p \in Callers, op \in {"invalidate", "delete"} : Clearing(p, op)
         \/ \E p \in Callers : \/ Missing(p) \/ \E k \in Keys : Hitting(p, k)
                               \/ \E r \in Callers : Refreshing(p, r)
                               \/ \E next \in {"get", "save", "finish"} : Walking(p, next)
                               \/ WalkFailing(p)
                               \/ SendGet(p) \/ GetReturns(p)
                               \/ \E k \in Keys : Saving(p, k)
                               \/ SaveEmpty(p)
                               \/ DeleteList(p) \/ DeleteSerial(p)
                               \/ Finish(p) \/ Answer(p)
         \/ Provision \/ AgeList \/ \E k \in Keys : Expire(k)
         \/ UNCHANGED vars
<1>1. ASSUME NEW p \in Callers, Issue(p)
      PROVE  \/ \E op \in Coalesced, first \in {"lookup", "walk"} : Entering(p, op, first)
             \/ \E op \in {"invalidate", "delete"} : Clearing(p, op)
  <2>1. CASE GetByBoardIDAndPonID(p)
    BY <2>1 DEF GetByBoardIDAndPonID, Entering, Coalesced
  <2>2. CASE CollectPONInventory(p)
    BY <2>2 DEF CollectPONInventory, Entering, Coalesced
  <2>3. CASE GetByBoardIDPonIDAndOnuID(p)
    BY <2>3 DEF GetByBoardIDPonIDAndOnuID, Entering, Coalesced
  <2>4. CASE GetEmptyOnuID(p)
    BY <2>4 DEF GetEmptyOnuID, Entering, Coalesced
  <2>5. CASE UpdateEmptyOnuID(p)
    BY <2>5 DEF UpdateEmptyOnuID, Entering, Coalesced
  <2>6. CASE GetOnuIDAndSerialNumber(p)
    BY <2>6 DEF GetOnuIDAndSerialNumber, Entering, Coalesced
  <2>7. CASE InvalidateONUCache(p) \/ DeleteCache(p)
    BY <2>7 DEF InvalidateONUCache, DeleteCache, Clearing
  <2> QED BY <1>1, <2>1, <2>2, <2>3, <2>4, <2>5, <2>6, <2>7 DEF Issue
<1>2. ASSUME NEW p \in Callers, ListLookup(p) \/ EmptyLookup(p) \/ SerialLookup(p)
      PROVE  \/ Missing(p) \/ \E k \in Keys : Hitting(p, k)
             \/ \E r \in Callers : Refreshing(p, r)
  <2>1. CASE ListLookup(p)
    BY <2>1 DEF ListLookup, Lookup, Missing, Hitting, Refreshing, KeyOf, Keys, Forced
  <2>2. CASE EmptyLookup(p)
    BY <2>2 DEF EmptyLookup, Lookup, Missing, Hitting, KeyOf, Keys, Forced
  <2>3. CASE SerialLookup(p)
    BY <2>3 DEF SerialLookup, Lookup, Missing, Hitting, KeyOf, Keys, Forced
  <2> QED BY <1>2, <2>1, <2>2, <2>3
<1>3. ASSUME NEW p \in Callers, NEW ops \in {{"list", "poll", "refresh"}, {"empty", "update"}, Serials, {"detail"}},
             NEW next \in {"get", "save", "finish"},
             Walk(p, ops, next),
             \/ next = "get" /\ ops \subseteq Serials \cup {"detail"}
             \/ next = "save" /\ ops # {"detail"}
             \/ next = "finish" /\ ops = {"detail"}
      PROVE  Walking(p, next) \/ WalkFailing(p)
  BY <1>3 DEF Walk, Walking, WalkFailing, Serials, KeyOf, Keys
<1>4. ASSUME NEW p \in Callers, WalkPON(p) \/ WalkEmpty(p) \/ WalkSerial(p) \/ WalkDetail(p)
      PROVE  (\E next \in {"get", "save", "finish"} : Walking(p, next)) \/ WalkFailing(p)
  <2>1. CASE WalkPON(p)
    BY <2>1, <1>3 DEF WalkPON
  <2>2. CASE WalkEmpty(p)
    BY <2>2, <1>3 DEF WalkEmpty
  <2>3. CASE WalkSerial(p)
    BY <2>3, <1>3 DEF WalkSerial, Serials
  <2>4. CASE WalkDetail(p)
    BY <2>4, <1>3 DEF WalkDetail
  <2> QED BY <1>4, <2>1, <2>2, <2>3, <2>4
<1>5. ASSUME NEW p \in Callers, SavePON(p) \/ SaveSerial(p)
      PROVE  \E k \in Keys : Saving(p, k)
  BY <1>5 DEF SavePON, SaveSerial, Saving, KeyOf, Keys
<1> QED BY <1>1, <1>2, <1>4, <1>5 DEF Next, Progress

\* Facts about the keys.
LEMMA KeyFacts ==
  /\ \A op \in Coalesced : FlightOf(op) \in Flights
  /\ \A op \in Ops : KeyOf(op) \in Keys \/ KeyOf(op) \notin Keys
  /\ \A a, b \in Coalesced : FlightOf(a) = FlightOf(b) =>
       KeyOf(a) = KeyOf(b) /\ (a = "poll" <=> b = "poll")
  /\ \A a, b \in Serials : FlightOf(a) = FlightOf(b)
  /\ \A op \in Serials : op \in Coalesced /\ KeyOf(op) = "serial_list"
  /\ \A op \in {"detail", "invalidate", "delete", "none"} : KeyOf(op) \notin Keys
<1>1. \A op \in Coalesced : FlightOf(op) \in Flights
  BY DEF Coalesced, FlightOf, Flights
<1>2. \A a, b \in Coalesced : FlightOf(a) = FlightOf(b) =>
        KeyOf(a) = KeyOf(b) /\ (a = "poll" <=> b = "poll")
  BY DEF Coalesced, FlightOf, KeyOf
<1>3. \A a, b \in Serials : FlightOf(a) = FlightOf(b)
  BY DEF Serials, FlightOf
<1>4. \A op \in Serials : op \in Coalesced /\ KeyOf(op) = "serial_list"
  BY DEF Serials, Coalesced, KeyOf
<1>5. \A op \in {"detail", "invalidate", "delete", "none"} : KeyOf(op) \notin Keys
  BY DEF KeyOf, Keys
<1> QED BY <1>1, <1>2, <1>3, <1>4, <1>5

-----------------------------------------------------------------------------
(***************************************************************************)
(* Type correctness.                                                       *)
(***************************************************************************)
\* The fields of a fresh record, whatever the operation.
LEMMA BeginFields ==
  \A op, pc, lead :
    Begin(op, pc, lead) =
      [op |-> op, pc |-> pc, ver |-> 0, err |-> "none", lead |-> lead,
       since |-> IF op \in Forced \cup {"invalidate"} THEN olt ELSE 0,
       floor |-> IF KeyOf(op) \in Keys THEN quiet[KeyOf(op)] ELSE 0]
BY DEF Begin

\* A fresh record is a well-typed one (the entry of every handler).
LEMMA BeginType ==
  ASSUME TypeOK, NEW op \in Ops, NEW pc \in {"lookup", "walk", "wait", "delete_list"},
         NEW lead \in BOOLEAN
  PROVE  Begin(op, pc, lead) \in Call
BY BeginFields DEF TypeOK, Call, Working

\* An idle goroutine is well typed.
LEMMA IdleType == Idle \in Call
BY DEF Idle, Call

\* Every step keeps the types.
LEMMA TypeStep ==
  ASSUME TypeOK, StageInv, [Next]_vars
  PROVE  TypeOK'
<1> USE DEF TypeOK
<1>1. ASSUME NEW p \in Callers, NEW op \in Coalesced, NEW first \in {"lookup", "walk"},
             Entering(p, op, first)
      PROVE  TypeOK'
  <2>1. Begin(op, first, TRUE) \in Call /\ Begin(op, "wait", FALSE) \in Call
    BY BeginType DEF Ops
  <2>2. FlightOf(op) \in Flights
    BY KeyFacts
  <2> QED BY <1>1, <2>1, <2>2 DEF Entering, Enter, Lead, Join
<1>2. ASSUME NEW p \in Callers, NEW op \in {"invalidate", "delete"}, Clearing(p, op)
      PROVE  TypeOK'
  <2>1. Begin(op, "delete_list", FALSE) \in Call
    BY BeginType DEF Ops
  <2> QED BY <1>2, <2>1 DEF Clearing, Clear
<1>3. ASSUME NEW p \in Callers, Missing(p) PROVE TypeOK'
  BY <1>3 DEF Missing, Miss, Call, Working
<1>4. ASSUME NEW p \in Callers, NEW k \in Keys, Hitting(p, k) PROVE TypeOK'
  BY <1>4 DEF Hitting, Hit, Call, Working
<1>5. ASSUME NEW p \in Callers, NEW r \in Callers, Refreshing(p, r) PROVE TypeOK'
  <2>1. Begin("refresh", "walk", FALSE) \in Call
    BY BeginType DEF Ops
  <2> QED BY <1>5, <2>1 DEF Refreshing, HitAndRefresh, Call, Working, Keys
<1>6. ASSUME NEW p \in Callers, NEW next \in {"get", "save", "finish"}, Walking(p, next)
      PROVE  TypeOK'
  BY <1>6 DEF Walking, Call, Working
<1>7. ASSUME NEW p \in Callers, WalkFailing(p) PROVE TypeOK'
  <2>1. Leave([call[p] EXCEPT !.err = "snmp"]) \in Call
    BY IdleType DEF Leave, Call, Working
  <2> QED BY <1>7, <2>1 DEF WalkFailing
<1>8. ASSUME NEW p \in Callers, SendGet(p) PROVE TypeOK'
  BY <1>8 DEF SendGet, Call, Working
<1>9. ASSUME NEW p \in Callers, GetReturns(p) PROVE TypeOK'
  <2>1. \A q \in Callers : AfterGet(call[q]) \in Call
    BY DEF AfterGet, Call, Working
  <2> QED BY <1>9, <2>1 DEF GetReturns
<1>10. ASSUME NEW p \in Callers, NEW k \in Keys, Saving(p, k) PROVE TypeOK'
  <2>1. Leave(call[p]) \in Call
    BY IdleType DEF Leave, Call, Working
  <2>2. call[p].ver \in Nat
    BY DEF Call
  <2> QED BY <1>10, <2>1, <2>2 DEF Saving, SaveLogged, Store
<1>11. ASSUME NEW p \in Callers, SaveEmpty(p) PROVE TypeOK'
  <2>1. PICK applied \in BOOLEAN, ok \in BOOLEAN :
          /\ Store(p, "empty_onu_id", applied)
          /\ call' = [call EXCEPT ![p] = Leave([@ EXCEPT !.err = Fault(ok)])]
          /\ quiet' = IF ok /\ call[p].op = "update" /\ ~OtherBusy(p, "empty_onu_id")
                        THEN [quiet EXCEPT !["empty_onu_id"] = call[p].ver] ELSE quiet
          /\ UNCHANGED <<olt, flight, get>>
    BY <1>11 DEF SaveEmpty
  <2>2. Leave([call[p] EXCEPT !.err = Fault(ok)]) \in Call
    BY IdleType DEF Leave, Call, Working, Fault
  <2>3. call[p].ver \in Nat
    BY DEF Call
  <2> QED BY <2>1, <2>2, <2>3 DEF Store
<1>12. ASSUME NEW p \in Callers, DeleteList(p) PROVE TypeOK'
  BY <1>12 DEF DeleteList, NoteCleared, Removed, Absent, Fault, Call, Working
<1>13. ASSUME NEW p \in Callers, DeleteSerial(p) PROVE TypeOK'
  <2>1. PICK applied \in BOOLEAN, ok \in BOOLEAN :
          /\ cache' = IF applied THEN Removed("serial_list") ELSE cache
          /\ NoteCleared(p, "serial_list", ok)
    BY <1>13 DEF DeleteSerial
  <2>2. cache' \in [Keys -> [ver : Nat, low : BOOLEAN]]
    BY <2>1 DEF Removed, Absent
  <2>3. quiet' \in [Keys -> Nat]
    BY <2>1 DEF NoteCleared
  <2>4. call' \in [Callers -> Call]
    BY <1>13 DEF DeleteSerial, Call
  <2> QED BY <1>13, <2>2, <2>3, <2>4 DEF DeleteSerial
<1>14. ASSUME NEW p \in Callers, Finish(p) PROVE TypeOK'
  <2>1. \A q \in Callers :
          /\ [call[q] EXCEPT !.pc = "done"] \in Call
          /\ [call[q] EXCEPT !.pc = "done", !.ver = call[p].ver, !.err = call[p].err] \in Call
    BY DEF Call
  <2>2. call' \in [Callers -> Call]
    BY <1>14, <2>1 DEF Finish
  <2> QED BY <1>14, <2>2 DEF Finish
<1>15. ASSUME NEW p \in Callers, Answer(p) PROVE TypeOK'
  BY <1>15, IdleType DEF Answer
<1>16. CASE Provision
  BY <1>16 DEF Provision
<1>17. CASE AgeList
  BY <1>17 DEF AgeList
<1>18. ASSUME NEW k \in Keys, Expire(k) PROVE TypeOK'
  BY <1>18 DEF Expire, Absent
<1>19. CASE UNCHANGED vars
  BY <1>19 DEF vars
<1> QED BY Steps, <1>1, <1>2, <1>3, <1>4, <1>5, <1>6, <1>7, <1>8, <1>9, <1>10, <1>11,
           <1>12, <1>13, <1>14, <1>15, <1>16, <1>17, <1>18, <1>19

-----------------------------------------------------------------------------
(***************************************************************************)
(* Stages and flights.                                                     *)
(***************************************************************************)
\* Every step moves a goroutine only along the stages of its operation.
LEMMA StageStep ==
  ASSUME TypeOK, StageInv, [Next]_vars
  PROVE  StageInv'
<1> USE DEF StageInv, StageOf, TypeOK
<1> SUFFICES ASSUME NEW q \in Callers PROVE StageOf(q)'
  BY DEF StageInv
<1>1. ASSUME NEW p \in Callers, NEW op \in Coalesced, NEW first \in {"lookup", "walk"},
             Entering(p, op, first)
      PROVE  StageOf(q)'
  <2>1. call' = [call EXCEPT ![p] = Begin(op, first, TRUE)]
        \/ call' = [call EXCEPT ![p] = Begin(op, "wait", FALSE)]
    BY <1>1 DEF Entering, Enter, Lead, Join
  <2>2. CASE call' = [call EXCEPT ![p] = Begin(op, first, TRUE)]
    BY <2>2, BeginFields DEF Ops, Coalesced
  <2>3. CASE call' = [call EXCEPT ![p] = Begin(op, "wait", FALSE)]
    BY <2>3, BeginFields DEF Ops, Coalesced
  <2> QED BY <2>1, <2>2, <2>3
<1>2. ASSUME NEW p \in Callers, NEW op \in {"invalidate", "delete"}, Clearing(p, op)
      PROVE  StageOf(q)'
  BY <1>2, BeginFields DEF Clearing, Clear, Call, Ops, Coalesced
<1>3. ASSUME NEW p \in Callers, Missing(p) PROVE StageOf(q)'
  BY <1>3 DEF Missing, Miss, Coalesced
<1>4. ASSUME NEW p \in Callers, NEW k \in Keys, Hitting(p, k) PROVE StageOf(q)'
  BY <1>4 DEF Hitting, Hit, Forced, Coalesced
<1>5. ASSUME NEW p \in Callers, NEW r \in Callers, Refreshing(p, r) PROVE StageOf(q)'
  BY <1>5, BeginFields DEF Refreshing, HitAndRefresh, Call, Ops, Coalesced
<1>6. ASSUME NEW p \in Callers, NEW next \in {"get", "save", "finish"}, Walking(p, next)
      PROVE  StageOf(q)'
  BY <1>6 DEF Walking, Call, Serials, Coalesced
<1>7. ASSUME NEW p \in Callers, WalkFailing(p) PROVE StageOf(q)'
  BY <1>7 DEF WalkFailing, Leave, Call, Idle, Coalesced
<1>8. ASSUME NEW p \in Callers, SendGet(p) PROVE StageOf(q)'
  <2>1. call[p].pc = "get"
    BY <1>8 DEF SendGet
  <2>2. call' = [call EXCEPT ![p].pc = "getting"] \/ call' = [call EXCEPT ![p].pc = "getwait"]
    BY <1>8 DEF SendGet
  <2> QED BY <2>1, <2>2 DEF Call
<1>9. ASSUME NEW p \in Callers, GetReturns(p) PROVE StageOf(q)'
  BY <1>9, KeyFacts DEF GetReturns, AfterGet, Call, Serials, KeyOf, Keys
<1>10. ASSUME NEW p \in Callers, NEW k \in Keys, Saving(p, k) PROVE StageOf(q)'
  BY <1>10 DEF Saving, SaveLogged, Leave, Call, Idle, Coalesced
<1>11. ASSUME NEW p \in Callers, SaveEmpty(p) PROVE StageOf(q)'
  <2>1. call[p].op \in {"empty", "update"} /\ call[p].pc = "save"
    BY <1>11 DEF SaveEmpty
  <2>2. PICK e \in {"none", "redis"} : call' = [call EXCEPT ![p] = Leave([@ EXCEPT !.err = e])]
    BY <1>11 DEF SaveEmpty, Fault
  <2> QED BY <2>1, <2>2 DEF Leave, Call, Coalesced
<1>12. ASSUME NEW p \in Callers, DeleteList(p) PROVE StageOf(q)'
  BY <1>12 DEF DeleteList, Fault, Coalesced
<1>13. ASSUME NEW p \in Callers, DeleteSerial(p) PROVE StageOf(q)'
  BY <1>13 DEF DeleteSerial, Call, Coalesced
<1>14. ASSUME NEW p \in Callers, Finish(p) PROVE StageOf(q)'
  <2>1. call[p].pc = "finish"
    BY <1>14 DEF Finish
  <2>2. \/ call'[q] = call[q]
        \/ q = p /\ call'[q] = [call[q] EXCEPT !.pc = "done"]
        \/ /\ call[q].pc = "wait"
           /\ call'[q] = [call[q] EXCEPT !.pc = "done", !.ver = call[p].ver, !.err = call[p].err]
    BY <1>14 DEF Finish
  <2>3. CASE call'[q] = call[q]
    BY <2>3
  <2>4. CASE q = p /\ call'[q] = [call[q] EXCEPT !.pc = "done"]
    BY <2>1, <2>4 DEF Call, Coalesced, Ops
  <2>5. CASE /\ call[q].pc = "wait"
             /\ call'[q] = [call[q] EXCEPT !.pc = "done", !.ver = call[p].ver, !.err = call[p].err]
    BY <2>5 DEF Call, Coalesced, Ops
  <2> QED BY <2>2, <2>3, <2>4, <2>5
<1>15. ASSUME NEW p \in Callers, Answer(p) PROVE StageOf(q)'
  BY <1>15 DEF Answer, Idle, Coalesced
<1>16. CASE Provision
  BY <1>16 DEF Provision
<1>17. CASE AgeList
  BY <1>17 DEF AgeList
<1>18. ASSUME NEW k \in Keys, Expire(k) PROVE StageOf(q)'
  BY <1>18 DEF Expire
<1>19. CASE UNCHANGED vars
  BY <1>19 DEF vars
<1> QED BY Steps, <1>1, <1>2, <1>3, <1>4, <1>5, <1>6, <1>7, <1>8, <1>9, <1>10, <1>11,
           <1>12, <1>13, <1>14, <1>15, <1>16, <1>17, <1>18, <1>19

\* What Finish does to one caller.
LEMMA FinishEffect ==
  ASSUME NEW p \in Callers, Finish(p), NEW q \in Callers
  PROVE  /\ call[p].pc = "finish"
         /\ \/ /\ call'[q] = call[q] /\ q # p
               /\ call[q].pc = "wait" => FlightOf(call[q].op) # FlightOf(call[p].op)
            \/ q = p /\ call'[q] = [call[q] EXCEPT !.pc = "done"]
            \/ /\ q # p /\ call[q].pc = "wait" /\ FlightOf(call[q].op) = FlightOf(call[p].op)
               /\ call'[q] = [call[q] EXCEPT !.pc = "done", !.ver = call[p].ver,
                                             !.err = call[p].err]
BY DEF Finish

\* q goes on executing or waiting as it did, or did neither and does neither.
Busy(q) == call[q].pc = "wait" \/ (call[q].op \in Coalesced /\ call[q].pc \in Working)

SameRole(q) ==
  \/ /\ call'[q].op = call[q].op
     /\ call'[q].pc \in Working <=> call[q].pc \in Working
     /\ call'[q].pc = "wait" <=> call[q].pc = "wait"
  \/ ~Busy(q) /\ ~Busy(q)'

\* A step that leaves the flights and everybody's role in them alone keeps FlightInv.
LEMMA FlightFrame ==
  ASSUME TypeOK, FlightInv, flight' = flight, \A q \in Callers : SameRole(q)
  PROVE  FlightInv'
BY DEF TypeOK, FlightInv, SameRole, Busy, Working

\* Every step keeps the flight table and the goroutines in agreement: a flight is taken
\* by its leader only and given up only when the leader is done (singleflight.Do).
LEMMA FlightStep ==
  ASSUME TypeOK, StageInv, FlightInv, [Next]_vars
  PROVE  FlightInv'
<1> USE DEF TypeOK
<1>1. ASSUME NEW p \in Callers, NEW op \in Coalesced, NEW first \in {"lookup", "walk"},
             Entering(p, op, first)
      PROVE  FlightInv'
  <2> DEFINE f == FlightOf(op)
  <2>1. f \in Flights /\ p # NoCaller
    BY KeyFacts, CallersAssumption
  <2>2. CASE /\ flight[f] = NoCaller /\ flight' = [flight EXCEPT ![f] = p]
             /\ call' = [call EXCEPT ![p] = Begin(op, first, TRUE)]
    <3>1. /\ call'[p].op = op /\ call'[p].pc = first
          /\ \A q \in Callers : q # p => call'[q] = call[q]
      BY <2>2, BeginFields
    <3>2. call[p].pc = "idle"
      BY <1>1 DEF Entering, Enter
    <3> HIDE DEF f
    <3>3. \A q \in Callers : call'[q].op \in Coalesced /\ call'[q].pc \in Working =>
            flight'[FlightOf(call'[q].op)] = q
      <4> TAKE q \in Callers
      <4>1. CASE q = p
        BY <4>1, <3>1, <2>1, <2>2 DEF f
      <4>2. CASE q # p
        BY <4>2, <3>1, <2>1, <2>2, CallersAssumption DEF FlightInv
      <4> QED BY <4>1, <4>2
    <3>4. \A q \in Callers : call'[q].pc = "wait" =>
            call'[q].op \in Coalesced /\ flight'[FlightOf(call'[q].op)] # NoCaller
      <4> TAKE q \in Callers
      <4>1. CASE q = p
        BY <4>1, <3>1
      <4>2. CASE q # p
        BY <4>2, <3>1, <2>1, <2>2, KeyFacts DEF FlightInv
      <4> QED BY <4>1, <4>2
    <3>5. \A g \in Flights : flight'[g] # NoCaller =>
            /\ call'[flight'[g]].op \in Coalesced
            /\ call'[flight'[g]].pc \in Working
            /\ FlightOf(call'[flight'[g]].op) = g
      <4> TAKE g \in Flights
      <4>1. CASE g = f
        BY <4>1, <3>1, <2>1, <2>2 DEF f, Working
      <4>2. CASE g # f
        <5> SUFFICES ASSUME flight[g] # NoCaller
                     PROVE  /\ call'[flight[g]].op \in Coalesced
                            /\ call'[flight[g]].pc \in Working
                            /\ FlightOf(call'[flight[g]].op) = g
          BY <4>2, <2>1, <2>2
        <5>1. flight[g] \in Callers
          OBVIOUS
        <5>2. flight[g] # p
          BY <3>2 DEF FlightInv, Working
        <5> QED BY <5>1, <5>2, <3>1 DEF FlightInv
      <4> QED BY <4>1, <4>2
    <3> QED BY <3>3, <3>4, <3>5 DEF FlightInv
  <2>3. CASE /\ flight[f] # NoCaller /\ flight' = flight
             /\ call' = [call EXCEPT ![p] = Begin(op, "wait", FALSE)]
    <3>1. /\ call'[p].op = op /\ call'[p].pc = "wait"
          /\ \A q \in Callers : q # p => call'[q] = call[q]
      BY <2>3, BeginFields
    <3>2. call[p].pc = "idle"
      BY <1>1 DEF Entering, Enter
    <3>3. \A q \in Callers : call'[q].op \in Coalesced /\ call'[q].pc \in Working =>
            q # p /\ flight[FlightOf(call'[q].op)] = q
      BY <3>1 DEF FlightInv, Working
    <3>4. \A q \in Callers : call'[q].pc = "wait" =>
            call'[q].op \in Coalesced /\ flight[FlightOf(call'[q].op)] # NoCaller
      <4> TAKE q \in Callers
      <4>1. CASE q = p
        BY <4>1, <3>1, <2>3 DEF f
      <4>2. CASE q # p
        BY <4>2, <3>1 DEF FlightInv
      <4> QED BY <4>1, <4>2
    <3>5. ASSUME NEW g \in Flights, flight[g] # NoCaller
          PROVE  /\ call'[flight[g]].op \in Coalesced
                 /\ call'[flight[g]].pc \in Working
                 /\ FlightOf(call'[flight[g]].op) = g
      <4>1. flight[g] \in Callers
        BY <3>5
      <4>2. flight[g] # p
        BY <3>2, <3>5 DEF FlightInv, Working
      <4> QED BY <3>5, <4>1, <4>2, <3>1 DEF FlightInv
    <3> QED BY <3>3, <3>4, <3>5, <2>3 DEF FlightInv
  <2> QED BY <1>1, <2>2, <2>3 DEF Entering, Enter, Lead, Join
<1>2. ASSUME NEW p \in Callers, Finish(p) PROVE FlightInv'
  <2> DEFINE f == FlightOf(call[p].op)
  <2>1. /\ call[p].pc = "finish" /\ call[p].op \in Coalesced
        /\ flight' = [flight EXCEPT ![f] = NoCaller]
    BY <1>2 DEF Finish, StageInv, StageOf, Ops
  <2>2. f \in Flights /\ flight[f] = p
    BY <2>1, KeyFacts DEF FlightInv, Working
  <2>3. \A q \in Callers :
          \/ /\ call'[q] = call[q] /\ q # p
             /\ call[q].pc = "wait" => FlightOf(call[q].op) # f
          \/ call'[q].pc = "done"
    <3> TAKE q \in Callers
    <3>1. [call[q] EXCEPT !.pc = "done"].pc = "done"
          /\ [call[q] EXCEPT !.pc = "done", !.ver = call[p].ver, !.err = call[p].err].pc = "done"
      BY DEF Call
    <3> QED BY <1>2, <3>1, FinishEffect
  <2> HIDE DEF f
  <2>4. \A q \in Callers : call'[q].op \in Coalesced /\ call'[q].pc \in Working =>
          flight'[FlightOf(call'[q].op)] = q
    BY <2>1, <2>2, <2>3, KeyFacts DEF FlightInv, Working
  <2>5. \A q \in Callers : call'[q].pc = "wait" =>
          call'[q].op \in Coalesced /\ flight'[FlightOf(call'[q].op)] # NoCaller
    BY <2>1, <2>2, <2>3, KeyFacts DEF FlightInv
  <2>6. \A g \in Flights : flight'[g] # NoCaller =>
          /\ call'[flight'[g]].op \in Coalesced
          /\ call'[flight'[g]].pc \in Working
          /\ FlightOf(call'[flight'[g]].op) = g
    <3> TAKE g \in Flights
    <3> HAVE flight'[g] # NoCaller
    <3>1. g # f /\ flight'[g] = flight[g] /\ flight[g] \in Callers
      BY <2>1, <2>2
    <3>2. flight[g] # p /\ call[flight[g]].pc \in Working
      BY <3>1, <2>1, <2>2 DEF FlightInv, f
    <3>3. call'[flight[g]] = call[flight[g]]
      <4> DEFINE q == flight[g]
      <4>1. call'[q] = call[q] \/ call[q].pc = "wait"
        BY <1>2, <3>1, <3>2, FinishEffect
      <4> QED BY <4>1, <3>2 DEF Working
    <3> QED BY <3>1, <3>2, <3>3 DEF FlightInv
  <2> QED BY <2>4, <2>5, <2>6 DEF FlightInv
<1>3. ASSUME NEW p \in Callers, NEW op \in {"invalidate", "delete"}, Clearing(p, op)
      PROVE  FlightInv'
  <2>1. flight' = flight
    BY <1>3 DEF Clearing, Clear
  <2>2. ASSUME NEW q \in Callers PROVE SameRole(q)
    BY <1>3, BeginFields DEF Clearing, Clear, Coalesced, Call, Working, SameRole, Busy, StageInv, StageOf
  <2> QED BY <2>1, <2>2, FlightFrame
<1>4. ASSUME NEW p \in Callers, Missing(p) PROVE FlightInv'
  <2>1. flight' = flight
    BY <1>4 DEF Missing
  <2>2. ASSUME NEW q \in Callers PROVE SameRole(q)
    BY <1>4 DEF Missing, Miss, Working, Call, SameRole, Busy
  <2> QED BY <2>1, <2>2, FlightFrame
<1>5. ASSUME NEW p \in Callers, NEW k \in Keys, Hitting(p, k) PROVE FlightInv'
  <2>1. flight' = flight
    BY <1>5 DEF Hitting, Hit
  <2>2. ASSUME NEW q \in Callers PROVE SameRole(q)
    BY <1>5 DEF Hitting, Hit, Working, Call, SameRole, Busy
  <2> QED BY <2>1, <2>2, FlightFrame
<1>6. ASSUME NEW p \in Callers, NEW r \in Callers, Refreshing(p, r) PROVE FlightInv'
  <2>1. flight' = flight
    BY <1>6 DEF Refreshing, HitAndRefresh
  <2>2. ASSUME NEW q \in Callers PROVE SameRole(q)
    BY <1>6, BeginFields DEF Refreshing, HitAndRefresh, Coalesced, Working, Call, SameRole, Busy, StageInv, StageOf
  <2> QED BY <2>1, <2>2, FlightFrame
<1>7. ASSUME NEW p \in Callers, NEW next \in {"get", "save", "finish"}, Walking(p, next)
      PROVE  FlightInv'
  <2>1. flight' = flight
    BY <1>7 DEF Walking
  <2>2. ASSUME NEW q \in Callers PROVE SameRole(q)
    BY <1>7 DEF Walking, Working, Call, SameRole, Busy
  <2> QED BY <2>1, <2>2, FlightFrame
<1>8. ASSUME NEW p \in Callers, WalkFailing(p) PROVE FlightInv'
  <2>1. flight' = flight
    BY <1>8 DEF WalkFailing
  <2>2. ASSUME NEW q \in Callers PROVE SameRole(q)
    BY <1>8 DEF WalkFailing, Leave, Idle, Coalesced, Working, Call, SameRole, Busy, StageInv, StageOf
  <2> QED BY <2>1, <2>2, FlightFrame
<1>9. ASSUME NEW p \in Callers, SendGet(p) PROVE FlightInv'
  <2>1. flight' = flight
    BY <1>9 DEF SendGet
  <2>2. ASSUME NEW q \in Callers PROVE SameRole(q)
    BY <1>9 DEF SendGet, Working, Call, SameRole, Busy
  <2> QED BY <2>1, <2>2, FlightFrame
<1>10. ASSUME NEW p \in Callers, GetReturns(p) PROVE FlightInv'
  <2>1. flight' = flight
    BY <1>10 DEF GetReturns
  <2>2. ASSUME NEW q \in Callers PROVE SameRole(q)
    BY <1>10 DEF GetReturns, AfterGet, Working, Call, SameRole, Busy
  <2> QED BY <2>1, <2>2, FlightFrame
<1>11. ASSUME NEW p \in Callers, NEW k \in Keys, Saving(p, k) PROVE FlightInv'
  <2>1. flight' = flight
    BY <1>11 DEF Saving, SaveLogged
  <2>2. ASSUME NEW q \in Callers PROVE SameRole(q)
    BY <1>11 DEF Saving, SaveLogged, Leave, Idle, Coalesced, Working, Call, SameRole, Busy, StageInv, StageOf
  <2> QED BY <2>1, <2>2, FlightFrame
<1>12. ASSUME NEW p \in Callers, SaveEmpty(p) PROVE FlightInv'
  <2>1. flight' = flight
    BY <1>12 DEF SaveEmpty
  <2>2. ASSUME NEW q \in Callers PROVE SameRole(q)
    BY <1>12 DEF SaveEmpty, Leave, Fault, Coalesced, Working, Call, SameRole, Busy
  <2> QED BY <2>1, <2>2, FlightFrame
<1>13. ASSUME NEW p \in Callers, DeleteList(p) PROVE FlightInv'
  <2>1. flight' = flight
    BY <1>13 DEF DeleteList
  <2>2. ASSUME NEW q \in Callers PROVE SameRole(q)
    BY <1>13 DEF DeleteList, Fault, Coalesced, Working, Call, Ops, SameRole, Busy, StageInv, StageOf
  <2> QED BY <2>1, <2>2, FlightFrame
<1>14. ASSUME NEW p \in Callers, DeleteSerial(p) PROVE FlightInv'
  <2>1. flight' = flight
    BY <1>14 DEF DeleteSerial
  <2>2. ASSUME NEW q \in Callers PROVE SameRole(q)
    BY <1>14 DEF DeleteSerial, Coalesced, Working, Call, Ops, SameRole, Busy, StageInv, StageOf
  <2> QED BY <2>1, <2>2, FlightFrame
<1>15. ASSUME NEW p \in Callers, Answer(p) PROVE FlightInv'
  <2>1. flight' = flight
    BY <1>15 DEF Answer
  <2>2. ASSUME NEW q \in Callers PROVE SameRole(q)
    BY <1>15 DEF Answer, Idle, Working, Coalesced, Call, SameRole, Busy, StageInv, StageOf
  <2> QED BY <2>1, <2>2, FlightFrame
<1>16. CASE Provision
  <2>1. flight' = flight
    BY <1>16 DEF Provision
  <2>2. ASSUME NEW q \in Callers PROVE SameRole(q)
    BY <1>16 DEF Provision, SameRole, Busy
  <2> QED BY <2>1, <2>2, FlightFrame
<1>17. CASE AgeList
  <2>1. flight' = flight
    BY <1>17 DEF AgeList
  <2>2. ASSUME NEW q \in Callers PROVE SameRole(q)
    BY <1>17 DEF AgeList, SameRole, Busy
  <2> QED BY <2>1, <2>2, FlightFrame
<1>18. ASSUME NEW k \in Keys, Expire(k) PROVE FlightInv'
  <2>1. flight' = flight
    BY <1>18 DEF Expire
  <2>2. ASSUME NEW q \in Callers PROVE SameRole(q)
    BY <1>18 DEF Expire, SameRole, Busy
  <2> QED BY <2>1, <2>2, FlightFrame
<1>19. CASE UNCHANGED vars
  <2>1. flight' = flight
    BY <1>19 DEF vars
  <2>2. ASSUME NEW q \in Callers PROVE SameRole(q)
    BY <1>19 DEF vars, SameRole, Busy
  <2> QED BY <2>1, <2>2, FlightFrame
<1> QED BY Steps, <1>1, <1>2, <1>3, <1>4, <1>5, <1>6, <1>7, <1>8, <1>9, <1>10, <1>11,
           <1>12, <1>13, <1>14, <1>15, <1>16, <1>17, <1>18, <1>19

-----------------------------------------------------------------------------
SameGet(q) ==
  /\ call'[q].pc = "getting" <=> call[q].pc = "getting"
  /\ call'[q].pc = "getwait" <=> call[q].pc = "getwait"

\* A step that touches no Get in transit keeps GetInv.
LEMMA GetFrame ==
  ASSUME TypeOK, GetInv, get' = get, \A q \in Callers : SameGet(q)
  PROVE  GetInv'
BY DEF TypeOK, GetInv, SameGet

\* Every step keeps the Get in transit and its waiters in agreement.
LEMMA GetStep ==
  ASSUME TypeOK, StageInv, GetInv, [Next]_vars
  PROVE  GetInv'
<1> USE DEF TypeOK
<1>1. ASSUME NEW p \in Callers, SendGet(p) PROVE GetInv'
  BY <1>1, CallersAssumption DEF SendGet, GetInv, Call
<1>2. ASSUME NEW p \in Callers, GetReturns(p) PROVE GetInv'
  <2>1. call[p].pc = "getting" /\ get = p /\ get' = NoCaller
    BY <1>2 DEF GetReturns, GetInv
  <2>2. ASSUME NEW q \in Callers
        PROVE  call'[q].pc \notin {"getting", "getwait"}
    <3>1. CASE q = p \/ call[q].pc = "getwait"
      BY <1>2, <3>1 DEF GetReturns, AfterGet, Call
    <3>2. CASE ~(q = p \/ call[q].pc = "getwait")
      BY <1>2, <2>1, <3>2 DEF GetReturns, GetInv
    <3> QED BY <3>1, <3>2
  <2> QED BY <2>1, <2>2 DEF GetInv
<1>3. ASSUME NEW p \in Callers, NEW op \in Coalesced, NEW first \in {"lookup", "walk"},
             Entering(p, op, first)
      PROVE  GetInv'
  <2>1. get' = get
    BY <1>3 DEF Entering, Enter
  <2>2. ASSUME NEW q \in Callers PROVE SameGet(q)
    <3>1. CASE q = p
      <4>1. call[p].pc = "idle"
        BY <1>3 DEF Entering, Enter
      <4>2. \/ call' = [call EXCEPT ![p] = Begin(op, first, TRUE)]
            \/ call' = [call EXCEPT ![p] = Begin(op, "wait", FALSE)]
        BY <1>3 DEF Entering, Enter, Lead, Join
      <4>3. call'[p].pc \in {first, "wait"}
        <5>1. Begin(op, first, TRUE).pc = first /\ Begin(op, "wait", FALSE).pc = "wait"
          BY BeginFields
        <5> QED BY <4>2, <5>1
      <4> QED BY <3>1, <4>1, <4>3 DEF SameGet
    <3>2. CASE q # p
      BY <1>3, <3>2 DEF Entering, Enter, Lead, Join, SameGet
    <3> QED BY <3>1, <3>2
  <2> QED BY <2>1, <2>2, GetFrame
<1>4. ASSUME NEW p \in Callers, Finish(p) PROVE GetInv'
  <2>1. get' = get
    BY <1>4 DEF Finish
  <2>2. ASSUME NEW q \in Callers PROVE SameGet(q)
    <3>1. [call[q] EXCEPT !.pc = "done"].pc = "done"
          /\ [call[q] EXCEPT !.pc = "done", !.ver = call[p].ver, !.err = call[p].err].pc = "done"
      BY DEF Call
    <3>2. call'[q] = call[q] \/ (call[q].pc \in {"finish", "wait"} /\ call'[q].pc = "done")
      BY <1>4, <3>1, FinishEffect
    <3> QED BY <3>2 DEF SameGet
  <2> QED BY <2>1, <2>2, GetFrame
<1>5. ASSUME NEW p \in Callers, NEW op \in {"invalidate", "delete"}, Clearing(p, op)
      PROVE  GetInv'
  <2>1. get' = get
    BY <1>5 DEF Clearing, Clear
  <2>2. ASSUME NEW q \in Callers PROVE SameGet(q)
    BY <1>5, BeginFields DEF Clearing, Clear, Call, SameGet, StageInv, StageOf
  <2> QED BY <2>1, <2>2, GetFrame
<1>6. ASSUME NEW p \in Callers, Missing(p) PROVE GetInv'
  <2>1. get' = get
    BY <1>6 DEF Missing
  <2>2. ASSUME NEW q \in Callers PROVE SameGet(q)
    BY <1>6 DEF Missing, Miss, Call, SameGet
  <2> QED BY <2>1, <2>2, GetFrame
<1>7. ASSUME NEW p \in Callers, NEW k \in Keys, Hitting(p, k) PROVE GetInv'
  <2>1. get' = get
    BY <1>7 DEF Hitting
  <2>2. ASSUME NEW q \in Callers PROVE SameGet(q)
    BY <1>7 DEF Hitting, Hit, Call, SameGet
  <2> QED BY <2>1, <2>2, GetFrame
<1>8. ASSUME NEW p \in Callers, NEW r \in Callers, Refreshing(p, r) PROVE GetInv'
  <2>1. get' = get
    BY <1>8 DEF Refreshing, HitAndRefresh
  <2>2. ASSUME NEW q \in Callers PROVE SameGet(q)
    BY <1>8, BeginFields DEF Refreshing, HitAndRefresh, Call, SameGet, Idle, StageInv, StageOf
  <2> QED BY <2>1, <2>2, GetFrame
<1>9. ASSUME NEW p \in Callers, NEW next \in {"get", "save", "finish"}, Walking(p, next)
      PROVE  GetInv'
  <2>1. get' = get
    BY <1>9 DEF Walking
  <2>2. ASSUME NEW q \in Callers PROVE SameGet(q)
    BY <1>9 DEF Walking, Call, SameGet
  <2> QED BY <2>1, <2>2, GetFrame
<1>10. ASSUME NEW p \in Callers, WalkFailing(p) PROVE GetInv'
  <2>1. get' = get
    BY <1>10 DEF WalkFailing
  <2>2. ASSUME NEW q \in Callers PROVE SameGet(q)
    BY <1>10 DEF WalkFailing, Leave, Call, SameGet, Idle, StageInv, StageOf
  <2> QED BY <2>1, <2>2, GetFrame
<1>11. ASSUME NEW p \in Callers, NEW k \in Keys, Saving(p, k) PROVE GetInv'
  <2>1. get' = get
    BY <1>11 DEF Saving, SaveLogged
  <2>2. ASSUME NEW q \in Callers PROVE SameGet(q)
    BY <1>11 DEF Saving, SaveLogged, Leave, Call, SameGet, Idle, StageInv, StageOf
  <2> QED BY <2>1, <2>2, GetFrame
<1>12. ASSUME NEW p \in Callers, SaveEmpty(p) PROVE GetInv'
  <2>1. get' = get
    BY <1>12 DEF SaveEmpty
  <2>2. ASSUME NEW q \in Callers PROVE SameGet(q)
    BY <1>12 DEF SaveEmpty, Leave, Fault, Call, SameGet, Idle
  <2> QED BY <2>1, <2>2, GetFrame
<1>13. ASSUME NEW p \in Callers, DeleteList(p) PROVE GetInv'
  <2>1. get' = get
    BY <1>13 DEF DeleteList
  <2>2. ASSUME NEW q \in Callers PROVE SameGet(q)
    BY <1>13 DEF DeleteList, Fault, Call, SameGet
  <2> QED BY <2>1, <2>2, GetFrame
<1>14. ASSUME NEW p \in Callers, DeleteSerial(p) PROVE GetInv'
  <2>1. get' = get
    BY <1>14 DEF DeleteSerial
  <2>2. ASSUME NEW q \in Callers PROVE SameGet(q)
    BY <1>14 DEF DeleteSerial, Call, SameGet
  <2> QED BY <2>1, <2>2, GetFrame
<1>15. ASSUME NEW p \in Callers, Answer(p) PROVE GetInv'
  <2>1. get' = get
    BY <1>15 DEF Answer
  <2>2. ASSUME NEW q \in Callers PROVE SameGet(q)
    BY <1>15 DEF Answer, Call, SameGet, Idle, StageInv, StageOf
  <2> QED BY <2>1, <2>2, GetFrame
<1>16. CASE Provision
  <2>1. get' = get
    BY <1>16 DEF Provision
  <2>2. ASSUME NEW q \in Callers PROVE SameGet(q)
    BY <1>16 DEF Provision, Call, SameGet
  <2> QED BY <2>1, <2>2, GetFrame
<1>17. CASE AgeList
  <2>1. get' = get
    BY <1>17 DEF AgeList
  <2>2. ASSUME NEW q \in Callers PROVE SameGet(q)
    BY <1>17 DEF AgeList, Call, SameGet
  <2> QED BY <2>1, <2>2, GetFrame
<1>18. ASSUME NEW k \in Keys, Expire(k) PROVE GetInv'
  <2>1. get' = get
    BY <1>18 DEF Expire
  <2>2. ASSUME NEW q \in Callers PROVE SameGet(q)
    BY <1>18 DEF Expire, Call, SameGet
  <2> QED BY <2>1, <2>2, GetFrame
<1>19. CASE UNCHANGED vars
  <2>1. get' = get
    BY <1>19 DEF vars
  <2>2. ASSUME NEW q \in Callers PROVE SameGet(q)
    BY <1>19 DEF vars, Call, SameGet
  <2> QED BY <2>1, <2>2, GetFrame
<1> QED BY Steps, <1>1, <1>2, <1>3, <1>4, <1>5, <1>6, <1>7, <1>8, <1>9, <1>10, <1>11,
           <1>12, <1>13, <1>14, <1>15, <1>16, <1>17, <1>18, <1>19

-----------------------------------------------------------------------------
(***************************************************************************)
(* Freshness after quiet clears.                                           *)
(***************************************************************************)

\* A step that leaves the OLT, Redis and the history alone disturbs only the
\* callers it changes.
LEMMA FreshFrame ==
  ASSUME TypeOK, FreshInv, olt' = olt, cache' = cache, quiet' = quiet,
         \A q \in Callers : call'[q] = call[q] \/ CallFresh(q)'
  PROVE  FreshInv'
<1>1. \A k \in Keys : KeyFresh(k)'
  BY DEF FreshInv, KeyFresh
<1>2. ASSUME NEW q \in Callers, call'[q] = call[q] PROVE CallFresh(q)'
  BY <1>2 DEF FreshInv, CallFresh, Answered
<1> QED BY <1>1, <1>2 DEF FreshInv

\* No step stores, holds or hands out anything older than a quiet clear of its key.
LEMMA FreshStep ==
  ASSUME TypeOK, StageInv, FlightInv, FreshInv, [Next]_vars
  PROVE  FreshInv'
<1> USE DEF TypeOK
<1>1. ASSUME NEW p \in Callers, NEW op \in Coalesced, NEW first \in {"lookup", "walk"},
             Entering(p, op, first)
      PROVE  FreshInv'
  <2>1. \/ call' = [call EXCEPT ![p] = Begin(op, first, TRUE)]
        \/ call' = [call EXCEPT ![p] = Begin(op, "wait", FALSE)]
    BY <1>1 DEF Entering, Enter, Lead, Join
  <2>2. olt' = olt /\ cache' = cache /\ quiet' = quiet
    BY <1>1 DEF Entering, Enter
  <2>3. /\ call'[p].op = op /\ call'[p].pc \in {"lookup", "walk", "wait"}
        /\ KeyOf(op) \in Keys => call'[p].floor = quiet[KeyOf(op)]
    <3>1. LET b == Begin(op, first, TRUE) IN
            b.op = op /\ b.pc = first /\ (KeyOf(op) \in Keys => b.floor = quiet[KeyOf(op)])
      BY BeginFields
    <3>2. LET b == Begin(op, "wait", FALSE) IN
            b.op = op /\ b.pc = "wait" /\ (KeyOf(op) \in Keys => b.floor = quiet[KeyOf(op)])
      BY BeginFields
    <3> QED BY <2>1, <3>1, <3>2
  <2>4. KeyOf(op) \in Keys => quiet[KeyOf(op)] \in Nat
    OBVIOUS
  <2>5. CallFresh(p)'
    BY <2>2, <2>3, <2>4 DEF CallFresh, Holding, Answered
  <2>6. \A q \in Callers : q # p => call'[q] = call[q]
    BY <2>1
  <2> QED BY <2>2, <2>5, <2>6, FreshFrame
<1>2. ASSUME NEW p \in Callers, NEW op \in {"invalidate", "delete"}, Clearing(p, op)
      PROVE  FreshInv'
  <2>1. olt' = olt /\ cache' = cache /\ quiet' = quiet
        /\ call' = [call EXCEPT ![p] = Begin(op, "delete_list", FALSE)]
    BY <1>2 DEF Clearing, Clear
  <2>2. call'[p].op = op
    BY <2>1, BeginFields
  <2>3. CallFresh(p)'
    BY <2>2, KeyFacts DEF CallFresh
  <2>4. \A q \in Callers : q # p => call'[q] = call[q]
    BY <2>1
  <2> QED BY <2>1, <2>3, <2>4, FreshFrame
<1>3. ASSUME NEW p \in Callers, Missing(p) PROVE FreshInv'
  <2>1. olt' = olt /\ cache' = cache /\ quiet' = quiet
        /\ call[p].pc = "lookup" /\ call' = [call EXCEPT ![p].pc = "walk"]
    BY <1>3 DEF Missing, Miss
  <2>2. CallFresh(p)
    BY DEF FreshInv
  <2>3. CallFresh(p)'
    BY <2>1, <2>2 DEF CallFresh, Answered, Holding, Call
  <2>4. \A q \in Callers : q # p => call'[q] = call[q]
    BY <2>1
  <2> QED BY <2>1, <2>3, <2>4, FreshFrame
<1>4. ASSUME NEW p \in Callers, NEW k \in Keys, Hitting(p, k) PROVE FreshInv'
  <2>1. /\ olt' = olt /\ cache' = cache /\ quiet' = quiet
        /\ call[p].pc = "lookup" /\ KeyOf(call[p].op) = k /\ cache[k].ver # 0
        /\ call' = [call EXCEPT ![p].ver = cache[k].ver, ![p].pc = "finish"]
    BY <1>4 DEF Hitting, Hit, Served
  <2>2. CallFresh(p) /\ KeyFresh(k)
    BY DEF FreshInv
  <2>3. CallFresh(p)'
    BY <2>1, <2>2 DEF CallFresh, KeyFresh, Answered, Holding, Call
  <2>4. \A q \in Callers : q # p => call'[q] = call[q]
    BY <2>1
  <2> QED BY <2>1, <2>3, <2>4, FreshFrame
<1>5. ASSUME NEW p \in Callers, NEW r \in Callers, Refreshing(p, r) PROVE FreshInv'
  <2> DEFINE k == "onu_info"
  <2>1. /\ olt' = olt /\ cache' = cache /\ quiet' = quiet /\ r # p
        /\ call[p].pc = "lookup" /\ call[p].op = "list" /\ cache[k].ver # 0
        /\ call' = [call EXCEPT ![p].ver = cache[k].ver, ![p].pc = "finish",
                                ![r] = Begin("refresh", "walk", FALSE)]
    BY <1>5 DEF Refreshing, HitAndRefresh, Served
  <2>2. k \in Keys /\ KeyOf("list") = k /\ KeyOf("refresh") = k
    BY DEF Keys, KeyOf
  <2>3. CallFresh(p) /\ KeyFresh(k)
    BY <2>2 DEF FreshInv
  <2>4. CallFresh(p)'
    <3>1. call'[p] = [call[p] EXCEPT !.ver = cache[k].ver, !.pc = "finish"]
      BY <2>1
    <3> QED BY <2>1, <2>2, <2>3, <3>1 DEF CallFresh, KeyFresh, Answered, Holding, Call
  <2>5. CallFresh(r)'
    <3>1. Begin("refresh", "walk", FALSE).op = "refresh" /\ Begin("refresh", "walk", FALSE).pc = "walk"
          /\ Begin("refresh", "walk", FALSE).floor = quiet[k]
      BY <2>2, BeginFields
    <3>2. call'[r] = Begin("refresh", "walk", FALSE)
      BY <2>1
    <3>3. quiet[k] \in Nat
      BY <2>2
    <3>4. call'[r].op = "refresh" /\ call'[r].pc = "walk" /\ call'[r].floor = quiet'[k]
      BY <2>1, <3>1, <3>2
    <3>5. quiet'[k] \in Nat
      BY <2>1, <3>3
    <3> HIDE DEF k
    <3> QED BY <2>2, <3>4, <3>5 DEF CallFresh, Answered, Holding
  <2>6. \A q \in Callers : q # p /\ q # r => call'[q] = call[q]
    BY <2>1
  <2> QED BY <2>1, <2>4, <2>5, <2>6, FreshFrame
<1>6. ASSUME NEW p \in Callers, NEW next \in {"get", "save", "finish"}, Walking(p, next)
      PROVE  FreshInv'
  <2>1. /\ olt' = olt /\ cache' = cache /\ quiet' = quiet /\ call[p].pc = "walk"
        /\ call' = [call EXCEPT ![p].ver = olt, ![p].pc = next]
    BY <1>6 DEF Walking
  <2>2. CallFresh(p) /\ (KeyOf(call[p].op) \in Keys => KeyFresh(KeyOf(call[p].op)))
    BY DEF FreshInv
  <2>3. CallFresh(p)'
    BY <2>1, <2>2 DEF CallFresh, KeyFresh, Answered, Holding, Call
  <2>4. \A q \in Callers : q # p => call'[q] = call[q]
    BY <2>1
  <2> QED BY <2>1, <2>3, <2>4, FreshFrame
<1>7. ASSUME NEW p \in Callers, WalkFailing(p) PROVE FreshInv'
  <2>1. /\ olt' = olt /\ cache' = cache /\ quiet' = quiet /\ call[p].pc = "walk"
        /\ call' = [call EXCEPT ![p] = Leave([@ EXCEPT !.err = "snmp"])]
    BY <1>7 DEF WalkFailing
  <2>2. CallFresh(p)
    BY DEF FreshInv
  <2>3. CASE call[p].op = "refresh"
    <3>1. call'[p].op = "none"
      BY <2>1, <2>3 DEF Leave, Idle, Call
    <3>2. CallFresh(p)'
      BY <3>1, KeyFacts DEF CallFresh
    <3>3. \A q \in Callers : q # p => call'[q] = call[q]
      BY <2>1
    <3> QED BY <2>1, <3>2, <3>3, FreshFrame
  <2>4. CASE call[p].op # "refresh"
    <3>1. CallFresh(p)'
      BY <2>1, <2>2, <2>4 DEF CallFresh, Leave, Answered, Holding, Call
    <3>2. \A q \in Callers : q # p => call'[q] = call[q]
      BY <2>1
    <3> QED BY <2>1, <3>1, <3>2, FreshFrame
  <2> QED BY <2>3, <2>4
<1>8. ASSUME NEW p \in Callers, SendGet(p) PROVE FreshInv'
  <2>1. /\ olt' = olt /\ cache' = cache /\ quiet' = quiet /\ call[p].pc = "get"
        /\ \/ call' = [call EXCEPT ![p].pc = "getting"]
           \/ call' = [call EXCEPT ![p].pc = "getwait"]
    BY <1>8 DEF SendGet
  <2>2. CallFresh(p)
    BY DEF FreshInv
  <2>3. CallFresh(p)'
    BY <2>1, <2>2 DEF CallFresh, Answered, Holding, Call
  <2>4. \A q \in Callers : q # p => call'[q] = call[q]
    BY <2>1
  <2> QED BY <2>1, <2>3, <2>4, FreshFrame
<1>9. ASSUME NEW p \in Callers, GetReturns(p) PROVE FreshInv'
  <2>1. olt' = olt /\ cache' = cache /\ quiet' = quiet /\ call[p].pc = "getting"
    BY <1>9 DEF GetReturns
  <2>2. ASSUME NEW q \in Callers PROVE call'[q] = call[q] \/ CallFresh(q)'
    <3>1. CASE q = p \/ call[q].pc = "getwait"
      <4>1. call'[q] = AfterGet(call[q]) /\ call[q].pc \in {"getting", "getwait"}
        BY <1>9, <2>1, <3>1 DEF GetReturns
      <4>2. CallFresh(q)
        BY DEF FreshInv
      <4> QED BY <2>1, <4>1, <4>2 DEF CallFresh, AfterGet, Answered, Holding, Call
    <3>2. CASE ~(q = p \/ call[q].pc = "getwait")
      BY <1>9, <3>2 DEF GetReturns
    <3> QED BY <3>1, <3>2
  <2> QED BY <2>1, <2>2, FreshFrame
<1>10. ASSUME NEW p \in Callers, NEW k \in Keys, Saving(p, k) PROVE FreshInv'
  <2>1. /\ olt' = olt /\ quiet' = quiet /\ call[p].pc = "save" /\ KeyOf(call[p].op) = k
        /\ call[p].err = "none"
        /\ cache' = [cache EXCEPT ![k] = [ver |-> call[p].ver, low |-> FALSE]] \/ cache' = cache
        /\ call' = [call EXCEPT ![p] = Leave(@)]
    BY <1>10 DEF Saving, SaveLogged, Store, StageInv, StageOf
  <2>2. CallFresh(p)
    BY DEF FreshInv
  <2>3. quiet[k] <= call[p].ver /\ call[p].ver <= olt
    BY <2>1, <2>2 DEF CallFresh, Holding
  <2>4. \A j \in Keys : KeyFresh(j)'
    BY <2>1, <2>3 DEF FreshInv, KeyFresh
  <2>5. CallFresh(p)'
    <3>1. CASE call[p].op = "refresh"
      <4>1. call'[p].op = "none"
        BY <2>1, <3>1 DEF Leave, Idle
      <4> QED BY <4>1, KeyFacts DEF CallFresh
    <3>2. CASE call[p].op # "refresh"
      BY <2>1, <2>2, <3>2 DEF CallFresh, Leave, Answered, Holding, Call
    <3> QED BY <3>1, <3>2
  <2>6. ASSUME NEW q \in Callers, q # p PROVE CallFresh(q)'
    <3>1. call'[q] = call[q] /\ CallFresh(q)
      BY <2>1, <2>6 DEF FreshInv
    <3> QED BY <2>1, <3>1 DEF CallFresh, Answered
  <2> QED BY <2>1, <2>4, <2>5, <2>6 DEF FreshInv
<1>11. ASSUME NEW p \in Callers, SaveEmpty(p) PROVE FreshInv'
  <2> DEFINE k == "empty_onu_id"
  <2>1. PICK applied \in BOOLEAN, ok \in BOOLEAN :
          /\ ok => applied
          /\ cache' = IF applied THEN [cache EXCEPT ![k] = [ver |-> call[p].ver, low |-> FALSE]]
                                 ELSE cache
          /\ call' = [call EXCEPT ![p] = Leave([@ EXCEPT !.err = Fault(ok)])]
          /\ quiet' = IF ok /\ call[p].op = "update" /\ ~OtherBusy(p, k)
                        THEN [quiet EXCEPT ![k] = call[p].ver] ELSE quiet
    BY <1>11 DEF SaveEmpty, Store
  <2>2. /\ call[p].op \in {"empty", "update"} /\ call[p].pc = "save" /\ call[p].err = "none"
        /\ olt' = olt
    BY <1>11 DEF SaveEmpty, StageInv, StageOf
  <2>3. KeyOf(call[p].op) = k /\ k \in Keys
    BY <2>2 DEF KeyOf, Keys
  <2>4. CallFresh(p)
    BY DEF FreshInv
  <2>5. quiet[k] <= call[p].ver /\ call[p].ver <= olt
    BY <2>2, <2>3, <2>4 DEF CallFresh, Holding
  <2>6. \A j \in Keys : quiet[j] <= quiet'[j] /\ quiet'[j] \in Nat
    BY <2>1, <2>3, <2>5 DEF Call
  <2>7. \A j \in Keys : KeyFresh(j)'
    BY <2>1, <2>2, <2>3, <2>5 DEF FreshInv, KeyFresh, Call
  <2>8. CallFresh(p)'
    <3>1. /\ call'[p].op = call[p].op /\ call'[p].pc = "finish" /\ call'[p].ver = call[p].ver
          /\ call'[p].floor = call[p].floor
      BY <2>1, <2>2 DEF Leave, Call
    <3>2. quiet'[k] <= call[p].ver
      BY <2>1, <2>3, <2>5 DEF Call
    <3>3. call[p].floor <= quiet[k] /\ call[p].floor \in Nat
      BY <2>2, <2>3, <2>4 DEF CallFresh, Call
    <3> QED BY <2>2, <2>3, <2>5, <2>6, <3>1, <3>2, <3>3 DEF CallFresh, Answered, Call
  <2>9. ASSUME NEW q \in Callers, q # p PROVE CallFresh(q)'
    <3>1. call'[q] = call[q] /\ CallFresh(q)
      BY <2>1, <2>9 DEF FreshInv
    <3>2. KeyOf(call[q].op) \in Keys /\ call[q].pc \in Holding =>
            quiet'[KeyOf(call[q].op)] = quiet[KeyOf(call[q].op)]
      <4> SUFFICES ASSUME KeyOf(call[q].op) = k, call[q].pc \in Holding
                   PROVE  quiet' = quiet
        BY <2>1, <2>3
      <4>1. OtherBusy(p, k)
        BY <2>9 DEF OtherBusy, Holding, Working
      <4> QED BY <2>1, <4>1
    <3> QED BY <2>2, <2>6, <3>1, <3>2 DEF CallFresh, Answered, Call
  <2> QED BY <2>2, <2>7, <2>8, <2>9 DEF FreshInv
<1>12. ASSUME NEW p \in Callers, DeleteList(p) PROVE FreshInv'
  <2> DEFINE k == "onu_info"
  <2>1. PICK applied \in BOOLEAN, ok \in BOOLEAN :
          /\ ok => applied
          /\ cache' = IF applied THEN [cache EXCEPT ![k] = Absent] ELSE cache
          /\ quiet' = IF ok /\ ~OtherBusy(p, k) THEN [quiet EXCEPT ![k] = olt] ELSE quiet
    BY <1>12 DEF DeleteList, Removed, NoteCleared
  <2>2. /\ olt' = olt /\ call[p].pc = "delete_list" /\ call'[p].op = call[p].op
        /\ \A q \in Callers : q # p => call'[q] = call[q]
    BY <1>12 DEF DeleteList, Call
  <2>3. k \in Keys
    BY DEF Keys
  <2>4. \A j \in Keys : KeyFresh(j)'
    BY <2>1, <2>2, <2>3 DEF FreshInv, KeyFresh, Absent
  <2>5. CallFresh(p)'
    <3>1. call[p].op \in {"invalidate", "delete"}
      BY <2>2 DEF StageInv, StageOf, Ops
    <3> QED BY <2>2, <3>1, KeyFacts DEF CallFresh
  <2>6. ASSUME NEW q \in Callers, q # p PROVE CallFresh(q)'
    <3>1. call'[q] = call[q] /\ CallFresh(q)
      BY <2>2, <2>6 DEF FreshInv
    <3>2. \A j \in Keys : quiet[j] <= quiet'[j] /\ quiet'[j] \in Nat
      BY <2>1, <2>3 DEF FreshInv, KeyFresh
    <3>3. KeyOf(call[q].op) \in Keys /\ call[q].pc \in Holding =>
            quiet'[KeyOf(call[q].op)] = quiet[KeyOf(call[q].op)]
      <4> SUFFICES ASSUME KeyOf(call[q].op) = k, call[q].pc \in Holding
                   PROVE  quiet' = quiet
        BY <2>1, <2>3
      <4>1. OtherBusy(p, k)
        BY <2>6 DEF OtherBusy, Holding, Working
      <4> QED BY <2>1, <4>1
    <3> QED BY <2>2, <3>1, <3>2, <3>3 DEF CallFresh, Answered, Call
  <2> QED BY <2>2, <2>4, <2>5, <2>6 DEF FreshInv
<1>13. ASSUME NEW p \in Callers, DeleteSerial(p) PROVE FreshInv'
  <2> DEFINE k == "serial_list"
  <2>1. PICK applied \in BOOLEAN, ok \in BOOLEAN :
          /\ ok => applied
          /\ cache' = IF applied THEN [cache EXCEPT ![k] = Absent] ELSE cache
          /\ quiet' = IF ok /\ ~OtherBusy(p, k) THEN [quiet EXCEPT ![k] = olt] ELSE quiet
    BY <1>13 DEF DeleteSerial, Removed, NoteCleared
  <2>2. /\ olt' = olt /\ call[p].pc = "delete_serial" /\ call'[p].op = call[p].op
        /\ \A q \in Callers : q # p => call'[q] = call[q]
    BY <1>13 DEF DeleteSerial, Call
  <2>3. k \in Keys
    BY DEF Keys
  <2>4. \A j \in Keys : KeyFresh(j)'
    BY <2>1, <2>2, <2>3 DEF FreshInv, KeyFresh, Absent
  <2>5. CallFresh(p)'
    <3>1. call[p].op \in {"invalidate", "delete"}
      BY <2>2 DEF StageInv, StageOf, Ops
    <3> QED BY <2>2, <3>1, KeyFacts DEF CallFresh
  <2>6. ASSUME NEW q \in Callers, q # p PROVE CallFresh(q)'
    <3>1. call'[q] = call[q] /\ CallFresh(q)
      BY <2>2, <2>6 DEF FreshInv
    <3>2. \A j \in Keys : quiet[j] <= quiet'[j] /\ quiet'[j] \in Nat
      BY <2>1, <2>3 DEF FreshInv, KeyFresh
    <3>3. KeyOf(call[q].op) \in Keys /\ call[q].pc \in Holding =>
            quiet'[KeyOf(call[q].op)] = quiet[KeyOf(call[q].op)]
      <4> SUFFICES ASSUME KeyOf(call[q].op) = k, call[q].pc \in Holding
                   PROVE  quiet' = quiet
        BY <2>1, <2>3
      <4>1. OtherBusy(p, k)
        BY <2>6 DEF OtherBusy, Holding, Working
      <4> QED BY <2>1, <4>1
    <3> QED BY <2>2, <3>1, <3>2, <3>3 DEF CallFresh, Answered, Call
  <2> QED BY <2>2, <2>4, <2>5, <2>6 DEF FreshInv
<1>14. ASSUME NEW p \in Callers, Finish(p) PROVE FreshInv'
  <2>1. /\ olt' = olt /\ cache' = cache /\ quiet' = quiet
        /\ call[p].pc = "finish" /\ call[p].op \in Coalesced
    BY <1>14 DEF Finish, StageInv, StageOf, Ops
  <2>2. CallFresh(p)
    BY DEF FreshInv
  <2>3. ASSUME NEW q \in Callers, q = p, call'[q] = [call[q] EXCEPT !.pc = "done"]
        PROVE  CallFresh(q)'
    BY <2>1, <2>2, <2>3 DEF CallFresh, Answered, Holding, Call
  <2>4. ASSUME NEW q \in Callers, q # p, call[q].pc = "wait",
               FlightOf(call[q].op) = FlightOf(call[p].op),
               call'[q] = [call[q] EXCEPT !.pc = "done", !.ver = call[p].ver, !.err = call[p].err]
        PROVE  CallFresh(q)'
    <3>1. call[q].op \in Coalesced
      BY <2>4 DEF FlightInv
    <3>2. KeyOf(call[q].op) = KeyOf(call[p].op)
      BY <2>1, <2>4, <3>1, KeyFacts
    <3>3. CallFresh(q)
      BY DEF FreshInv
    <3> QED BY <2>1, <2>2, <2>4, <3>2, <3>3 DEF CallFresh, Answered, Holding, Call
  <2>5. ASSUME NEW q \in Callers PROVE call'[q] = call[q] \/ CallFresh(q)'
    BY <1>14, <2>3, <2>4, FinishEffect
  <2> QED BY <2>1, <2>5, FreshFrame
<1>15. ASSUME NEW p \in Callers, Answer(p) PROVE FreshInv'
  <2>1. olt' = olt /\ cache' = cache /\ quiet' = quiet /\ call' = [call EXCEPT ![p] = Idle]
    BY <1>15 DEF Answer
  <2>2. call'[p].op = "none"
    BY <2>1 DEF Idle
  <2>3. CallFresh(p)'
    BY <2>2, KeyFacts DEF CallFresh
  <2>4. \A q \in Callers : q # p => call'[q] = call[q]
    BY <2>1
  <2> QED BY <2>1, <2>3, <2>4, FreshFrame
<1>16. CASE Provision
  <2>1. olt' = olt + 1 /\ cache' = cache /\ quiet' = quiet /\ call' = call
    BY <1>16 DEF Provision
  <2>2. \A j \in Keys : KeyFresh(j)'
    BY <2>1 DEF FreshInv, KeyFresh
  <2>3. ASSUME NEW q \in Callers PROVE CallFresh(q)'
    BY <2>1 DEF FreshInv, CallFresh, Answered, Call
  <2> QED BY <2>1, <2>2, <2>3 DEF FreshInv
<1>17. ASSUME olt' = olt, quiet' = quiet, call' = call,
              \A j \in Keys : cache'[j].ver \in {0, cache[j].ver}
       PROVE  FreshInv'
  <2>1. \A j \in Keys : KeyFresh(j)'
    BY <1>17 DEF FreshInv, KeyFresh
  <2>2. ASSUME NEW q \in Callers PROVE CallFresh(q)'
    BY <1>17 DEF FreshInv, CallFresh, Answered
  <2> QED BY <1>17, <2>1, <2>2 DEF FreshInv
<1>18. CASE AgeList
  BY <1>18, <1>17 DEF AgeList
<1>19. ASSUME NEW k \in Keys, Expire(k) PROVE FreshInv'
  BY <1>19, <1>17 DEF Expire, Absent
<1>20. CASE UNCHANGED vars
  BY <1>20, <1>17 DEF vars
<1> QED BY Steps, <1>1, <1>2, <1>3, <1>4, <1>5, <1>6, <1>7, <1>8, <1>9, <1>10, <1>11,
           <1>12, <1>13, <1>14, <1>15, <1>16, <1>17, <1>18, <1>19, <1>20

-----------------------------------------------------------------------------
(***************************************************************************)
(* Forced executions.                                                      *)
(***************************************************************************)
\* A step that changes one goroutine disturbs ForcedInv only there.
LEMMA ForcedFrame ==
  ASSUME TypeOK, ForcedInv, olt <= olt', olt' \in Nat,
         \A q \in Callers : call'[q] = call[q] \/ ForcedOf(q)'
  PROVE  ForcedInv'
<1>1. ASSUME NEW q \in Callers, call'[q] = call[q] PROVE ForcedOf(q)'
  BY <1>1 DEF ForcedInv, ForcedOf, TypeOK, Call
<1> QED BY <1>1 DEF ForcedInv

\* A forced leader never picks up anything older than its start.
LEMMA ForcedStep ==
  ASSUME TypeOK, StageInv, ForcedInv, [Next]_vars
  PROVE  ForcedInv'
<1> USE DEF TypeOK
<1>1. ASSUME NEW p \in Callers, NEW op \in Coalesced, NEW first \in {"lookup", "walk"},
             Entering(p, op, first)
      PROVE  ForcedInv'
  <2>1. \/ call' = [call EXCEPT ![p] = Begin(op, first, TRUE)]
        \/ call' = [call EXCEPT ![p] = Begin(op, "wait", FALSE)]
    BY <1>1 DEF Entering, Enter, Lead, Join
  <2>2. olt' = olt
    BY <1>1 DEF Entering, Enter
  <2>3. /\ call'[p].op = op /\ call'[p].pc \in {"lookup", "walk", "wait"}
        /\ op \in Forced => call'[p].since = olt
    <3>1. LET b == Begin(op, first, TRUE) IN
            b.op = op /\ b.pc = first /\ (op \in Forced => b.since = olt)
      BY BeginFields
    <3>2. LET b == Begin(op, "wait", FALSE) IN
            b.op = op /\ b.pc = "wait" /\ (op \in Forced => b.since = olt)
      BY BeginFields
    <3> QED BY <2>1, <3>1, <3>2
  <2>4. ForcedOf(p)'
    BY <2>2, <2>3 DEF ForcedOf, Holding
  <2>5. \A q \in Callers : q # p => call'[q] = call[q]
    BY <2>1
  <2> QED BY <2>2, <2>4, <2>5, ForcedFrame
<1>2. ASSUME NEW p \in Callers, NEW op \in {"invalidate", "delete"}, Clearing(p, op)
      PROVE  ForcedInv'
  <2>1. olt' = olt /\ call' = [call EXCEPT ![p] = Begin(op, "delete_list", FALSE)]
    BY <1>2 DEF Clearing, Clear
  <2>2. call'[p].op = op
    BY <2>1 DEF Begin
  <2>3. ForcedOf(p)'
    BY <2>2 DEF ForcedOf, Forced
  <2>4. \A q \in Callers : q # p => call'[q] = call[q]
    BY <2>1
  <2>5. olt' = olt
    BY <2>1
  <2> QED BY <2>3, <2>4, <2>5, ForcedFrame
<1>3. ASSUME NEW p \in Callers, Missing(p) PROVE ForcedInv'
  <2>1. /\ olt' = olt /\ call[p].pc = "lookup"
        /\ call' = [call EXCEPT ![p].pc = "walk"]
    BY <1>3 DEF Missing, Miss
  <2>2. ForcedOf(p)
    BY DEF ForcedInv
  <2>3. ForcedOf(p)'
    BY <2>1, <2>2 DEF ForcedOf, Holding, Call
  <2>4. \A q \in Callers : q # p => call'[q] = call[q]
    BY <2>1
  <2> QED BY <2>1, <2>3, <2>4, ForcedFrame
<1>4. ASSUME NEW p \in Callers, NEW k \in Keys, Hitting(p, k) PROVE ForcedInv'
  <2>1. /\ olt' = olt /\ call[p].op \notin Forced
        /\ call' = [call EXCEPT ![p].ver = cache[k].ver, ![p].pc = "finish"]
    BY <1>4 DEF Hitting, Hit
  <2>2. ForcedOf(p)
    BY DEF ForcedInv
  <2>3. ForcedOf(p)'
    BY <2>1, <2>2 DEF ForcedOf, Call
  <2>4. \A q \in Callers : q # p => call'[q] = call[q]
    BY <2>1
  <2> QED BY <2>1, <2>3, <2>4, ForcedFrame
<1>5. ASSUME NEW p \in Callers, NEW r \in Callers, Refreshing(p, r) PROVE ForcedInv'
  <2>1. /\ olt' = olt /\ r # p /\ call[p].op = "list"
        /\ call' = [call EXCEPT ![p].ver = cache["onu_info"].ver, ![p].pc = "finish",
                                ![r] = Begin("refresh", "walk", FALSE)]
    BY <1>5 DEF Refreshing, HitAndRefresh
  <2>2. call'[p].op = "list" /\ call'[r] = Begin("refresh", "walk", FALSE)
    BY <2>1 DEF Call
  <2>3. call'[r].op = "refresh"
    BY <2>2 DEF Begin
  <2>4. ForcedOf(p)' /\ ForcedOf(r)'
    BY <2>2, <2>3 DEF ForcedOf, Forced
  <2>5. ASSUME NEW q \in Callers PROVE call'[q] = call[q] \/ ForcedOf(q)'
    <3>1. CASE q \in {p, r}
      BY <2>4, <3>1
    <3>2. CASE q \notin {p, r}
      BY <2>1, <3>2
    <3> QED BY <3>1, <3>2
  <2>6. olt' = olt
    BY <2>1
  <2> QED BY <2>5, <2>6, ForcedFrame
<1>6. ASSUME NEW p \in Callers, NEW next \in {"get", "save", "finish"}, Walking(p, next)
      PROVE  ForcedInv'
  <2>1. /\ olt' = olt /\ call[p].pc = "walk"
        /\ call' = [call EXCEPT ![p].ver = olt, ![p].pc = next]
    BY <1>6 DEF Walking
  <2>2. ForcedOf(p)
    BY DEF ForcedInv
  <2>3. ForcedOf(p)'
    BY <2>1, <2>2 DEF ForcedOf, Call
  <2>4. \A q \in Callers : q # p => call'[q] = call[q]
    BY <2>1
  <2> QED BY <2>1, <2>3, <2>4, ForcedFrame
<1>7. ASSUME NEW p \in Callers, WalkFailing(p) PROVE ForcedInv'
  <2>1. /\ olt' = olt /\ call[p].pc = "walk"
        /\ call' = [call EXCEPT ![p] = Leave([@ EXCEPT !.err = "snmp"])]
    BY <1>7 DEF WalkFailing
  <2>2. ForcedOf(p)
    BY DEF ForcedInv
  <2>3. ForcedOf(p)'
    BY <2>1, <2>2 DEF ForcedOf, Leave, Idle, Forced, Call
  <2>4. \A q \in Callers : q # p => call'[q] = call[q]
    BY <2>1
  <2> QED BY <2>1, <2>3, <2>4, ForcedFrame
<1>8. ASSUME NEW p \in Callers, SendGet(p) PROVE ForcedInv'
  <2>1. /\ olt' = olt /\ call[p].pc = "get"
        /\ \/ call' = [call EXCEPT ![p].pc = "getting"]
           \/ call' = [call EXCEPT ![p].pc = "getwait"]
    BY <1>8 DEF SendGet
  <2>2. ForcedOf(p)
    BY DEF ForcedInv
  <2>3. ForcedOf(p)'
    BY <2>1, <2>2 DEF ForcedOf, Holding, Call
  <2>4. \A q \in Callers : q # p => call'[q] = call[q]
    BY <2>1
  <2> QED BY <2>1, <2>3, <2>4, ForcedFrame
<1>9. ASSUME NEW p \in Callers, GetReturns(p) PROVE ForcedInv'
  <2>1. olt' = olt /\ call[p].pc = "getting"
    BY <1>9 DEF GetReturns
  <2>2. ASSUME NEW q \in Callers PROVE call'[q] = call[q] \/ ForcedOf(q)'
    <3>1. CASE q = p \/ call[q].pc = "getwait"
      <4>1. call'[q] = AfterGet(call[q]) /\ call[q].pc \in {"getting", "getwait"}
        BY <1>9, <2>1, <3>1 DEF GetReturns
      <4>2. ForcedOf(q)
        BY DEF ForcedInv
      <4> QED BY <2>1, <4>1, <4>2 DEF ForcedOf, AfterGet, Holding, Call
    <3>2. CASE ~(q = p \/ call[q].pc = "getwait")
      BY <1>9, <3>2 DEF GetReturns
    <3> QED BY <3>1, <3>2
  <2> QED BY <2>1, <2>2, ForcedFrame
<1>10. ASSUME NEW p \in Callers, NEW k \in Keys, Saving(p, k) PROVE ForcedInv'
  <2>1. /\ olt' = olt /\ call[p].pc = "save"
        /\ call' = [call EXCEPT ![p] = Leave(@)]
    BY <1>10 DEF Saving, SaveLogged
  <2>2. ForcedOf(p)
    BY DEF ForcedInv
  <2>3. ForcedOf(p)'
    BY <2>1, <2>2 DEF ForcedOf, Leave, Idle, Forced, Holding, Call
  <2>4. \A q \in Callers : q # p => call'[q] = call[q]
    BY <2>1
  <2> QED BY <2>1, <2>3, <2>4, ForcedFrame
<1>11. ASSUME NEW p \in Callers, SaveEmpty(p) PROVE ForcedInv'
  <2>1. /\ olt' = olt /\ call[p].pc = "save" /\ call[p].op \in {"empty", "update"}
        /\ call[p].err = "none"
    BY <1>11 DEF SaveEmpty, StageInv, StageOf
  <2>2. PICK ok \in BOOLEAN : call' = [call EXCEPT ![p] = Leave([@ EXCEPT !.err = Fault(ok)])]
    BY <1>11 DEF SaveEmpty
  <2>3. ForcedOf(p)
    BY DEF ForcedInv
  <2>4. ForcedOf(p)'
    BY <2>1, <2>2, <2>3 DEF ForcedOf, Leave, Holding, Call
  <2>5. \A q \in Callers : q # p => call'[q] = call[q]
    BY <2>2
  <2> QED BY <2>1, <2>4, <2>5, ForcedFrame
<1>12. ASSUME NEW p \in Callers, DeleteList(p) PROVE ForcedInv'
  <2>1. /\ olt' = olt /\ call[p].pc \in {"delete_list", "delete_serial"}
        /\ call'[p].op = call[p].op
        /\ \A q \in Callers : q # p => call'[q] = call[q]
    BY <1>12 DEF DeleteList, Call
  <2>2. call[p].op \in {"invalidate", "delete"}
    BY <2>1 DEF StageInv, StageOf, Ops
  <2>3. ForcedOf(p)'
    BY <2>1, <2>2 DEF ForcedOf, Forced
  <2> QED BY <2>1, <2>3, ForcedFrame
<1>13. ASSUME NEW p \in Callers, DeleteSerial(p) PROVE ForcedInv'
  <2>1. /\ olt' = olt /\ call[p].pc \in {"delete_list", "delete_serial"}
        /\ call'[p].op = call[p].op
        /\ \A q \in Callers : q # p => call'[q] = call[q]
    BY <1>13 DEF DeleteSerial, Call
  <2>2. call[p].op \in {"invalidate", "delete"}
    BY <2>1 DEF StageInv, StageOf, Ops
  <2>3. ForcedOf(p)'
    BY <2>1, <2>2 DEF ForcedOf, Forced
  <2> QED BY <2>1, <2>3, ForcedFrame
<1>14. ASSUME NEW p \in Callers, Finish(p) PROVE ForcedInv'
  <2>1. olt' = olt /\ call[p].pc = "finish"
    BY <1>14 DEF Finish
  <2>2. ASSUME NEW q \in Callers, q = p, call'[q] = [call[q] EXCEPT !.pc = "done"]
        PROVE  ForcedOf(q)'
    BY <2>1, <2>2 DEF ForcedInv, ForcedOf, Holding, Call
  <2>3. ASSUME NEW q \in Callers, call[q].pc = "wait",
               call'[q] = [call[q] EXCEPT !.pc = "done", !.ver = call[p].ver, !.err = call[p].err]
        PROVE  ForcedOf(q)'
    BY <2>1, <2>3 DEF ForcedInv, ForcedOf, StageInv, StageOf, Call
  <2>4. ASSUME NEW q \in Callers PROVE call'[q] = call[q] \/ ForcedOf(q)'
    BY <1>14, <2>2, <2>3, FinishEffect
  <2> QED BY <2>1, <2>4, ForcedFrame
<1>15. ASSUME NEW p \in Callers, Answer(p) PROVE ForcedInv'
  <2>1. olt' = olt /\ call' = [call EXCEPT ![p] = Idle]
    BY <1>15 DEF Answer
  <2>2. ForcedOf(p)' /\ \A q \in Callers : q # p => call'[q] = call[q]
    BY <2>1 DEF ForcedOf, Forced, Idle
  <2> QED BY <2>1, <2>2, ForcedFrame
<1>16. CASE Provision
  <2>1. olt' \in {olt, olt + 1} /\ call' = call
    BY <1>16 DEF Provision
  <2> QED BY <2>1, ForcedFrame
<1>17. CASE AgeList
  <2>1. olt' \in {olt, olt + 1} /\ call' = call
    BY <1>17 DEF AgeList
  <2> QED BY <2>1, ForcedFrame
<1>18. ASSUME NEW k \in Keys, Expire(k) PROVE ForcedInv'
  <2>1. olt' \in {olt, olt + 1} /\ call' = call
    BY <1>18 DEF Expire
  <2> QED BY <2>1, ForcedFrame
<1>19. CASE UNCHANGED vars
  <2>1. olt' \in {olt, olt + 1} /\ call' = call
    BY <1>19 DEF vars
  <2> QED BY <2>1, ForcedFrame
<1> QED BY Steps, <1>1, <1>2, <1>3, <1>4, <1>5, <1>6, <1>7, <1>8, <1>9, <1>10, <1>11,
           <1>12, <1>13, <1>14, <1>15, <1>16, <1>17, <1>18, <1>19

-----------------------------------------------------------------------------
(***************************************************************************)
(* The poller.  Its flight has no other user, so it never waits.           *)
(***************************************************************************)

\* q keeps its operation and its role, or is idle afterwards.
SameCaller(q) ==
  \/ call'[q] = Idle
  \/ /\ call'[q].op = call[q].op /\ call'[q].lead = call[q].lead
     /\ call[q].pc # "idle"
  \/ call'[q] = call[q]

\* A step that gives nobody a new operation keeps PollerInv.
LEMMA PollerFrame ==
  ASSUME PollerInv, \A q \in Callers : SameCaller(q) \/ PollerOf(q)'
  PROVE  PollerInv'
<1>1. ASSUME NEW q \in Callers, SameCaller(q) PROVE PollerOf(q)'
  BY <1>1 DEF PollerInv, PollerOf, SameCaller, Idle
<1> QED BY <1>1 DEF PollerInv

\* Nobody but the poller ever polls, and the poller always leads.
LEMMA PollerStep ==
  ASSUME TypeOK, StageInv, FlightInv, PollerInv, [Next]_vars
  PROVE  PollerInv'
<1> USE DEF TypeOK
<1>1. ASSUME NEW p \in Callers, NEW op \in Coalesced, NEW first \in {"lookup", "walk"},
             Entering(p, op, first)
      PROVE  PollerInv'
  <2>1. call[p].pc = "idle" /\ (p = Poller <=> op = "poll")
    BY <1>1 DEF Entering, Enter
  <2>2. CASE call' = [call EXCEPT ![p] = Begin(op, first, TRUE)]
    <3>1. call'[p].op = op /\ call'[p].lead = TRUE
      BY <2>2 DEF Begin
    <3>2. PollerOf(p)'
      BY <2>1, <3>1 DEF PollerOf
    <3>3. \A q \in Callers : q # p => SameCaller(q)
      BY <2>2 DEF SameCaller
    <3> QED BY <3>2, <3>3, PollerFrame
  <2>3. CASE /\ flight[FlightOf(op)] # NoCaller
             /\ call' = [call EXCEPT ![p] = Begin(op, "wait", FALSE)]
    <3>1. op # "poll"
      <4> SUFFICES ASSUME op = "poll" PROVE FALSE
        OBVIOUS
      <4> DEFINE l == flight[FlightOf(op)]
      <4>1. FlightOf(op) \in Flights
        BY KeyFacts
      <4>2. /\ l \in Callers /\ call[l].op \in Coalesced /\ call[l].pc \in Working
            /\ FlightOf(call[l].op) = FlightOf(op)
        BY <2>3, <4>1 DEF FlightInv
      <4>3. call[l].op = "poll"
        BY <4>2, KeyFacts
      <4>4. l = Poller
        BY <4>2, <4>3 DEF PollerInv, PollerOf, Working
      <4> QED BY <2>1, <4>2, <4>4 DEF Working
    <3>2. call'[p].op = op
      BY <2>3 DEF Begin
    <3>3. PollerOf(p)'
      BY <2>1, <3>1, <3>2 DEF PollerOf
    <3>4. \A q \in Callers : q # p => SameCaller(q)
      BY <2>3 DEF SameCaller
    <3> QED BY <3>3, <3>4, PollerFrame
  <2> QED BY <1>1, <2>2, <2>3 DEF Entering, Enter, Lead, Join
<1>2. ASSUME NEW p \in Callers, NEW op \in {"invalidate", "delete"}, Clearing(p, op)
      PROVE  PollerInv'
  <2>1. p # Poller /\ call' = [call EXCEPT ![p] = Begin(op, "delete_list", FALSE)]
    BY <1>2 DEF Clearing, Clear
  <2>2. call'[p].op = op
    BY <2>1 DEF Begin
  <2>3. PollerOf(p)'
    BY <2>1, <2>2 DEF PollerOf
  <2>4. \A q \in Callers : q # p => SameCaller(q)
    BY <2>1 DEF SameCaller
  <2> QED BY <2>3, <2>4, PollerFrame
<1>3. ASSUME NEW p \in Callers, NEW r \in Callers, Refreshing(p, r) PROVE PollerInv'
  <2>1. /\ r # p /\ r # Poller /\ call[p].pc = "lookup"
        /\ call' = [call EXCEPT ![p].ver = cache["onu_info"].ver, ![p].pc = "finish",
                                ![r] = Begin("refresh", "walk", FALSE)]
    BY <1>3 DEF Refreshing, HitAndRefresh
  <2>2. call'[r].op = "refresh"
    BY <2>1 DEF Begin
  <2>3. PollerOf(r)'
    BY <2>1, <2>2 DEF PollerOf
  <2>4. ASSUME NEW q \in Callers, q # r PROVE SameCaller(q)
    BY <2>1, <2>4 DEF SameCaller, Call
  <2> QED BY <2>3, <2>4, PollerFrame
<1>4. ASSUME NEW p \in Callers, Finish(p) PROVE PollerInv'
  <2>1. call[p].pc = "finish"
    BY <1>4 DEF Finish
  <2>2. ASSUME NEW q \in Callers PROVE SameCaller(q)
    <3>1. /\ [call[q] EXCEPT !.pc = "done"].op = call[q].op
          /\ [call[q] EXCEPT !.pc = "done"].lead = call[q].lead
          /\ [call[q] EXCEPT !.pc = "done", !.ver = call[p].ver, !.err = call[p].err].op = call[q].op
          /\ [call[q] EXCEPT !.pc = "done", !.ver = call[p].ver, !.err = call[p].err].lead = call[q].lead
      BY DEF Call
    <3> QED BY <1>4, <2>1, <3>1, FinishEffect DEF SameCaller
  <2> QED BY <2>2, PollerFrame
<1>5. ASSUME NEW p \in Callers, Missing(p) PROVE PollerInv'
  <2>1. ASSUME NEW q \in Callers PROVE SameCaller(q)
    BY <1>5 DEF Missing, Miss, Call, SameCaller
  <2> QED BY <2>1, PollerFrame
<1>6. ASSUME NEW p \in Callers, NEW k \in Keys, Hitting(p, k) PROVE PollerInv'
  <2>1. ASSUME NEW q \in Callers PROVE SameCaller(q)
    BY <1>6 DEF Hitting, Hit, Call, SameCaller
  <2> QED BY <2>1, PollerFrame
<1>7. ASSUME NEW p \in Callers, NEW next \in {"get", "save", "finish"}, Walking(p, next)
      PROVE  PollerInv'
  <2>1. ASSUME NEW q \in Callers PROVE SameCaller(q)
    BY <1>7 DEF Walking, Call, SameCaller
  <2> QED BY <2>1, PollerFrame
<1>8. ASSUME NEW p \in Callers, WalkFailing(p) PROVE PollerInv'
  <2>1. ASSUME NEW q \in Callers PROVE SameCaller(q)
    BY <1>8 DEF WalkFailing, Leave, Call, Idle, SameCaller
  <2> QED BY <2>1, PollerFrame
<1>9. ASSUME NEW p \in Callers, SendGet(p) PROVE PollerInv'
  <2>1. ASSUME NEW q \in Callers PROVE SameCaller(q)
    BY <1>9 DEF SendGet, Call, SameCaller
  <2> QED BY <2>1, PollerFrame
<1>10. ASSUME NEW p \in Callers, GetReturns(p) PROVE PollerInv'
  <2>1. ASSUME NEW q \in Callers PROVE SameCaller(q)
    BY <1>10 DEF GetReturns, AfterGet, Call, SameCaller
  <2> QED BY <2>1, PollerFrame
<1>11. ASSUME NEW p \in Callers, NEW k \in Keys, Saving(p, k) PROVE PollerInv'
  <2>1. ASSUME NEW q \in Callers PROVE SameCaller(q)
    BY <1>11 DEF Saving, SaveLogged, Leave, Call, Idle, SameCaller
  <2> QED BY <2>1, PollerFrame
<1>12. ASSUME NEW p \in Callers, SaveEmpty(p) PROVE PollerInv'
  <2>1. ASSUME NEW q \in Callers PROVE SameCaller(q)
    BY <1>12 DEF SaveEmpty, Leave, Fault, Call, SameCaller
  <2> QED BY <2>1, PollerFrame
<1>13. ASSUME NEW p \in Callers, DeleteList(p) PROVE PollerInv'
  <2>1. ASSUME NEW q \in Callers PROVE SameCaller(q)
    BY <1>13 DEF DeleteList, Fault, Call, SameCaller
  <2> QED BY <2>1, PollerFrame
<1>14. ASSUME NEW p \in Callers, DeleteSerial(p) PROVE PollerInv'
  <2>1. ASSUME NEW q \in Callers PROVE SameCaller(q)
    BY <1>14 DEF DeleteSerial, Call, SameCaller
  <2> QED BY <2>1, PollerFrame
<1>15. ASSUME NEW p \in Callers, Answer(p) PROVE PollerInv'
  <2>1. ASSUME NEW q \in Callers PROVE SameCaller(q)
    BY <1>15 DEF Answer, SameCaller
  <2> QED BY <2>1, PollerFrame
<1>16. CASE Provision
  <2>1. ASSUME NEW q \in Callers PROVE SameCaller(q)
    BY <1>16 DEF Provision, SameCaller
  <2> QED BY <2>1, PollerFrame
<1>17. CASE AgeList
  <2>1. ASSUME NEW q \in Callers PROVE SameCaller(q)
    BY <1>17 DEF AgeList, SameCaller
  <2> QED BY <2>1, PollerFrame
<1>18. ASSUME NEW k \in Keys, Expire(k) PROVE PollerInv'
  <2>1. ASSUME NEW q \in Callers PROVE SameCaller(q)
    BY <1>18 DEF Expire, SameCaller
  <2> QED BY <2>1, PollerFrame
<1>19. CASE UNCHANGED vars
  <2>1. ASSUME NEW q \in Callers PROVE SameCaller(q)
    BY <1>19 DEF vars, SameCaller
  <2> QED BY <2>1, PollerFrame
<1> QED BY Steps, <1>1, <1>2, <1>3, <1>4, <1>5, <1>6, <1>7, <1>8, <1>9, <1>10, <1>11,
           <1>12, <1>13, <1>14, <1>15, <1>16, <1>17, <1>18, <1>19

-----------------------------------------------------------------------------
(***************************************************************************)
(* The serial list.                                                        *)
(***************************************************************************)
Reading(q) == call[q].op \in Serials /\ call[q].pc \in {"get", "getting", "getwait", "save"}

\* Redis keeps the list or loses it, and q holds what it held or nothing.
SameReader(q) ==
  Reading(q)' => Reading(q) /\ call'[q].ver = call[q].ver

\* A step that leaves the serial list and its readers alone keeps SerialInv.
LEMMA SerialFrame ==
  ASSUME TypeOK, SerialInv, cache'["serial_list"].ver \in {0, cache["serial_list"].ver},
         TypeOK', \A q \in Callers : SameReader(q)
  PROVE  SerialInv'
BY DEF SerialInv, SerialOf, SameReader, Reading, TypeOK, Call, Keys

\* The serial read under way is never behind the cached serial list.
LEMMA SerialStep ==
  ASSUME TypeOK, TypeOK', StageInv, FlightInv, FreshInv, SerialInv, [Next]_vars
  PROVE  SerialInv'
<1> DEFINE k == "serial_list"
<1>0. k \in Keys
  BY DEF Keys
<1>1. ASSUME NEW p \in Callers, NEW next \in {"get", "save", "finish"}, Walking(p, next)
      PROVE  SerialInv'
  <2>1. /\ cache' = cache /\ call' = [call EXCEPT ![p].ver = olt, ![p].pc = next]
    BY <1>1 DEF Walking
  <2>2. cache[k].ver <= olt
    BY <1>0 DEF TypeOK, FreshInv, KeyFresh
  <2>3. SerialOf(p)'
    BY <2>1, <2>2 DEF SerialOf, TypeOK, Call
  <2>4. ASSUME NEW q \in Callers, q # p PROVE SerialOf(q)'
    <3>1. call'[q] = call[q] /\ SerialOf(q)
      BY <2>1, <2>4 DEF SerialInv, TypeOK
    <3> QED BY <2>1, <3>1 DEF SerialOf
  <2> QED BY <2>3, <2>4 DEF SerialInv
<1>2. ASSUME NEW p \in Callers, NEW j \in Keys, Saving(p, j) PROVE SerialInv'
  <2>1. /\ call[p].pc = "save" /\ KeyOf(call[p].op) = j
        /\ cache' = [cache EXCEPT ![j] = [ver |-> call[p].ver, low |-> FALSE]] \/ cache' = cache
        /\ call' = [call EXCEPT ![p] = Leave(@)]
    BY <1>2 DEF Saving, SaveLogged, Store
  <2>2. ~Reading(p)'
    BY <2>1 DEF Reading, Leave, Idle, TypeOK, Call
  <2>3. CASE cache'[k] = cache[k]
    <3>1. ASSUME NEW q \in Callers PROVE SameReader(q)
      <4>1. CASE q = p
        BY <2>2, <4>1 DEF SameReader
      <4>2. CASE q # p
        BY <2>1, <4>2 DEF SameReader, Reading
      <4> QED BY <4>1, <4>2
    <3> QED BY <2>3, <3>1, SerialFrame
  <2>4. CASE cache'[k] # cache[k]
    <3>1. call[p].op \in Serials
      BY <2>1, <2>4, <1>0 DEF TypeOK, KeyOf, Serials
    <3>2. ASSUME NEW q \in Callers PROVE ~Reading(q)'
      <4>1. CASE q = p
        BY <2>2, <4>1
      <4>2. CASE q # p
        <5>1. call'[q] = call[q]
          BY <2>1, <4>2
        <5>2. Reading(q) => flight[FlightOf(call[q].op)] = q /\ flight[FlightOf(call[p].op)] = p
                            /\ FlightOf(call[q].op) = FlightOf(call[p].op)
          BY <2>1, <3>1, KeyFacts DEF FlightInv, Reading, Working
        <5> QED BY <4>2, <5>1, <5>2 DEF Reading
      <4> QED BY <4>1, <4>2
    <3> QED BY <3>2 DEF SerialInv, SerialOf, Reading
  <2> QED BY <2>3, <2>4
<1>3. ASSUME NEW p \in Callers, SaveEmpty(p) PROVE SerialInv'
  <2>1. cache'[k] = cache[k]
    BY <1>3, <1>0 DEF SaveEmpty, Store, TypeOK
  <2>2. ASSUME NEW q \in Callers PROVE SameReader(q)
    BY <1>3 DEF SaveEmpty, SameReader, Reading, Leave, TypeOK, Call
  <2> QED BY <2>1, <2>2, SerialFrame
<1>4. ASSUME NEW p \in Callers, NEW op \in Coalesced, NEW first \in {"lookup", "walk"},
             Entering(p, op, first)
      PROVE  SerialInv'
  <2>1. cache' = cache /\ call[p].pc = "idle"
    BY <1>4 DEF Entering, Enter
  <2>2. \A q \in Callers : q # p => call'[q] = call[q]
    BY <1>4 DEF Entering, Enter, Lead, Join, TypeOK
  <2>3. call'[p].pc \in {"lookup", "walk", "wait"}
    <3>1. \/ call' = [call EXCEPT ![p] = Begin(op, first, TRUE)]
          \/ call' = [call EXCEPT ![p] = Begin(op, "wait", FALSE)]
      BY <1>4 DEF Entering, Enter, Lead, Join
    <3> QED BY <3>1 DEF Begin, TypeOK
  <2>4. ASSUME NEW q \in Callers PROVE SameReader(q)
    BY <2>2, <2>3 DEF SameReader, Reading
  <2> QED BY <2>1, <2>4, SerialFrame
<1>5. ASSUME NEW p \in Callers, NEW op \in {"invalidate", "delete"}, Clearing(p, op)
      PROVE  SerialInv'
  <2>1. cache' = cache /\ call' = [call EXCEPT ![p] = Begin(op, "delete_list", FALSE)]
    BY <1>5 DEF Clearing, Clear
  <2>2. call'[p].pc = "delete_list"
    BY <2>1 DEF Begin, TypeOK
  <2>3. ASSUME NEW q \in Callers PROVE SameReader(q)
    <3>1. q = p \/ call'[q] = call[q]
      BY <2>1 DEF TypeOK
    <3> QED BY <2>2, <3>1 DEF SameReader, Reading
  <2>4. cache'[k] = cache[k]
    BY <2>1
  <2> QED BY <2>3, <2>4, SerialFrame
<1>6. ASSUME NEW p \in Callers, NEW r \in Callers, Refreshing(p, r) PROVE SerialInv'
  <2>1. /\ r # p /\ cache' = cache
        /\ call' = [call EXCEPT ![p].ver = cache["onu_info"].ver, ![p].pc = "finish",
                                ![r] = Begin("refresh", "walk", FALSE)]
    BY <1>6 DEF Refreshing, HitAndRefresh
  <2>2. call'[r].pc = "walk" /\ call'[p].pc = "finish"
    BY <2>1 DEF Begin, TypeOK, Call
  <2>3. ASSUME NEW q \in Callers PROVE SameReader(q)
    <3>1. q \in {p, r} \/ call'[q] = call[q]
      BY <2>1 DEF TypeOK
    <3> QED BY <2>2, <3>1 DEF SameReader, Reading
  <2>4. cache'[k] = cache[k]
    BY <2>1
  <2> QED BY <2>3, <2>4, SerialFrame
<1>7. ASSUME NEW p \in Callers, Finish(p) PROVE SerialInv'
  <2>1. ASSUME NEW q \in Callers PROVE SameReader(q)
    <3>1. /\ [call[q] EXCEPT !.pc = "done"].pc = "done"
          /\ [call[q] EXCEPT !.pc = "done", !.ver = call[p].ver, !.err = call[p].err].pc = "done"
      BY DEF TypeOK, Call
    <3>2. call'[q] = call[q] \/ call'[q].pc = "done"
      BY <1>7, <3>1, FinishEffect
    <3> QED BY <3>2 DEF SameReader, Reading
  <2>2. cache'[k] = cache[k]
    BY <1>7 DEF Finish
  <2> QED BY <2>1, <2>2, SerialFrame
<1>8. ASSUME NEW p \in Callers, Missing(p) PROVE SerialInv'
  <2>1. cache'[k].ver \in {0, cache[k].ver}
    BY <1>8, <1>0 DEF Missing, TypeOK
  <2>2. ASSUME NEW q \in Callers PROVE SameReader(q)
    BY <1>8 DEF Missing, Miss, SameReader, Reading, TypeOK, Call
  <2> QED BY <2>1, <2>2, SerialFrame
<1>9. ASSUME NEW p \in Callers, NEW j \in Keys, Hitting(p, j) PROVE SerialInv'
  <2>1. cache'[k].ver \in {0, cache[k].ver}
    BY <1>9, <1>0 DEF Hitting, TypeOK
  <2>2. ASSUME NEW q \in Callers PROVE SameReader(q)
    BY <1>9 DEF Hitting, Hit, SameReader, Reading, TypeOK, Call
  <2> QED BY <2>1, <2>2, SerialFrame
<1>10. ASSUME NEW p \in Callers, WalkFailing(p) PROVE SerialInv'
  <2>1. cache'[k].ver \in {0, cache[k].ver}
    BY <1>10, <1>0 DEF WalkFailing, TypeOK
  <2>2. ASSUME NEW q \in Callers PROVE SameReader(q)
    BY <1>10 DEF WalkFailing, Leave, SameReader, Reading, TypeOK, Call, Idle
  <2> QED BY <2>1, <2>2, SerialFrame
<1>11. ASSUME NEW p \in Callers, SendGet(p) PROVE SerialInv'
  <2>1. cache'[k].ver \in {0, cache[k].ver}
    BY <1>11, <1>0 DEF SendGet, TypeOK
  <2>2. /\ call[p].pc = "get" /\ call'[p].op = call[p].op /\ call'[p].ver = call[p].ver
        /\ \A q \in Callers : q # p => call'[q] = call[q]
    BY <1>11 DEF SendGet, TypeOK, Call
  <2>3. ASSUME NEW q \in Callers PROVE SameReader(q)
    BY <2>2 DEF SameReader, Reading
  <2> QED BY <2>1, <2>3, SerialFrame
<1>12. ASSUME NEW p \in Callers, GetReturns(p) PROVE SerialInv'
  <2>1. cache'[k].ver \in {0, cache[k].ver}
    BY <1>12, <1>0 DEF GetReturns, TypeOK
  <2>2. ASSUME NEW q \in Callers PROVE SameReader(q)
    BY <1>12 DEF GetReturns, AfterGet, SameReader, Reading, TypeOK, Call
  <2> QED BY <2>1, <2>2, SerialFrame
<1>13. ASSUME NEW p \in Callers, DeleteList(p) PROVE SerialInv'
  <2>1. cache'[k].ver \in {0, cache[k].ver}
    BY <1>13, <1>0 DEF DeleteList, Removed, Absent, TypeOK
  <2>2. ASSUME NEW q \in Callers PROVE SameReader(q)
    BY <1>13 DEF DeleteList, Fault, SameReader, Reading, TypeOK, Call
  <2> QED BY <2>1, <2>2, SerialFrame
<1>14. ASSUME NEW p \in Callers, DeleteSerial(p) PROVE SerialInv'
  <2>1. cache'[k].ver \in {0, cache[k].ver}
    BY <1>14, <1>0 DEF DeleteSerial, Removed, Absent, TypeOK
  <2>2. ASSUME NEW q \in Callers PROVE SameReader(q)
    BY <1>14 DEF DeleteSerial, SameReader, Reading, TypeOK, Call
  <2> QED BY <2>1, <2>2, SerialFrame
<1>15. ASSUME NEW p \in Callers, Answer(p) PROVE SerialInv'
  <2>1. cache'[k].ver \in {0, cache[k].ver}
    BY <1>15, <1>0 DEF Answer, TypeOK
  <2>2. ASSUME NEW q \in Callers PROVE SameReader(q)
    BY <1>15 DEF Answer, SameReader, Reading, TypeOK, Call, Idle
  <2> QED BY <2>1, <2>2, SerialFrame
<1>16. CASE Provision
  <2>1. cache'[k].ver \in {0, cache[k].ver}
    BY <1>16, <1>0 DEF Provision, TypeOK
  <2>2. ASSUME NEW q \in Callers PROVE SameReader(q)
    BY <1>16 DEF Provision, SameReader, Reading, TypeOK, Call
  <2> QED BY <2>1, <2>2, SerialFrame
<1>17. CASE AgeList
  <2>1. cache'[k].ver \in {0, cache[k].ver}
    BY <1>17, <1>0 DEF AgeList, TypeOK
  <2>2. ASSUME NEW q \in Callers PROVE SameReader(q)
    BY <1>17 DEF AgeList, SameReader, Reading, TypeOK, Call
  <2> QED BY <2>1, <2>2, SerialFrame
<1>18. ASSUME NEW j \in Keys, Expire(j) PROVE SerialInv'
  <2>1. cache'[k].ver \in {0, cache[k].ver}
    BY <1>18, <1>0 DEF Expire, Absent, TypeOK
  <2>2. ASSUME NEW q \in Callers PROVE SameReader(q)
    BY <1>18 DEF Expire, SameReader, Reading, TypeOK, Call
  <2> QED BY <2>1, <2>2, SerialFrame
<1>19. CASE UNCHANGED vars
  <2>1. cache'[k].ver \in {0, cache[k].ver}
    BY <1>19, <1>0 DEF vars, TypeOK
  <2>2. ASSUME NEW q \in Callers PROVE SameReader(q)
    BY <1>19 DEF vars, SameReader, Reading, TypeOK, Call
  <2> QED BY <2>1, <2>2, SerialFrame
<1> QED BY Steps, <1>1, <1>2, <1>3, <1>4, <1>5, <1>6, <1>7, <1>8, <1>9, <1>10, <1>11,
           <1>12, <1>13, <1>14, <1>15, <1>16, <1>17, <1>18, <1>19

-----------------------------------------------------------------------------
(***************************************************************************)
(* The theorems.                                                           *)
(***************************************************************************)
\* The initial state satisfies the inductive invariant.
LEMMA InitInv == Init => IInv
<1> SUFFICES ASSUME Init PROVE IInv
  OBVIOUS
<1>1. TypeOK
  BY IdleType DEF Init, TypeOK, Absent
<1>2. StageInv /\ GetInv
  BY DEF Init, StageInv, StageOf, GetInv, Idle, Coalesced
<1>3. FlightInv
  BY DEF Init, FlightInv, Idle, Coalesced
<1>4. FreshInv
  BY KeyFacts DEF Init, FreshInv, KeyFresh, CallFresh, Absent, Idle
<1>5. ForcedInv /\ PollerInv /\ SerialInv
  BY DEF Init, ForcedInv, ForcedOf, PollerInv, PollerOf, SerialInv, SerialOf, Idle, Forced, Serials
<1> QED BY <1>1, <1>2, <1>3, <1>4, <1>5 DEF IInv

\* Every step preserves the inductive invariant.
LEMMA StepInv == IInv /\ [Next]_vars => IInv'
<1> SUFFICES ASSUME IInv, [Next]_vars PROVE IInv'
  OBVIOUS
<1>1. TypeOK'
  BY TypeStep DEF IInv
<1>2. StageInv' /\ FlightInv' /\ GetInv'
  BY StageStep, FlightStep, GetStep DEF IInv
<1>3. FreshInv' /\ ForcedInv' /\ PollerInv'
  BY FreshStep, ForcedStep, PollerStep DEF IInv
<1>4. SerialInv'
  BY <1>1, SerialStep DEF IInv
<1> QED BY <1>1, <1>2, <1>3, <1>4 DEF IInv

\* The inductive invariant holds in every reachable state.
THEOREM Invariance == Spec => []IInv
BY InitInv, StepInv, PTL DEF Spec

\* The shared state and the goroutines' state keep their types.
THEOREM TypeCorrect == Spec => []TypeOK
<1>1. IInv => TypeOK
  BY DEF IInv
<1> QED BY <1>1, Invariance, PTL

\* After a deletion (or a free-ID update) that met no other execution on its key,
\* no read of that key that starts later is older than the OLT was then, however
\* many callers, flights and refreshes there are.
THEOREM QuietClears == Spec => []QuietClearIsEffective
<1>1. IInv => QuietClearIsEffective
  BY DEF IInv, TypeOK, FreshInv, CallFresh, QuietClearIsEffective, Answered, Call
<1> QED BY <1>1, Invariance, PTL

\* The poller's inventory is read from the OLT after the poller asked for it.
THEOREM PollerFresh == Spec => []PollerReadsFresh
<1>1. ASSUME IInv, Answered(Poller) PROVE call[Poller].ver >= call[Poller].since
  <2>1. call[Poller].op = "poll" /\ call[Poller].lead
    BY <1>1, CallersAssumption DEF IInv, PollerInv, PollerOf, Answered
  <2>2. ForcedOf(Poller)
    BY <1>1, CallersAssumption DEF IInv, ForcedInv
  <2>3. call[Poller].ver \in Nat /\ call[Poller].since \in Nat
    BY <1>1, CallersAssumption DEF IInv, TypeOK, Call
  <2> QED BY <1>1, <2>1, <2>2, <2>3 DEF ForcedOf, Forced, Answered
<1>2. IInv => PollerReadsFresh
  BY <1>1 DEF PollerReadsFresh
<1> QED BY <1>2, Invariance, PTL

\* A forced read that leads its own execution answers with nothing older than
\* its start.
THEOREM ForcedLeadersFresh == Spec => []ForcedLeaderIsFresh
<1>1. IInv => ForcedLeaderIsFresh
  BY DEF IInv, TypeOK, ForcedInv, ForcedOf, ForcedLeaderIsFresh, Answered, Call
<1> QED BY <1>1, Invariance, PTL

\* Every waiter, on a flight or on a Get inside one, has a leader that is
\* executing it.
THEOREM WaitersLed == Spec => []WaitersHaveALeader
<1>1. IInv => WaitersHaveALeader
  <2> SUFFICES ASSUME IInv, NEW p \in Callers, call[p].op \in Coalesced
               PROVE  LET leader == flight[FlightOf(call[p].op)] IN
                      /\ call[p].pc = "wait" =>
                           /\ leader \in Callers
                           /\ call[leader].pc \in Working
                           /\ FlightOf(call[leader].op) = FlightOf(call[p].op)
                      /\ call[p].pc \in Working => leader = p
                      /\ call[p].pc = "getwait" => get \in Callers /\ call[get].pc = "getting"
                      /\ call[p].pc = "getting" => get = p
    BY DEF WaitersHaveALeader
  <2>1. FlightOf(call[p].op) \in Flights
    BY KeyFacts
  <2>2. TypeOK /\ FlightInv /\ GetInv
    BY DEF IInv
  <2> QED BY <2>1, <2>2 DEF TypeOK, FlightInv, GetInv
<1> QED BY <1>1, Invariance, PTL

\* The cached serial list is never replaced by an older one.
THEOREM SerialListMonotone == Spec => SerialListNeverRegresses
<1> DEFINE A == /\ cache["serial_list"].ver # 0
                /\ cache'["serial_list"].ver # 0
                => cache'["serial_list"].ver >= cache["serial_list"].ver
<1>1. ASSUME IInv, [Next]_vars PROVE A
  <2> DEFINE k == "serial_list"
  <2> USE DEF TypeOK
  <2>0. k \in Keys /\ TypeOK /\ StageInv /\ SerialInv
    BY <1>1 DEF Keys, IInv
  <2>1. ASSUME NEW p \in Callers, NEW j \in Keys, Saving(p, j) PROVE A
    <3>1. /\ call[p].pc = "save" /\ KeyOf(call[p].op) = j
          /\ \/ cache' = [cache EXCEPT ![j] = [ver |-> call[p].ver, low |-> FALSE]]
             \/ cache' = cache
      BY <2>1 DEF Saving, SaveLogged, Store
    <3>2. j = k => cache[k].ver <= call[p].ver
      BY <2>0, <3>1 DEF SerialInv, SerialOf, Serials, KeyOf
    <3> QED BY <2>0, <3>1, <3>2 DEF Call
  <2>2. ASSUME cache'[k].ver \in {0, cache[k].ver} PROVE A
    BY <2>0, <2>2
  <2>3. ASSUME NEW p \in Callers, SaveEmpty(p) PROVE A
    <3>1. cache'[k] = cache[k]
      BY <2>0, <2>3 DEF SaveEmpty, Store
    <3> QED BY <2>2, <3>1
  <2>4. ASSUME NEW p \in Callers, DeleteList(p) \/ DeleteSerial(p) PROVE A
    <3>1. cache'[k].ver \in {0, cache[k].ver}
      <4>1. CASE DeleteList(p)
        BY <2>0, <4>1 DEF DeleteList, Removed, Absent
      <4>2. CASE DeleteSerial(p)
        BY <2>0, <4>2 DEF DeleteSerial, Removed, Absent
      <4> QED BY <2>4, <4>1, <4>2
    <3> QED BY <2>2, <3>1
  <2>5. ASSUME AgeList \/ \E j \in Keys : Expire(j) PROVE A
    <3>1. cache'[k].ver \in {0, cache[k].ver}
      BY <2>0, <2>5 DEF AgeList, Expire, Absent
    <3> QED BY <2>2, <3>1
  <2>6. ASSUME cache' = cache PROVE A
    BY <2>2, <2>6
  <2>7. ASSUME NEW p \in Callers, NEW op, NEW first, Entering(p, op, first) \/ Clearing(p, op)
        PROVE  cache' = cache
    BY <2>7 DEF Entering, Enter, Clearing, Clear
  <2>8. ASSUME NEW p \in Callers,
               \/ Missing(p) \/ \E j \in Keys : Hitting(p, j)
               \/ \E r \in Callers : Refreshing(p, r)
               \/ \E next \in {"get", "save", "finish"} : Walking(p, next)
               \/ WalkFailing(p) \/ SendGet(p) \/ GetReturns(p) \/ Finish(p) \/ Answer(p)
        PROVE  cache' = cache
    BY <2>8 DEF Missing, Hitting, Refreshing, Walking, WalkFailing, SendGet, GetReturns,
                Finish, Answer
  <2>9. ASSUME Provision \/ UNCHANGED vars PROVE cache' = cache
    BY <2>9 DEF Provision, vars
  <2> HIDE DEF A
  <2> QED BY <1>1, Steps, <2>0, <2>1, <2>3, <2>4, <2>5, <2>6, <2>7, <2>8, <2>9
<1>2. IInv /\ [Next]_vars => [A]_vars
  BY <1>1
<1> QED BY <1>2, Invariance, PTL DEF Spec, SerialListNeverRegresses
=============================================================================
