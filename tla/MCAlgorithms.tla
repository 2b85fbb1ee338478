---------------------------- MODULE MCAlgorithms ----------------------------
(***************************************************************************)
(* The pure algorithms on bounded inputs: those of the history (module     *)
(* HistoryInputs), the reading of Ethernet ports and of uplinks, the       *)
(* topology with its stacks, and the pages of a list.                      *)
(***************************************************************************)
EXTENDS HistoryInputs, Ethernet, Uplink, Topology, Pagination

CONSTANTS MaxRows, MaxPairs, MaxReconciles, MaxListLength \* bounds on the inputs

Give(k, v) == kind = "none" /\ kind' = k /\ value' = v

-----------------------------------------------------------------------------
(***************************************************************************)
(* Ethernet ports of ONU 1; ONU 2 is its neighbour on the PON.             *)
(***************************************************************************)
RowNames == {<<1, 1>>, <<1, 3>>, <<1, 0>>, <<2, 1>>}
RowValues == << {1, Other}, {1, 2, NoInstance}, {1, 6} >>

NothingRead == [c \in Columns |-> [rows |-> <<>>, failed |-> FALSE]]

Delivered(columns) ==
  FoldFunction(LAMBDA column, sum : sum + Cardinality(DOMAIN column.rows) + (IF column.failed THEN 1 ELSE 0),
               0, columns)

WithRow(rows, n, v) == [m \in DOMAIN rows \cup {n} |-> IF m = n THEN v ELSE rows[m]]

\* The rows of a column that a walk delivered come before its failure.
Deliver ==
  /\ kind \in {"none", "ethernet"} /\ kind' = "ethernet"
  /\ LET columns == IF kind = "none" THEN NothingRead ELSE value IN
     \E c \in Columns :
       /\ ~columns[c].failed /\ Delivered(columns) < MaxRows
       /\ \/ \E n \in RowNames \ DOMAIN columns[c].rows, v \in RowValues[c] :
               value' = [columns EXCEPT ![c].rows = WithRow(@, n, v)]
          \/ value' = [columns EXCEPT ![c].failed = TRUE]

States == {"Online", "Offline", "Unknown"}
Expected == {0, 2}

OfPON(columns, state, expected) ==
  AttachPONEthernet(columns, [i \in 1..2 |-> [state |-> IF i = 1 THEN state ELSE "Online",
                                            expected |-> IF i = 1 THEN expected ELSE 0]])[1]

OwnRows(columns) ==
  [c \in Columns |-> [columns[c] EXCEPT !.rows = Restrict(@, {n \in DOMAIN @ : n[1] = 1})]]

\* What is asked of an ONU, here 1, that is walked alone and with its PON, whose other ONUs
\* are online.
ReadsAgree(columns, malformed, state, expected) ==
  LET alone == GetEthernetPorts(columns, 1, state, expected)
      shared == OfPON(columns, state, expected) IN
  /\ alone.status # shared.status => malformed /\ <<alone.status, shared.status>> = <<"partial", "ok">>
  /\ IF state = "Online"
     THEN /\ alone.ports = shared.ports
          /\ shared = AttachPONEthernet(OwnRows(columns), [i \in {1} |-> [state |-> state, expected |-> expected]])[1]
     ELSE /\ alone.ports = NoPorts
          /\ shared.ports = [p \in 1..expected |-> UnknownPort]

\* The list of a PON shows an online ONU the ports that the ONU's own page shows, with the
\* same status unless a row below the ONU has no index of a port, which only the walk of
\* the one ONU takes note of; and nothing of its neighbours.  Of an ONU that is not online
\* neither shows a state, although the list shows the ports of its model when somebody
\* else is online (attachPONEthernet, getEthernetPorts).
EthernetReadsAgree ==
  kind = "ethernet" => \A state \in States, expected \in Expected :
    ReadsAgree(value, <<1, 0>> \in Names(value), state, expected)

\* What is asked of the stored sample of ONU 1; the rows of its ports have these numbers.
StoredAsRead(columns, numbers, state, expected) ==
  LET eth == OfPON(columns, state, expected)
      stored == StoredPorts(eth, expected)
      cell(c, p) == IF <<1, p>> \in DOMAIN columns[c].rows THEN columns[c].rows[<<1, p>>] ELSE NoInstance
      read == {p \in numbers : \E c \in Columns : Integral(cell(c, p))}
      state1(p) == [admin |-> CASE cell(1, p) = 1 -> "enabled" [] cell(1, p) = 2 -> "disabled"
                                [] OTHER -> "unknown",
                    link |-> CASE cell(2, p) = 1 -> "up" [] cell(2, p) = 2 -> "down"
                               [] OTHER -> "unknown"] IN
  /\ DOMAIN stored = (1..expected) \cup (IF state = "Online" THEN read ELSE {})
  /\ \A p \in DOMAIN stored :
       stored[p] = IF state = "Online" /\ p \in read THEN state1(p)
                   ELSE [admin |-> "unknown", link |-> "unknown"]
  /\ eth.status = "ok" =>
       /\ state = "Online" /\ \A c \in Columns : ~columns[c].failed
       /\ \A p \in read : /\ cell(1, p) \in 1..2 /\ cell(2, p) \in 1..2
                          /\ cell(2, p) = 1 => cell(3, p) \in 2..7
  /\ SampleLink(eth) = "up" => \E p \in read : cell(2, p) = 1
  /\ SampleSpeed(eth) > 0 => SampleLink(eth) = "up"

\* Every port the walks read of an online ONU is in its stored sample with the state that
\* was read, the ones above the expected number included, although the list and the store
\* both pad; every other stored port is unknown.  "ok" means that no walk failed and that
\* of every port everything was read (PadEthernetPorts, applyEthernet, applyExpectedPorts).
StoredPortsAreRead ==
  kind = "ethernet" => \A state \in States, expected \in Expected :
    StoredAsRead(value, {1, 3}, state, expected)

-----------------------------------------------------------------------------
(***************************************************************************)
(* Uplinks: three interfaces, the pairs of the stack in any order.         *)
(***************************************************************************)
NoWalk == [kinds |-> <<>>, oper |-> <<>>, stack |-> <<>>, class |-> <<>>, position |-> <<>>, failed |-> {}]

Interfaces == \E kinds \in UNION {[1..n -> {"physical", "lag", "other"}] : n \in 2..3} :
                Give("uplinks", [NoWalk EXCEPT !.kinds = kinds, !.oper = [i \in {1, 2} |-> i]])

OfUplinks == kind = "uplinks" /\ kind' = kind

StackPair == /\ OfUplinks /\ Len(value.stack) < MaxPairs /\ value.failed = {}
             /\ \E pair \in (1..3) \X (1..3) : value' = [value EXCEPT !.stack = Append(@, pair)]

WalkFails == /\ OfUplinks /\ value.failed = {} /\ Len(value.stack) < 2
             /\ \E w \in {"stack", "position", "oper"} : value' = [value EXCEPT !.failed = {w}]

\* What is asked of LAGs and physical ports that a walk was put together to.
LagsAndMembers(walk, ports, lags, physical) ==
  LET pairs == {q \in lags \X physical :
                  \E i \in DOMAIN walk.stack : {walk.stack[i][1], walk.stack[i][2]} = {q[1], q[2]}} IN
  /\ \A i \in physical :
       /\ ports[i].members = {}
       /\ ports[i].lag # NoLag => ports[i].lag \in lags /\ i \in ports[ports[i].lag].members
  /\ \A l \in lags :
       /\ ports[l].lag = NoLag
       /\ ports[l].members = {p \in physical : <<l, p>> \in pairs}
       /\ \A p \in ports[l].members :
            ports[p].lag # l => \E k \in DOMAIN walk.stack :
                                  {walk.stack[k][1], walk.stack[k][2]} = {p, ports[p].lag}

\* A LAG and its members name each other: who has a LAG is a physical port in the list of
\* that LAG, and who is in a list is a physical port that has a LAG.  When no pair gives a
\* port a second LAG the lists are exactly the ports of each; else the port names the LAG
\* of the last pair and stays in the list of every one.  Ports and cards do not depend on
\* the walks that are allowed to fail (attachLagMember, GetUplinkTopology).
LagsAndMembersAgree ==
  kind = "uplinks" =>
    LET ports == GetUplinkTopology(value).ports
        of(k) == {i \in DOMAIN ports : ports[i].kind = k} IN
    /\ DOMAIN ports = IF "oper" \in value.failed THEN {} ELSE Uplinks(value)
    /\ LagsAndMembers(value, ports, of("lag"), of("physical"))
    /\ \A i \in DOMAIN ports : ports[i].status = IF i = 3 THEN 0 ELSE i

-----------------------------------------------------------------------------
(***************************************************************************)
(* Configuration.                                                          *)
(***************************************************************************)
Parts == {<<>>, <<NotANumber>>, <<1>>, <<30>>, <<31>>, <<1, 2>>, <<1, 17>>, <<1, 2, 3>>}
Texts == UNION {[1..n -> Parts] : n \in 1..2}

Unset == [kind |-> "unset", olts |-> <<>>]
ListOf(olts) == [kind |-> "list", olts |-> olts]

Settings ==
  [boards : Texts, pons : {0, 8}, host : {"", "h"}, community : {"c"}, max : {0}, default : {"", "a"},
   inline : {Unset}, file : {Unset}, poll : {FALSE}, store : {FALSE}]
    \cup
  [boards : {<< <<30>> >>}, pons : {8}, host : {"h"}, community : {"c"}, max : {0}, default : {"a"},
   inline : {Unset}, file : {Unset, [Unset EXCEPT !.kind = "blank"]}, poll : BOOLEAN, store : BOOLEAN]

ListedIDs == {"a", "b", "not url-safe"}
ListedTexts == {<< <<>> >>, << <<1>> >>, << <<1, 2>>, <<30>> >>, << <<1>>, <<1, 2>> >>}

Listed ==
  [id : ListedIDs, host : {"h"}, community : {"c"}, walk : {FALSE}, user : {0}, max : {0},
   port : {0, 65536}, pons : {8}, boards : ListedTexts]

Lists == UNION {[1..n -> Listed] : n \in 0..2}

WithList(olts, default, where) ==
  [boards |-> << <<>> >>, pons |-> 0, host |-> "", community |-> "", max |-> 0, default |-> default,
   inline |-> IF where = "inline" THEN ListOf(olts) ELSE Unset, file |-> ListOf(olts),
   poll |-> FALSE, store |-> FALSE]

Configure ==
  \/ \E env \in Settings : Give("config", env)
  \/ \E olts \in Lists, default \in {"", "a", "c"}, where \in {"inline", "file"} :
       Give("config", WithList(olts, default, where))

\* What a text says: boards with the counts beside them.
Written(text, pons) ==
  IF text = << <<>> >> THEN {<<b, PonCount(pons)>> : b \in DefaultBoards}
  ELSE {<<text[i][1], IF Len(text[i]) = 2 THEN text[i][2] ELSE PonCount(pons)>> : i \in DOMAIN text}

\* What is asked of the configuration that the settings and the list make.
AsWritten(config, list, env) ==
  LET text(i) == IF list.kind = "unset" THEN env.boards ELSE list.olts[i].boards
      pons(i) == IF list.kind = "unset" THEN env.pons ELSE list.olts[i].pons IN
  /\ \A i \in DOMAIN config.olts :
       LET specs == config.olts[i].specs IN
       /\ {<<b, specs[b]>> : b \in DOMAIN specs} = Written(text(i), pons(i))
       /\ DOMAIN config.olts[i].map = Ports(specs)
  /\ Cardinality({config.olts[i].id : i \in DOMAIN config.olts}) = Len(config.olts)
  /\ \E i \in DOMAIN config.olts : config.olts[i].id = config.default

ConfigAsWritten(env) ==
  LoadConfig(env).ok => AsWritten(LoadConfig(env), ResolveOLTS(env.inline, env.file).list, env)

\* A configuration that is accepted has the boards that were written and no other, with
\* the counts that were written, although the parser skips and defaults what it does not
\* understand; every PON of it has indexes and nothing else has; identifiers are unique
\* and the default is one of them (LoadConfig, BuildOLTRegistry, parseBoardSpecs behind
\* validateBoardSpecs).
ConfigIsWhatWasWritten == kind = "config" => ConfigAsWritten(value)

-----------------------------------------------------------------------------
(***************************************************************************)
(* Stacks: calls of Reconcile, of which the program makes one and its      *)
(* tests several.                                                          *)
(***************************************************************************)
Olt(id, host, user, max, specs) ==
  [id |-> id, user |-> user, host |-> host, community |-> "c", walk |-> FALSE, port |-> DefaultPort,
   max |-> max, specs |-> specs, map |-> BoardPonMap(specs).map]

OneBoard(pons) == [b \in {1} |-> pons]
TwoBoards == [b \in {1, 3} |-> IF b = 1 THEN 1 ELSE 2]

Variants(id) ==
  {<<>>} \cup {<<Olt(id, "h", 1, 5, OneBoard(2))>>, <<Olt(id, "h", 2, 3, OneBoard(2))>>,
               <<Olt(id, "other", 1, 5, OneBoard(2))>>, <<Olt(id, "h", 1, 5, TwoBoards)>>}

ReconcileCalls ==
  {[olts |-> a \o b, failing |-> failing] :
     a \in Variants("a"), b \in Variants("b"), failing \in {{}, {"a"}, {"b"}}}

ReconcileCall == \E call \in ReconcileCalls : Grow("stacks", MaxReconciles, call)

Stacks(calls) ==
  FoldLeft(LAMBDA reg, call : Reconcile(reg, call.olts, call.failing, "a"), NoStacks, calls)

\* What is asked of a call that made reg of before.
FollowsConfig(before, reg, call) ==
  LET used == {reg.entries[id].pool : id \in DOMAIN reg.entries} IN
  /\ DOMAIN reg.entries \subseteq {call.olts[i].id : i \in DOMAIN call.olts}
  /\ \A i \in DOMAIN call.olts :
       LET o == call.olts[i] IN
       \/ o.id \in call.failing \ DOMAIN reg.entries
       \/ /\ o.id \in DOMAIN reg.entries
          /\ reg.entries[o.id].olt = o /\ reg.entries[o.id].user = o.user
          /\ <<reg.entries[o.id].stack.host, reg.entries[o.id].stack.map>> = <<o.host, o.map>>
          /\ o.id \in DOMAIN before.entries
               /\ before.entries[o.id].olt = [o EXCEPT !.max = before.entries[o.id].olt.max,
                                                       !.user = before.entries[o.id].olt.user]
               => reg.entries[o.id].pool = before.entries[o.id].pool
  /\ \A id \in DOMAIN reg.entries : LET e == reg.entries[id] IN
       Admitted(e) = Indexed(e) /\ Polled(e) = Indexed(e)
  /\ used \cap reg.closed = {} /\ used \cup reg.closed = 1..reg.opened
  /\ Cardinality(used) = Cardinality(DOMAIN reg.entries)
  /\ CloseRegistry(reg).closed = 1..reg.opened

\* After any calls of Reconcile the stacks are those of the last configuration, but for
\* the connections that could not be set up; a stack is connected as its OLT says, and
\* was not reconnected if nothing of that changed; the router admits, the poller walks
\* and the use case has indexes for the same PONs; connections are open exactly while
\* a stack uses them, up to Close (Reconcile, addOLTLocked, removeOLTLocked, Close).
StacksFollowConfig ==
  kind = "stacks" /\ value # <<>> =>
    FollowsConfig(Stacks(Front(value)), Stacks(value), Last(value))

-----------------------------------------------------------------------------
(***************************************************************************)
(* Users, on three stacks of which one has no owner.                       *)
(***************************************************************************)
Users == [user : 0..2, key : {"", "k1", "k2"}, role : {"", "admin", "root"}]

AddUser == \E u \in Users : Grow("users", 2, u)

Owned(failing) ==
  Reconcile(NoStacks, <<Olt("a", "h", 0, 5, OneBoard(1)), Olt("b", "h", 1, 5, OneBoard(1)),
                        Olt("c", "h", 2, 5, OneBoard(1))>>, failing, "a")

\* What is asked of a request with a key for an OLT (id = "": for none by name).
ServedRightly(users, legacy, key, reg, default, id) ==
  LET caller == Authenticator(BuildUserRegistry(users).users, legacy, key)
      served == ResolveOLT(reg, default, id, caller) IN
  /\ caller.ok <=> IF users # <<>> THEN \E i \in DOMAIN users : users[i].key = key
                   ELSE legacy = "" \/ key = legacy
  /\ caller.ok =>
       /\ id # "" => served \subseteq {id}
       /\ caller.scoped <=> users # <<>>
       /\ \A j \in DOMAIN reg.entries :
            IF ~caller.scoped \/ caller.who.admin THEN j = id => served = {id}
            ELSE j \in served => reg.entries[j].user >= 1 /\ reg.entries[j].user = caller.who.user

\* With users an OLT without an owner is for administrators and every other one for its
\* owner and them, by its name and, when it stands in for a default that could not be
\* set up, without one; without users everyone who is let in is served.  No request is
\* answered by an OLT it did not name (buildUserRegistry, Authenticator, resolveOLT).
ServedByOwnOLT ==
  kind = "users" /\ BuildUserRegistry(value).ok =>
    \A key \in {"", "k1", "k2"}, legacy \in {"", "k1"}, failing \in {{}, {"a"}}, id \in {"", "a", "b", "c"} :
      ServedRightly(value, legacy, key, Owned(failing), "a", id)

-----------------------------------------------------------------------------
(***************************************************************************)
(* Pages.                                                                  *)
(***************************************************************************)
AskPage ==
  \E n \in 0..MaxListLength, page \in (-1)..4 \cup {NoNumber}, size \in (-1)..(MaxPageSize + 2) \cup {NoNumber} :
    Give("page", [list |-> [i \in 1..n |-> i], page |-> page, size |-> size])

\* What is asked of the pages of a list: from the first to the last that the answer counts
\* they are the list, each row once and in order.
PagesPartition(list, asked, size) ==
  Paginate(list, asked, size).status = "ok" =>
    LET meta == Paginate(list, asked, size).meta
        page(k) == Paginate(list, k, size)
        rows(k) == IF page(k).status = "ok" THEN page(k).rows ELSE <<>> IN
    /\ PageOf(asked) >= 1 /\ LimitOf(size) >= 1
    /\ FlattenSeq([k \in 1..meta.count |-> rows(k)]) = list
    /\ page(meta.count + 1).status = "not found"
    /\ LimitOf(size) <= MaxPageSize => \A k \in 1..meta.count : /\ page(k).status = "ok"
                                                                /\ Len(rows(k)) <= meta.limit

\* The pages that the answer counts are the list, and what comes after them is not
\* found; a page that is none, or without a size, is never answered with rows.  A limit
\* above the greatest cuts longer pages than it says, and still none is missing
\* (Paginate of the handler, New).
PagesPartitionTheList ==
  kind = "page" => PagesPartition(value.list, value.page, value.size)

-----------------------------------------------------------------------------
DeviceNext == Deliver \/ Interfaces \/ StackPair \/ WalkFails

ServiceNext == Configure \/ ReconcileCall \/ AddUser \/ AskPage

Next == HistoryNext \/ DeviceNext \/ ServiceNext

Spec == Init /\ [][Next]_vars
=============================================================================
