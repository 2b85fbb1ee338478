------------------------------ MODULE Topology ------------------------------
(***************************************************************************)
(* From the environment to the OLTs that are served: the boards and PONs   *)
(* of an OLT and their SNMP indexes (config/config.go, validation.go,      *)
(* oid_generator.go), the list of OLTs (config/olts.go), the stacks built  *)
(* for it (Reconcile, app/registry.go), and who is served by which of them *)
(* (config/users.go, internal/middleware, app/routes.go).                  *)
(*                                                                         *)
(* A board specification is what is left of the text between two commas:   *)
(* the fields between its colons, numbers or NotANumber; <<>> when it is   *)
(* blank.  Hosts, communities, identifiers and keys are values of which    *)
(* "" is the empty one.  A result that can fail has a field "ok".          *)
(***************************************************************************)
EXTENDS Integers, Sequences, FiniteSets

MaxBoardID == 30
MaxPonID   == 16
NotANumber == -1
DefaultBoards == {1, 2}

OnuIDIfIndexBase   == 285278208
OnuIDSlotStride    == 256
OnuTypeIfIndexBase == 268435456
OnuTypeSlotStride  == 65536
OnuTypeIncrement   == 256

Failed == [ok |-> FALSE]

-----------------------------------------------------------------------------
(***************************************************************************)
(* Indexes.                                                                *)
(***************************************************************************)
Boards == 1..MaxBoardID
Pons   == 1..MaxPonID

\* Index of a PON in the tables of names, serial numbers, states and levels, and of
\* Ethernet ports (ponIfIndex).
OnuIDSuffix(slot, pon) == OnuIDIfIndexBase + slot * OnuIDSlotStride + pon

\* Index of a PON in the tables of types and addresses.
OnuTypeSuffix(slot, pon) == OnuTypeIfIndexBase + slot * OnuTypeSlotStride + pon * OnuTypeIncrement

NoPort == <<0, 0>>

\* The PON of an index that the table of unconfigured ONUs delivers.
DecodeOnuIDIfIndex(idx) ==
  LET board == (idx - OnuIDIfIndexBase) \div OnuIDSlotStride
      pon == (idx - OnuIDIfIndexBase) % OnuIDSlotStride IN
  IF idx >= OnuIDIfIndexBase /\ board \in Boards /\ pon \in Pons THEN <<board, pon>> ELSE NoPort

\* A count out of range, or none (0), stands for all the PONs a board can have.
PonCount(n) == IF n \in Pons THEN n ELSE MaxPonID

\* PONs of a topology, a function from boards to counts.
Ports(specs) == {k \in (DOMAIN specs) \X Pons : k[2] <= PonCount(specs[k[1]])}

OrDefault(specs) == IF DOMAIN specs = {} THEN [b \in DefaultBoards |-> MaxPonID] ELSE specs

\* InitializeBoardPonMapFromSpecs: one board that cannot exist fails them all.
BoardPonMap(specs) ==
  IF DOMAIN OrDefault(specs) \subseteq Boards
  THEN [ok |-> TRUE,
        map |-> [k \in Ports(OrDefault(specs)) |->
                   [onuID |-> OnuIDSuffix(k[1], k[2]), onuType |-> OnuTypeSuffix(k[1], k[2])]]]
  ELSE Failed

-----------------------------------------------------------------------------
(***************************************************************************)
(* Board specifications.                                                   *)
(***************************************************************************)
Slot(part) == IF part = <<>> THEN NotANumber ELSE part[1]

\* Mutant: a board may be named twice.
ValidateBoardSpecs_Twice(text) ==
  text = <<<<>>>> \/
  \A i \in DOMAIN text : /\ Slot(text[i]) \in Boards /\ Len(text[i]) <= 2
                         /\ Len(text[i]) = 2 => text[i][2] \in Pons

\* A text that is blank as a whole is valid; a blank part of one is not.
ValidateBoardSpecs(text) ==
  text = <<<<>>>> \/
  \A i \in DOMAIN text : /\ Slot(text[i]) \in Boards /\ Len(text[i]) <= 2
                         /\ Len(text[i]) = 2 => text[i][2] \in Pons
                         /\ \A j \in DOMAIN text : Slot(text[i]) = Slot(text[j]) => i = j

\* Parts without a valid board are skipped, the last of two for one board wins, and a
\* count that is no count is the default.
ParseBoardSpecs(text, defaultPons) ==
  LET valid == {i \in DOMAIN text : Slot(text[i]) \in Boards}
      last(b) == CHOOSE i \in valid : /\ Slot(text[i]) = b
                                      /\ \A j \in valid : Slot(text[j]) = b => j <= i
      count(part) == IF Len(part) = 2 /\ part[2] \in Pons THEN part[2] ELSE PonCount(defaultPons) IN
  IF valid = {} THEN [b \in DefaultBoards |-> PonCount(defaultPons)]
  ELSE [b \in {Slot(text[i]) : i \in valid} |-> count(text[last(b)])]

-----------------------------------------------------------------------------
(***************************************************************************)
(* The list of OLTs.                                                       *)
(***************************************************************************)
UnsafeIDs == {"", "not url-safe"}

DefaultPort == 161
DefaultMaxConcurrent == 5

\* OLTS wins over the file; a file that is named must be there and hold something.
ResolveOLTS(inline, file) ==
  IF inline.kind = "list" THEN [ok |-> TRUE, list |-> inline]
  ELSE CASE file.kind = "unset" -> [ok |-> TRUE, list |-> file]
         [] file.kind = "list"  -> [ok |-> TRUE, list |-> file]
         [] OTHER               -> Failed

\* The bound of an OLT, or the one of the settings, or else the default.
MaxConcurrent(own, settings) ==
  CASE own >= 1 -> own [] own < 1 /\ settings >= 1 -> settings [] OTHER -> DefaultMaxConcurrent

OltOf(e, maxConcurrent) ==
  LET specs == ParseBoardSpecs(e.boards, e.pons) IN
  [id |-> e.id, user |-> e.user, host |-> e.host, community |-> e.community, walk |-> e.walk,
   port |-> IF e.port = 0 THEN DefaultPort ELSE e.port,
   max |-> MaxConcurrent(e.max, maxConcurrent),
   specs |-> specs, map |-> BoardPonMap(specs).map]

CompleteEntry(e) ==
  e.id # "" /\ e.host # "" /\ e.community # "" /\ e.port >= 0 /\ e.port <= 65535

\* The boards of a text that is valid have indexes.
OltFromJSON(e, maxConcurrent) ==
  IF CompleteEntry(e) /\ ValidateBoardSpecs(e.boards)
  THEN [ok |-> TRUE, olt |-> OltOf(e, maxConcurrent)] ELSE Failed

\* Without a list the one OLT is that of the older settings.
BuildOLTRegistry(list, defaultOLT, legacy) ==
  LET olts == IF list.kind = "unset" THEN <<[ok |-> legacy.host # "" /\ legacy.community # "", olt |-> legacy]>>
              ELSE [i \in DOMAIN list.olts |-> OltFromJSON(list.olts[i], legacy.max)]
      default == IF defaultOLT = "" THEN olts[1].olt.id ELSE defaultOLT IN
  IF olts # <<>> /\ (\A i \in DOMAIN olts : olts[i].ok /\ olts[i].olt.id \notin UnsafeIDs)
     /\ (\A i, j \in DOMAIN olts : olts[i].olt.id = olts[j].olt.id => i = j)
     /\ (\E i \in DOMAIN olts : olts[i].olt.id = default)
  THEN [ok |-> TRUE, olts |-> [i \in DOMAIN olts |-> olts[i].olt], default |-> default]
  ELSE Failed

\* The older settings are checked even when OLTS replaces them.  It fails as well when
\* the users do (BuildUserRegistry).
LoadConfig(env) ==
  LET specs == ParseBoardSpecs(env.boards, env.pons)
      legacy == [id |-> IF env.default = "" THEN "default" ELSE env.default, user |-> 0, host |-> env.host,
                 community |-> env.community, walk |-> FALSE, port |-> DefaultPort, max |-> env.max,
                 specs |-> specs, map |-> BoardPonMap(specs).map]
      source == ResolveOLTS(env.inline, env.file) IN
  IF ~ValidateBoardSpecs(env.boards) \/ ~source.ok \/ (env.poll /\ ~env.store) THEN Failed
  ELSE BuildOLTRegistry(source.list, env.default, legacy)

-----------------------------------------------------------------------------
(***************************************************************************)
(* The stacks.                                                             *)
(***************************************************************************)
\* Connections have numbers; opened counts them.
NoStacks == [entries |-> <<>>, opened |-> 0, closed |-> {}]

\* Mutant: a change of the boards does not rebuild the stack.
OltChangeKey_NoBoards(o) == <<o.host, o.port, o.community, o.walk>>

OltChangeKey(o) == <<o.host, o.port, o.community, o.walk, o.specs>>

RemoveOLTs(reg, ids) ==
  [reg EXCEPT !.entries = [j \in DOMAIN @ \ ids |-> @[j]],
              !.closed = @ \cup {reg.entries[id].pool : id \in ids}]

\* failing: the identifiers of OLTs whose connection cannot be set up.  The stack keeps
\* the OLT it was built for.
AddOLT(reg, o, failing, default) ==
  IF o.id \in failing THEN reg
  ELSE [reg EXCEPT !.opened = @ + 1,
                   !.entries = [j \in DOMAIN @ \cup {o.id} |->
                      IF j # o.id THEN @[j]
                      ELSE [olt |-> o, pool |-> reg.opened + 1, stack |-> o, boardPons |-> o.specs,
                            user |-> o.user, prefix |-> IF o.id = default THEN "" ELSE o.id]]]

Converge(reg, o, failing, default) ==
  IF o.id \notin DOMAIN reg.entries THEN AddOLT(reg, o, failing, default)
  ELSE IF OltChangeKey(reg.entries[o.id].olt) # OltChangeKey(o)
    THEN AddOLT(RemoveOLTs(reg, {o.id}), o, failing, default)
    ELSE [reg EXCEPT !.entries[o.id] = [@ EXCEPT !.olt = o, !.user = o.user]]

Reconcile(reg, olts, failing, default) ==
  LET gone == DOMAIN reg.entries \ {olts[i].id : i \in DOMAIN olts}
      done[n \in 0..Len(olts)] ==
        IF n = 0 THEN RemoveOLTs(reg, gone) ELSE Converge(done[n - 1], olts[n], failing, default) IN
  done[Len(olts)]

CloseRegistry(reg) ==
  [reg EXCEPT !.entries = <<>>, !.closed = @ \cup {reg.entries[id].pool : id \in DOMAIN reg.entries}]

\* The PONs the router admits, those the poller walks and those the use case has
\* indexes for.
Admitted(entry) == LET pons == OrDefault(entry.boardPons) IN
  {k \in (DOMAIN pons) \X Pons : k[2] <= pons[k[1]]}
Polled(entry) == {k \in (DOMAIN entry.olt.specs) \X Pons :
                    k[1] \in DOMAIN entry.boardPons /\ k[2] <= entry.boardPons[k[1]]}
Indexed(entry) == DOMAIN entry.stack.map

-----------------------------------------------------------------------------
(***************************************************************************)
(* Who is served by which OLT.                                             *)
(***************************************************************************)
\* The default one, or any if its connection could not be set up.
GetDefault(reg, default) ==
  IF default \in DOMAIN reg.entries THEN {default} ELSE DOMAIN reg.entries

Roles == {"", "user", "admin"}

\* Mutant: a user without an identifier is accepted.
ValidUser_Zero(u) == u.key # "" /\ u.role \in Roles

ValidUser(u) == u.key # "" /\ u.role \in Roles /\ (u.role # "admin" => u.user >= 1)

\* The users by their keys; "users" is <<>> when API_USERS is unset.
BuildUserRegistry(users) ==
  IF (\A i \in DOMAIN users : ValidUser(users[i]))
     /\ (\A i, j \in DOMAIN users : users[i].key = users[j].key => i = j)
  THEN [ok |-> TRUE,
        users |-> [k \in {users[i].key : i \in DOMAIN users} |->
                     LET u == users[CHOOSE i \in DOMAIN users : users[i].key = k] IN
                     [user |-> u.user, admin |-> u.role = "admin"]]]
  ELSE Failed

\* Without users the single key applies, and without one everybody is let in; neither
\* has a principal.
Authenticator(users, legacyKey, key) ==
  IF DOMAIN users # {}
  THEN IF key \in DOMAIN users THEN [ok |-> TRUE, scoped |-> TRUE, who |-> users[key]] ELSE Failed
  ELSE IF legacyKey # "" /\ key # legacyKey THEN Failed ELSE [ok |-> TRUE, scoped |-> FALSE]

Owns(principal, entry) ==
  principal.scoped => principal.who.admin \/ principal.who.user = entry.user

\* resolveOLT and resolveDefaultOLT (id = ""): the OLTs a request may be served by; none
\* is "not found".
ResolveOLT(reg, default, id, principal) ==
  {j \in (IF id = "" THEN GetDefault(reg, default) ELSE {id} \cap DOMAIN reg.entries) :
     Owns(principal, reg.entries[j])}
=============================================================================
