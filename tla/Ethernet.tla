------------------------------ MODULE Ethernet ------------------------------
(***************************************************************************)
(* From the three SNMP columns of the Ethernet ports (UNI) of ONUs to the  *)
(* ports of a stored sample: internal/usecase/ethernet.go (the walk of one *)
(* ONU and the walk of a whole PON), internal/model/onu_ports.go,          *)
(* applyEthernet of internal/poller/poller.go and applyExpectedPorts of    *)
(* internal/store/events.go (module EventLog).                             *)
(*                                                                         *)
(* "columns" is what the walks of the admin, oper and speed columns of a   *)
(* PON delivered, each [rows, failed]: rows is a function from the index   *)
(* below the PON, a sequence of numbers, to an integer, NoInstance (the    *)
(* agent has no such row) or Other (a value of another type).  A walk that *)
(* fails has delivered part of its rows; a cancelled context leaves the    *)
(* columns after it empty and failed.                                      *)
(***************************************************************************)
EXTENDS EventLog, Integers

NoInstance == -1
Other == -2

Columns == 1..3

Integral(v) == v \notin {NoInstance, Other}

-----------------------------------------------------------------------------
(***************************************************************************)
(* The walk of one ONU.                                                    *)
(***************************************************************************)
\* What is left of an index below root; nothing of one that is not below it.
Suffix(name, root) ==
  IF Len(name) > Len(root) /\ SubSeq(name, 1, Len(root)) = root
  THEN SubSeq(name, Len(root) + 1, Len(name)) ELSE <<>>

NoValue == -3

\* The raw values of the ports an ONU has, given the indexes of its rows and the port
\* an index stands for.
RawPorts(columns, names, port) ==
  LET valued == {n \in names : \E c \in Columns : n \in DOMAIN columns[c].rows
                                                  /\ Integral(columns[c].rows[n])}
      value(n, c) == IF n \in DOMAIN columns[c].rows /\ Integral(columns[c].rows[n])
                     THEN columns[c].rows[n] ELSE NoValue IN
  [p \in {port[n] : n \in valued} |->
     LET n == CHOOSE m \in valued : port[m] = p IN [c \in Columns |-> value(n, c)]]

Names(columns) == UNION {DOMAIN columns[c].rows : c \in Columns}

WalkFailed(columns) == \E c \in Columns : columns[c].failed

HasOther(columns, names) ==
  \E c \in Columns : \E n \in names \cap DOMAIN columns[c].rows : columns[c].rows[n] = Other

Duplex(raw) == CASE raw \in {2, 4} -> "half" [] raw \in {3, 5, 6, 7} -> "full"

\* ethernetSpeed: values that establish no negotiated rate have none.
EthernetSpeed(raw) ==
  CASE raw \in {2, 3} -> 10 [] raw \in {4, 5} -> 100 [] raw = 6 -> 1000 [] raw = 7 -> 10000
    [] OTHER -> 0

DecodePort(raw) ==
  LET link == CASE raw[2] = 1 -> "up" [] raw[2] = 2 -> "down" [] OTHER -> "unknown"
      speed == IF link = "up" /\ raw[3] # NoValue THEN EthernetSpeed(raw[3]) ELSE 0 IN
  [admin  |-> CASE raw[1] = 1 -> "enabled" [] raw[1] = 2 -> "disabled" [] OTHER -> "unknown",
   link   |-> link,
   speed  |-> speed,
   duplex |-> IF speed > 0 THEN Duplex(raw[3]) ELSE "unknown"]

Incomplete(p) == p.admin = "unknown" \/ p.link = "unknown" \/ (p.link = "up" /\ p.speed = 0)

EmptyEthernet(state) ==
  [status |-> CASE state = "Online" -> "unavailable" [] state = "Unknown" -> "onu_state_unknown"
                [] OTHER -> "onu_not_online",
   ports |-> NoPorts]

\* Without a single port there is no answer, failed or not.
FinishEthernet(raws, failed) ==
  LET ports == [p \in DOMAIN raws |-> DecodePort(raws[p])] IN
  IF ports = NoPorts THEN EmptyEthernet("Online")
  ELSE [status |-> IF failed \/ \E p \in DOMAIN ports : Incomplete(ports[p]) THEN "partial" ELSE "ok",
        ports |-> ports]

UnknownPort == [admin |-> "unknown", link |-> "unknown", speed |-> 0, duplex |-> "unknown"]

\* Mutant: the ports above the expected number are cut off.
PadEthernetPorts_Cuts(expected, eth) ==
  [eth EXCEPT !.ports = [i \in (IF expected = 0 THEN DOMAIN @ ELSE 1..expected) |->
                           IF i \in DOMAIN @ THEN @[i] ELSE UnknownPort]]

\* Missing ports of a known model are filled in; ports above their number are kept.
PadEthernetPorts(expected, eth) ==
  [eth EXCEPT !.ports = [i \in (1..expected) \cup DOMAIN @ |->
                           IF i \in DOMAIN @ THEN @[i] ELSE UnknownPort]]

GetEthernetPorts(columns, onu, state, expected) ==
  LET root == <<onu>>
      below == {n \in Names(columns) : Suffix(n, root) # <<>>}
      valid == {n \in below : Len(Suffix(n, root)) = 1 /\ Suffix(n, root)[1] >= 1}
      failed == WalkFailed(columns) \/ below # valid \/ HasOther(columns, valid) IN
  IF state # "Online" THEN EmptyEthernet(state)
  ELSE PadEthernetPorts(expected,
         FinishEthernet(RawPorts(columns, valid, [n \in valid |-> Suffix(n, root)[1]]), failed))

-----------------------------------------------------------------------------
(***************************************************************************)
(* The walk of a PON, shared by all of its ONUs.                           *)
(***************************************************************************)
\* Mutant: a value of a wrong type spoils the reading of every ONU.
EthernetFromPONWalk_Shared(columns, onu) ==
  LET valid == {n \in Names(columns) : Len(n) = 2 /\ n[1] >= 1 /\ n[2] >= 1}
      own == {n \in valid : n[1] = onu} IN
  FinishEthernet(RawPorts(columns, own, [n \in own |-> n[2]]),
                 WalkFailed(columns) \/ HasOther(columns, valid))

EthernetFromPONWalk(columns, onu) ==
  LET valid == {n \in Names(columns) : Len(n) = 2 /\ n[1] >= 1 /\ n[2] >= 1}
      own == {n \in valid : n[1] = onu} IN
  FinishEthernet(RawPorts(columns, own, [n \in own |-> n[2]]),
                 WalkFailed(columns) \/ HasOther(columns, own))

\* onus: a function from ONU-IDs to [state, expected].  Nobody online: nothing is walked
\* and nothing padded.
AttachPONEthernet(columns, onus) ==
  [i \in DOMAIN onus |->
     IF \A j \in DOMAIN onus : onus[j].state # "Online" THEN EmptyEthernet(onus[i].state)
     ELSE PadEthernetPorts(onus[i].expected,
            IF onus[i].state = "Online" THEN EthernetFromPONWalk(columns, i)
            ELSE EmptyEthernet(onus[i].state))]

-----------------------------------------------------------------------------
(***************************************************************************)
(* The sample.                                                             *)
(***************************************************************************)
ApplyEthernet(eth) ==
  IF eth.status \notin {"ok", "partial"} THEN NoPorts
  ELSE [p \in DOMAIN eth.ports |-> [admin |-> eth.ports[p].admin, link |-> eth.ports[p].link]]

\* eth_link_state and eth_speed_mbps of a sample; the speed is that of the first port
\* that is up and has one.
SampleLink(eth) ==
  LET links == {eth.ports[p].link : p \in DOMAIN eth.ports} IN
  IF eth.status \notin {"ok", "partial"} THEN ""
  ELSE IF "up" \in links THEN "up" ELSE IF "down" \in links THEN "down" ELSE ""

SampleSpeed(eth) ==
  LET rated == {p \in DOMAIN eth.ports : eth.ports[p].link = "up" /\ eth.ports[p].speed > 0} IN
  IF eth.status \notin {"ok", "partial"} \/ rated = {} THEN 0
  ELSE eth.ports[CHOOSE p \in rated : \A q \in rated : p <= q].speed

\* Ports of the stored sample: the store pads them too.
StoredPorts(eth, expected) ==
  LET read == ApplyEthernet(eth)
      padded == ApplyExpectedPorts([ports |-> read, expected |-> expected]).ports IN
  [p \in DOMAIN padded |->
     IF p \in DOMAIN read THEN read[p] ELSE [admin |-> "unknown", link |-> "unknown"]]
=============================================================================
