--------------------------- MODULE EventLog_proofs ---------------------------
(***************************************************************************)
(* What the derivation of events in EventLog gives for every sample and    *)
(* every table of ports, and what an induction over a recursive function   *)
(* needs: a set that holds 0 and is closed under the successor holds every *)
(* natural number, and a function defined by recursion exists.             *)
(***************************************************************************)
EXTENDS EventLog, TLAPS, WellFoundedInduction, FiniteSetTheorems

\* Induction over the natural numbers, stated of a set and not of a predicate.
LEMMA Induction ==
  ASSUME NEW S, 0 \in S, \A n \in Nat : n \in S => n + 1 \in S
  PROVE  \A n \in Nat : n \in S
<1> SUFFICES ASSUME Nat \ S # {} PROVE FALSE
  OBVIOUS
<1> DEFINE T == Nat \ S
           R == OpToRel(<, Nat)
<1>1. PICK m \in T : \A y \in T : ~(<<y, m>> \in R)
  <2> HIDE DEF R
  <2>1. IsWellFoundedOn(R, Nat)
    BY NatLessThanWellFounded, Zenon DEF R
  <2> QED
    BY <2>1, WFMin
<1>2. \A y \in T : ~(y < m)
  BY <1>1 DEF OpToRel
<1>3. m # 0 /\ m - 1 \in Nat /\ m - 1 < m
  OBVIOUS
<1>4. m - 1 \in S
  BY <1>2, <1>3
<1> QED
  BY <1>3, <1>4

\* f is computed from base by n steps within V.
Recursion(f, n, V, base, step) ==
  f \in [0..n -> V] /\ f[0] = base /\ \A i \in 1..n : f[i] = step[i][f[i - 1]]

\* A function on 0..n whose value at i is computed from the one at i - 1 exists.
LEMMA RecursionExists ==
  ASSUME NEW n \in Nat, NEW V, NEW base \in V, NEW step \in [1..n -> [V -> V]]
  PROVE  \E f : Recursion(f, n, V, base, step)
<1> DEFINE Upto(m, f) == \A i \in 0..m : f[i] = IF i = 0 THEN base ELSE step[i][f[i - 1]]
           S == {m \in Nat : m <= n => \E f \in [0..m -> V] : Upto(m, f)}
<1>1. 0 \in S
  <2>1. [i \in 0..0 |-> base] \in [0..0 -> V] /\ Upto(0, [i \in 0..0 |-> base])
    OBVIOUS
  <2> QED
    BY <2>1
<1>2. ASSUME NEW m \in Nat, m \in S, m + 1 <= n
      PROVE  \E f \in [0..(m + 1) -> V] : Upto(m + 1, f)
  <2>1. PICK f \in [0..m -> V] : Upto(m, f)
    BY <1>2
  <2> DEFINE g == [i \in 0..(m + 1) |-> IF i = m + 1 THEN step[m + 1][f[m]] ELSE f[i]]
  <2>2. f[m] \in V /\ step[m + 1] \in [V -> V]
    BY <1>2
  <2>3. step[m + 1][f[m]] \in V
    BY <2>2
  <2>4. g \in [0..(m + 1) -> V]
    BY <2>3
  <2>5. \A i \in 0..m : g[i] = f[i]
    OBVIOUS
  <2>6. g[m + 1] = step[m + 1][g[m]] /\ m + 1 # 0
    OBVIOUS
  <2>7. \A i \in 1..m : i - 1 \in 0..m
    OBVIOUS
  <2> HIDE DEF g
  <2>8. ASSUME NEW i \in 0..(m + 1)
        PROVE  g[i] = IF i = 0 THEN base ELSE step[i][g[i - 1]]
    <3>1. CASE i = m + 1
      BY <3>1, <2>6
    <3>2. CASE i \in 1..m
      BY <3>2, <2>1, <2>5, <2>7
    <3>3. CASE i = 0
      BY <3>3, <2>1, <2>5
    <3> QED
      BY <3>1, <3>2, <3>3
  <2> QED
    BY <2>4, <2>8
<1>3. \A m \in Nat : m \in S
  <2>1. \A m \in Nat : m \in S => m + 1 \in S
    BY <1>2
  <2> HIDE DEF S
  <2> QED
    BY <1>1, <2>1, Induction
<1>4. PICK f \in [0..n -> V] : Upto(n, f)
  BY <1>3
<1>5. f[0] = base /\ \A i \in 1..n : f[i] = step[i][f[i - 1]]
  BY <1>4
<1> QED
  BY <1>5 DEF Recursion

-----------------------------------------------------------------------------
\* Tables of ports, samples and events over the states L of a port and St of an ONU.
Tables(L) == UNION {[P -> L] : P \in {Q \in SUBSET (Nat \ {0}) : IsFiniteSet(Q)}}

Rows(S, St, L) == [time : Nat \ {0}, serial : S, status : St, expected : Nat, ports : Tables(L)]

Sources == {"backfill", "poller"}

StatusEvents(St) == [time : Nat \ {0}, status : St, previous : St \cup {None}, source : Sources]

EthEvents(L) == [time : Nat \ {0}, port : Nat \ {0}, link : L, previous : L \cup {None},
                 source : Sources]

LEMMA TableFacts ==
  ASSUME NEW L, NEW t \in Tables(L)
  PROVE  /\ DOMAIN t \in SUBSET (Nat \ {0}) /\ IsFiniteSet(DOMAIN t)
         /\ t \in [DOMAIN t -> L]
  BY DEF Tables

LEMMA IsTable ==
  ASSUME NEW L, NEW P \in SUBSET (Nat \ {0}), IsFiniteSet(P), NEW t \in [P -> L]
  PROVE  t \in Tables(L)
  BY DEF Tables

\* A padded sample differs in its ports alone.
LEMMA ApplyExpectedPortsType ==
  ASSUME NEW S, NEW St, NEW L, "unknown" \in L, NEW x \in Rows(S, St, L)
  PROVE  /\ ApplyExpectedPorts(x) \in Rows(S, St, L)
         /\ ApplyExpectedPorts(x).time = x.time
         /\ ApplyExpectedPorts(x).serial = x.serial
         /\ ApplyExpectedPorts(x).status = x.status
         /\ ApplyExpectedPorts(x).expected = x.expected
<1> DEFINE padded == [i \in 1..x.expected |-> IF i \in DOMAIN x.ports THEN x.ports[i]
                                              ELSE "unknown"]
<1>1. x.expected \in Nat /\ x.ports \in Tables(L)
  BY DEF Rows
<1>2. padded \in Tables(L)
  <2>1. 1..x.expected \in SUBSET (Nat \ {0}) /\ IsFiniteSet(1..x.expected)
    <3>1. 1 \in Int /\ x.expected \in Int
      BY <1>1
    <3>2. IsFiniteSet(1..x.expected)
      BY <3>1, FS_Interval
    <3> QED
      BY <1>1, <3>2
  <2>2. padded \in [1..x.expected -> L]
    BY <1>1, TableFacts
  <2> HIDE DEF padded
  <2> QED
    BY <2>1, <2>2, IsTable
<1>3. ApplyExpectedPorts(x) \in {x, [x EXCEPT !.ports = padded]}
  BY DEF ApplyExpectedPorts
<1> HIDE DEF padded
<1> QED
  BY <1>2, <1>3 DEF Rows

LEMMA UpdatePortsType ==
  ASSUME NEW S, NEW St, NEW L, NEW t \in Tables(L), NEW x \in Rows(S, St, L)
  PROVE  UpdatePorts(t, x) \in Tables(L)
<1>1. x.ports \in Tables(L)
  BY DEF Rows
<1>2. /\ DOMAIN t \cup DOMAIN x.ports \in SUBSET (Nat \ {0})
      /\ IsFiniteSet(DOMAIN t \cup DOMAIN x.ports)
  BY <1>1, TableFacts, FS_Union
<1>3. UpdatePorts(t, x) \in [DOMAIN t \cup DOMAIN x.ports -> L]
  BY <1>1, TableFacts DEF UpdatePorts
<1> QED
  BY <1>2, <1>3, IsTable

LEMMA NoPortsType ==
  ASSUME NEW L
  PROVE  NoPorts \in Tables(L) /\ DOMAIN NoPorts = {}
<1>1. DOMAIN NoPorts = {} /\ NoPorts \in [{} -> L]
  BY DEF NoPorts
<1> QED
  BY <1>1, FS_EmptySet, IsTable

-----------------------------------------------------------------------------
\* A finite set of numbers has a greatest.
LEMMA Greatest ==
  ASSUME NEW P \in SUBSET Nat, IsFiniteSet(P), P # {}
  PROVE  \E p \in P : \A q \in P : q <= p
<1> DEFINE S == {n \in Nat : \A T \in SUBSET Nat :
                   IsFiniteSet(T) /\ Cardinality(T) = n /\ T # {} =>
                     \E p \in T : \A q \in T : q <= p}
<1>1. 0 \in S
  BY FS_EmptySet
<1>2. ASSUME NEW n \in Nat, n \in S, NEW T \in SUBSET Nat,
             IsFiniteSet(T), Cardinality(T) = n + 1, T # {}
      PROVE  \E p \in T : \A q \in T : q <= p
  <2>1. PICK x \in T : TRUE
    BY <1>2
  <2>2. IsFiniteSet(T \ {x}) /\ Cardinality(T \ {x}) = n
    <3>1. IsFiniteSet(T \ {x}) /\ Cardinality(T \ {x}) = Cardinality(T) - 1
      BY <1>2, <2>1, FS_RemoveElement
    <3> QED
      BY <1>2, <3>1
  <2>3. CASE T \ {x} = {}
    BY <2>1, <2>3
  <2>4. CASE T \ {x} # {}
    <3>1. PICK p \in T \ {x} : \A q \in T \ {x} : q <= p
      <4>1. T \ {x} \in SUBSET Nat
        BY <1>2
      <4> QED
        BY <1>2, <2>2, <2>4, <4>1
    <3>2. x \in Nat /\ p \in Nat /\ p \in T
      BY <2>1, <3>1
    <3>3. CASE x <= p
      <4>1. \A q \in T : q <= p
        BY <3>1, <3>3
      <4> QED
        BY <3>2, <4>1
    <3>4. CASE ~(x <= p)
      <4>1. \A q \in T : q <= x
        BY <3>1, <3>2, <3>4
      <4> QED
        BY <2>1, <4>1
    <3> QED
      BY <3>3, <3>4
  <2> QED
    BY <2>3, <2>4
<1>3. \A n \in Nat : n \in S
  <2>1. ASSUME NEW n \in Nat, n \in S
        PROVE  n + 1 \in S
    <3>1. \A T \in SUBSET Nat :
            IsFiniteSet(T) /\ Cardinality(T) = n + 1 /\ T # {} =>
              \E p \in T : \A q \in T : q <= p
      BY <1>2, <2>1, Zenon
    <3> QED
      BY <3>1
  <2> HIDE DEF S
  <2> QED
    BY <1>1, <2>1, Induction
<1>4. Cardinality(P) \in S
  BY <1>3, FS_CardinalityType
<1> QED
  BY <1>4

\* A log of port events that holds, of the ports in C, those up to number n: each of
\* them once, in the order of their numbers, as EthEventFrom describes it.
PortsUpto(log, C, n, table, x, source) ==
  /\ \A k \in DOMAIN log : /\ log[k].port \in C /\ log[k].port <= n
                           /\ log[k] = EthEventFrom(table, x, log[k].port, source)
  /\ \A j, k \in DOMAIN log : j < k => log[j].port < log[k].port
  /\ \A p \in C : p <= n => \E k \in DOMAIN log : log[k].port = p

\* The events of a sample are those of the ports it changes, once each, in the order of
\* the ports (ethEventsFromSample).
LEMMA EthEventsOfPorts ==
  ASSUME NEW L, None \notin L, NEW t \in Tables(L),
         NEW x, x.ports \in Tables(L), x.time \in Nat \ {0}, NEW source \in Sources
  PROVE  LET log == EthEventsFrom(t, x, source)  C == PortsChanged(t, x) IN
         /\ log \in Seq(EthEvents(L))
         /\ \A k \in DOMAIN log : /\ log[k].port \in C
                                  /\ log[k] = EthEventFrom(t, x, log[k].port, source)
         /\ \A j, k \in DOMAIN log : j # k => log[j].port # log[k].port
         /\ \A p \in C : \E k \in DOMAIN log : log[k].port = p
<1> DEFINE C == PortsChanged(t, x)
           highest == IF C = {} THEN 0 ELSE CHOOSE p \in C : \A q \in C : q <= p
           Event(p) == EthEventFrom(t, x, p, source)
           V == Seq(EthEvents(L))
           step == [p \in 1..highest |-> [v \in V |-> IF p \in C THEN Append(v, Event(p)) ELSE v]]
           IsFrom(f) == f = [p \in 0..highest |-> IF p = 0 THEN <<>>
                                ELSE IF p \in C THEN Append(f[p - 1], Event(p)) ELSE f[p - 1]]
           from == CHOOSE f : IsFrom(f)
<1>1. x.ports \in Tables(L) /\ x.time \in Nat \ {0}
  OBVIOUS
<1>2. C \in SUBSET (Nat \ {0}) /\ IsFiniteSet(C) /\ C \in SUBSET DOMAIN x.ports
  <2>1. C \in SUBSET DOMAIN x.ports
    BY DEF PortsChanged
  <2>2. DOMAIN x.ports \in SUBSET (Nat \ {0}) /\ IsFiniteSet(DOMAIN x.ports)
    BY <1>1, TableFacts
  <2> HIDE DEF C
  <2> QED
    BY <2>1, <2>2, FS_Subset
<1>13. \A p \in C : p \in Nat /\ p # 0
  BY <1>2
<1>3. \A p \in C : /\ Event(p) \in EthEvents(L) /\ Event(p).port = p
                   /\ Event(p) = EthEventFrom(t, x, p, source)
  <2> SUFFICES ASSUME NEW p \in C
               PROVE  Event(p) \in EthEvents(L) /\ Event(p).port = p
    OBVIOUS
  <2>1. x.ports[p] \in L
    BY <1>1, <1>2, TableFacts
  <2>2. PortState(t, p) \in L \cup {None}
    BY TableFacts DEF PortState
  <2>3. p \in Nat \ {0}
    BY <1>2
  <2> QED
    BY <1>1, <2>1, <2>2, <2>3 DEF EthEventFrom, EthEvents
<1>4. highest \in Nat /\ \A q \in C : q <= highest
  <2>1. CASE C = {}
    BY <2>1
  <2>2. CASE C # {}
    <3>1. \E p \in C : \A q \in C : q <= p
      BY <1>2, <2>2, Greatest
    <3> HIDE DEF C
    <3>2. highest \in C /\ \A q \in C : q <= highest
      BY <2>2, <3>1
    <3> QED
      BY <1>2, <3>2
  <2> QED
    BY <2>1, <2>2
<1>5. EthEventsFrom(t, x, source) = from[highest]
  BY DEF EthEventsFrom
<1> HIDE DEF C, highest, Event
<1>6. IsFrom(from)
  <2>1. <<>> \in V /\ step \in [1..highest -> [V -> V]]
    <3>1. \A p \in C, v \in V : Append(v, Event(p)) \in V
      BY <1>3
    <3> QED
      BY <3>1
  <2>2. PICK f : Recursion(f, highest, V, <<>>, step)
    <3> HIDE DEF V, step
    <3> QED
      BY <1>4, <2>1, RecursionExists
  <2>3. \A i \in 0..highest : i # 0 => i \in 1..highest /\ i - 1 \in 0..highest
    BY <1>4
  <2>4. \A i \in 0..highest : i # 0 =>
          step[i][f[i - 1]] = IF i \in C THEN Append(f[i - 1], Event(i)) ELSE f[i - 1]
    BY <2>2, <2>3 DEF Recursion
  <2>5. IsFrom(f)
    <3>1. /\ f = [i \in 0..highest |-> f[i]] /\ f[0] = <<>>
          /\ \A i \in 1..highest : f[i] = step[i][f[i - 1]]
      BY <2>2 DEF Recursion
    <3> HIDE DEF step, V
    <3>2. \A i \in 0..highest : f[i] = IF i = 0 THEN <<>>
             ELSE IF i \in C THEN Append(f[i - 1], Event(i)) ELSE f[i - 1]
      BY <2>3, <2>4, <3>1
    <3> QED
      BY <3>1, <3>2, Zenon
  <2> HIDE DEF IsFrom
  <2> QED
    BY <2>5
<1> HIDE DEF from
<1> DEFINE I == {n \in Nat : n <= highest =>
                   from[n] \in V /\ PortsUpto(from[n], C, n, t, x, source)}
<1>7. 0 \in I
  <2>1. from[0] = <<>>
    BY <1>4, <1>6
  <2>2. \A p \in C : ~(p <= 0)
    BY <1>2
  <2>3. <<>> \in V /\ DOMAIN <<>> = {}
    OBVIOUS
  <2>4. PortsUpto(<<>>, C, 0, t, x, source)
    BY <2>2, <2>3 DEF PortsUpto
  <2> HIDE DEF V
  <2> QED
    BY <2>1, <2>3, <2>4
<1>8. ASSUME NEW n \in Nat, n \in I, n + 1 <= highest
      PROVE  from[n + 1] \in V /\ PortsUpto(from[n + 1], C, n + 1, t, x, source)
  <2>1. from[n + 1] = IF n + 1 \in C THEN Append(from[n], Event(n + 1)) ELSE from[n]
    <3>1. n + 1 \in 0..highest /\ n + 1 # 0 /\ (n + 1) - 1 = n
      BY <1>4, <1>8
    <3> QED
      BY <1>6, <3>1
  <2>2. from[n] \in V /\ PortsUpto(from[n], C, n, t, x, source)
    BY <1>4, <1>8
  <2>3. CASE n + 1 \notin C
    <3>1. from[n + 1] = from[n]
      BY <2>1, <2>3
    <3>2. \A p \in C : p <= n + 1 => p <= n
      BY <1>2, <2>3
    <3>3. \A k \in DOMAIN from[n] : from[n][k].port <= n + 1
      BY <1>2, <2>2 DEF PortsUpto
    <3> QED
      BY <2>2, <3>1, <3>2, <3>3 DEF PortsUpto
  <2>4. CASE n + 1 \in C
    <3> DEFINE log == from[n]
               e == Event(n + 1)
    <3>1. from[n + 1] = Append(log, e)
      BY <2>1, <2>4
    <3>2. /\ e \in EthEvents(L) /\ e.port = n + 1
          /\ e = EthEventFrom(t, x, n + 1, source)
      BY <1>3, <2>4
    <3>3. log \in Seq(EthEvents(L))
      BY <2>2
    <3> HIDE DEF log, e
    <3>4. /\ Append(log, e) \in Seq(EthEvents(L))
          /\ DOMAIN Append(log, e) = DOMAIN log \cup {Len(log) + 1}
          /\ \A k \in DOMAIN log : Append(log, e)[k] = log[k] /\ k <= Len(log) /\ k \in Nat
          /\ Append(log, e)[Len(log) + 1] = e
          /\ Len(log) \in Nat
      BY <3>2, <3>3
    <3>5. PortsUpto(log, C, n, t, x, source)
      BY <2>2 DEF log
    <3> DEFINE new == Append(log, e)
    <3> HIDE DEF new
    <3>10. /\ DOMAIN new = DOMAIN log \cup {Len(log) + 1}
           /\ \A k \in DOMAIN log : /\ new[k] = log[k] /\ k < Len(log) + 1 /\ k \in Nat
                                    /\ log[k].port \in Nat /\ log[k].port <= n
                                    /\ log[k].port \in C
           /\ new[Len(log) + 1] = e
      <4>1. \A k \in DOMAIN log : log[k].port \in C /\ log[k].port <= n
        BY <3>5 DEF PortsUpto
      <4>2. \A k \in DOMAIN log : log[k].port \in Nat
        BY <1>13, <4>1
      <4>3. \A k \in DOMAIN log : k < Len(log) + 1
        BY <3>4
      <4> QED
        BY <3>4, <4>1, <4>2, <4>3 DEF new
    <3>6. ASSUME NEW k \in DOMAIN new
          PROVE  /\ new[k].port \in C /\ new[k].port <= n + 1
                 /\ new[k] = EthEventFrom(t, x, new[k].port, source)
      <4>1. CASE k \in DOMAIN log
        BY <3>5, <3>10, <4>1 DEF PortsUpto
      <4>2. CASE k = Len(log) + 1
        BY <2>4, <3>2, <3>10, <4>2
      <4> QED
        BY <3>10, <4>1, <4>2
    <3>7. ASSUME NEW j \in DOMAIN new, NEW k \in DOMAIN new, j < k
          PROVE  new[j].port < new[k].port
      <4>1. CASE j \in DOMAIN log /\ k \in DOMAIN log
        BY <3>5, <3>7, <3>10, <4>1 DEF PortsUpto
      <4>2. CASE j \in DOMAIN log /\ k = Len(log) + 1
        BY <3>2, <3>10, <4>2
      <4>3. CASE j = Len(log) + 1
        <5>1. ~(Len(log) + 1 < k)
          BY <3>4, <3>10
        <5> QED
          BY <3>7, <4>3, <5>1
      <4> QED
        BY <3>10, <4>1, <4>2, <4>3
    <3>8. \A p \in C : p <= n + 1 => \E k \in DOMAIN new : new[k].port = p
      <4>1. \A p \in C : p <= n + 1 => p <= n \/ p = n + 1
        BY <1>2
      <4> QED
        BY <3>2, <3>4, <3>5, <4>1 DEF PortsUpto, new
    <3>9. new = from[n + 1] /\ new \in V
      BY <3>1, <3>4 DEF new
    <3> QED
      BY <3>6, <3>7, <3>8, <3>9 DEF PortsUpto
  <2> QED
    BY <2>3, <2>4
<1>9. \A n \in Nat : n \in I
  <2>1. \A n \in Nat : n \in I => n + 1 \in I
    BY <1>8
  <2> HIDE DEF I
  <2> QED
    BY <1>7, <2>1, Induction
<1>10. from[highest] \in V /\ PortsUpto(from[highest], C, highest, t, x, source)
  BY <1>4, <1>9
<1> DEFINE log == from[highest]
<1>11. \A j, k \in DOMAIN log : j # k => log[j].port # log[k].port
  <2>1. \A k \in DOMAIN log : k \in Nat /\ log[k].port \in Nat
    <3>1. \A k \in DOMAIN log : log[k].port \in C
      BY <1>10 DEF PortsUpto
    <3>2. DOMAIN log = 1..Len(log) /\ Len(log) \in Nat
      BY <1>10
    <3> QED
      BY <1>13, <3>1, <3>2
  <2>2. \A j, k \in DOMAIN log : j # k => j < k \/ k < j
    BY <2>1
  <2> QED
    BY <1>10, <2>1, <2>2 DEF PortsUpto
<1>12. \A p \in C : \E k \in DOMAIN log : log[k].port = p
  BY <1>4, <1>10 DEF PortsUpto
<1> QED
  BY <1>5, <1>10, <1>11, <1>12 DEF PortsUpto, C

LEMMA EthEventsFromSample ==
  ASSUME NEW S, NEW St, NEW L, None \notin L,
         NEW t \in Tables(L), NEW x \in Rows(S, St, L), NEW source \in Sources
  PROVE  LET log == EthEventsFrom(t, x, source)  C == PortsChanged(t, x) IN
         /\ log \in Seq(EthEvents(L))
         /\ \A k \in DOMAIN log : /\ log[k].port \in C
                                  /\ log[k] = EthEventFrom(t, x, log[k].port, source)
         /\ \A j, k \in DOMAIN log : j # k => log[j].port # log[k].port
         /\ \A p \in C : \E k \in DOMAIN log : log[k].port = p
<1>1. x.ports \in Tables(L) /\ x.time \in Nat \ {0}
  BY DEF Rows
<1> QED
  BY <1>1, EthEventsOfPorts

-----------------------------------------------------------------------------
\* Every row of a table of ports is what the newest event of the port ended in.
TableEndsLog(log, table) ==
  \A p \in DOMAIN table : \E k \in DOMAIN log :
    /\ log[k].port = p /\ log[k].link = table[p]
    /\ \A j \in DOMAIN log : log[j].port = p => j <= k

\* Every port of a log has a row.
PortsListed(log, table) == \A k \in DOMAIN log : log[k].port \in DOMAIN table

\* The k-th event changes the state of its port, and goes on from the newest event of
\* the port before it, or from nothing; the backfill only when there was none.
GoesOn(log, k) ==
  /\ log[k].link # log[k].previous
  /\ log[k].previous # None =>
       \E j \in 1..(k - 1) : /\ log[j].port = log[k].port /\ log[j].link = log[k].previous
                             /\ \A i \in 1..(k - 1) : log[i].port = log[k].port => i <= j
  /\ log[k].source = "backfill" =>
       \A j \in 1..(k - 1) : log[j].port = log[k].port => log[k].previous # None

PortsChained(log) == \A k \in DOMAIN log : GoesOn(log, k)

\* A log that a table of ports ends goes on with the events of the next sample, and the
\* updated table ends it again (ethEventsFromSample, updatePortState).
LEMMA PortLogGoesOn ==
  ASSUME NEW S, NEW St, NEW L, None \notin L,
         NEW t \in Tables(L), NEW x \in Rows(S, St, L), NEW source \in Sources,
         NEW log \in Seq(EthEvents(L)),
         TableEndsLog(log, t), PortsChained(log),
         source = "backfill" => PortsListed(log, t)
  PROVE  LET new == log \o EthEventsFrom(t, x, source)  table == UpdatePorts(t, x) IN
         /\ new \in Seq(EthEvents(L))
         /\ TableEndsLog(new, table) /\ PortsChained(new)
         /\ PortsListed(log, t) => PortsListed(new, table)
<1> DEFINE e == EthEventsFrom(t, x, source)
           C == PortsChanged(t, x)
           n == Len(log)
           new == log \o e
           table == UpdatePorts(t, x)
<1>1. /\ e \in Seq(EthEvents(L))
      /\ \A k \in DOMAIN e : e[k].port \in C /\ e[k] = EthEventFrom(t, x, e[k].port, source)
      /\ \A j, k \in DOMAIN e : j # k => e[j].port # e[k].port
      /\ \A p \in C : \E k \in DOMAIN e : e[k].port = p
  BY EthEventsFromSample
<1> HIDE DEF e
<1>2. /\ new \in Seq(EthEvents(L)) /\ n \in Nat
      /\ DOMAIN log = 1..n /\ DOMAIN e = 1..Len(e) /\ Len(e) \in Nat
      /\ DOMAIN new = 1..(n + Len(e))
      /\ \A k \in 1..n : new[k] = log[k]
      /\ \A k \in 1..Len(e) : new[n + k] = e[k]
  BY <1>1
<1>3. \A k \in DOMAIN new : k \in DOMAIN log \/ \E i \in DOMAIN e : k = n + i
  <2> SUFFICES ASSUME NEW k \in DOMAIN new, k \notin DOMAIN log
               PROVE  \E i \in DOMAIN e : k = n + i
    OBVIOUS
  <2>1. k - n \in 1..Len(e) /\ k = n + (k - n)
    BY <1>2
  <2> QED
    BY <1>2, <2>1
<1> HIDE DEF new, n
<1>4. x.ports \in [DOMAIN x.ports -> L] /\ t \in [DOMAIN t -> L]
  BY TableFacts DEF Rows
<1>5. /\ C \subseteq DOMAIN x.ports
      /\ DOMAIN table = DOMAIN t \cup DOMAIN x.ports
      /\ \A p \in C : table[p] = x.ports[p]
      /\ \A p \in DOMAIN table \ C : p \in DOMAIN t /\ table[p] = t[p]
  BY <1>4 DEF PortsChanged, UpdatePorts, PortState
<1>6. \A i \in DOMAIN e : LET p == e[i].port IN
        /\ p \in C /\ e[i].link = x.ports[p] /\ e[i].previous = PortState(t, p)
        /\ e[i].link # e[i].previous /\ e[i].source = source
  BY <1>1 DEF EthEventFrom, PortsChanged
<1> HIDE DEF C, table
<1>7. TableEndsLog(new, table)
  <2> SUFFICES ASSUME NEW p \in DOMAIN table
               PROVE  \E k \in DOMAIN new :
                        /\ new[k].port = p /\ new[k].link = table[p]
                        /\ \A j \in DOMAIN new : new[j].port = p => j <= k
    BY DEF TableEndsLog
  <2>1. CASE p \in C
    <3>1. PICK i \in DOMAIN e : e[i].port = p
      BY <1>1, <2>1
    <3>2. n + i \in DOMAIN new /\ new[n + i] = e[i]
      BY <1>2, <3>1
    <3>3. ASSUME NEW j \in DOMAIN new, new[j].port = p
          PROVE  j <= n + i
      <4>1. CASE j \in DOMAIN log
        BY <1>2, <3>1, <4>1
      <4>2. ASSUME NEW k \in DOMAIN e, j = n + k
            PROVE  j <= n + i
        <5>1. e[k].port = p
          BY <1>2, <3>3, <4>2
        <5>2. k = i
          BY <1>1, <3>1, <5>1
        <5> QED
          BY <1>2, <3>1, <4>2, <5>2
      <4> QED
        BY <1>3, <4>1, <4>2
    <3> QED
      BY <1>5, <1>6, <2>1, <3>1, <3>2, <3>3
  <2>2. CASE p \notin C
    <3>1. p \in DOMAIN t /\ table[p] = t[p]
      BY <1>5, <2>2
    <3>2. PICK k \in DOMAIN log : /\ log[k].port = p /\ log[k].link = t[p]
                                  /\ \A j \in DOMAIN log : log[j].port = p => j <= k
      BY <3>1 DEF TableEndsLog
    <3>3. k \in DOMAIN new /\ new[k] = log[k]
      BY <1>2, <3>2
    <3>4. ASSUME NEW j \in DOMAIN new, new[j].port = p
          PROVE  j \in DOMAIN log /\ new[j] = log[j]
      <4>1. ~ \E i \in DOMAIN e : j = n + i
        BY <1>1, <1>2, <2>2, <3>4
      <4> QED
        BY <1>2, <1>3, <4>1
    <3> QED
      BY <3>1, <3>2, <3>3, <3>4
  <2> QED
    BY <2>1, <2>2
<1>8. PortsChained(new)
  <2> SUFFICES ASSUME NEW k \in DOMAIN new
               PROVE  GoesOn(new, k)
    BY DEF PortsChained
  <2>1. CASE k \in DOMAIN log
    <3>1. new[k] = log[k] /\ \A j \in 1..(k - 1) : new[j] = log[j]
      BY <1>2, <2>1
    <3>2. GoesOn(log, k)
      BY <2>1 DEF PortsChained
    <3> QED
      BY <3>1, <3>2 DEF GoesOn
  <2>2. ASSUME NEW i \in DOMAIN e, k = n + i
        PROVE  GoesOn(new, k)
    <3> DEFINE p == e[i].port
    <3>1. new[k] = e[i]
      BY <1>2, <2>2
    <3>2. ASSUME NEW j \in 1..(k - 1), new[j].port = p
          PROVE  j \in DOMAIN log /\ new[j] = log[j]
      <4>1. j \in DOMAIN new /\ j # k
        BY <1>2, <2>2
      <4>2. ASSUME NEW h \in DOMAIN e, j = n + h PROVE FALSE
        <5>1. h # i /\ new[j] = e[h]
          BY <1>2, <2>2, <4>1, <4>2
        <5> QED
          BY <1>1, <3>2, <4>2, <5>1
      <4> QED
        BY <1>2, <1>3, <4>1, <4>2
    <3>3. ASSUME e[i].previous # None
          PROVE  \E j \in 1..(k - 1) : /\ new[j].port = p /\ new[j].link = e[i].previous
                                       /\ \A h \in 1..(k - 1) : new[h].port = p => h <= j
      <4>1. p \in DOMAIN t /\ e[i].previous = t[p]
        BY <1>6, <3>3 DEF PortState
      <4>2. PICK j \in DOMAIN log : /\ log[j].port = p /\ log[j].link = t[p]
                                    /\ \A h \in DOMAIN log : log[h].port = p => h <= j
        BY <4>1 DEF TableEndsLog
      <4>3. j \in 1..(k - 1) /\ new[j] = log[j]
        BY <1>2, <2>2, <4>2
      <4>4. \A h \in 1..(k - 1) : new[h].port = p => h <= j
        BY <3>2, <4>2
      <4> QED
        BY <4>1, <4>2, <4>3, <4>4
    <3>4. ASSUME e[i].source = "backfill", NEW j \in 1..(k - 1), new[j].port = p
          PROVE  e[i].previous # None
      <4>1. PortsListed(log, t)
        BY <1>6, <3>4
      <4>2. p \in DOMAIN t
        BY <3>2, <3>4, <4>1 DEF PortsListed
      <4> QED
        BY <1>4, <1>6, <4>2 DEF PortState
    <3> QED
      BY <1>6, <3>1, <3>3, <3>4 DEF GoesOn
  <2> QED
    BY <1>3, <2>1, <2>2
<1>9. ASSUME PortsListed(log, t)
      PROVE  PortsListed(new, table)
  <2> SUFFICES ASSUME NEW k \in DOMAIN new
               PROVE  new[k].port \in DOMAIN table
    BY DEF PortsListed
  <2>1. CASE k \in DOMAIN log
    BY <1>2, <1>5, <1>9, <2>1 DEF PortsListed
  <2>2. ASSUME NEW i \in DOMAIN e, k = n + i
        PROVE  new[k].port \in DOMAIN table
    BY <1>1, <1>2, <1>5, <2>2
  <2> QED
    BY <1>3, <2>1, <2>2
<1> QED
  BY <1>2, <1>7, <1>8, <1>9 DEF new, e, table
=============================================================================
