---------------------------- MODULE Stores_proofs ----------------------------
(***************************************************************************)
(* The two stores hold the same after the same calls (module Stores), for  *)
(* any history: of any length, with any rows and any runs.                 *)
(***************************************************************************)
EXTENDS HistoryInputs, EventLog_proofs

LEMMA SameElements ==
  ASSUME NEW A, NEW s \in Seq(A), NEW t \in Seq(A), Len(s) = Len(t), \A k \in 1..Len(s) : s[k] = t[k]
  PROVE  s = t
  OBVIOUS

\* The pieces so far, one after the other.
IsFlatten(seqs, h) ==
  h = [i \in 1..Len(seqs) |-> IF i = 1 THEN seqs[i] ELSE h[i - 1] \o seqs[i]]

-----------------------------------------------------------------------------
(***************************************************************************)
(* Folds.  A fold over a sequence is computed by recursion over the sets   *)
(* of its indexes.                                                         *)
(***************************************************************************)
\* The greatest of a set of numbers up to n.
LEMMA GreatestOfSome ==
  ASSUME NEW n \in Nat, NEW s \in SUBSET (1..n), s # {}
  PROVE  /\ Max(s) \in s
         /\ \A x \in s : x <= Max(s)
         /\ s \ {Max(s)} \in SUBSET (1..n)
<1>1. IsFiniteSet(s)
  <2>1. IsFiniteSet(1..n)
    BY FS_Interval
  <2> QED
    BY <2>1, FS_Subset
<1>2. s \in SUBSET Nat
  OBVIOUS
<1>3. \E p \in s : \A q \in s : q <= p
  BY <1>1, <1>2, Greatest
<1>4. Max(s) \in s /\ \A x \in s : x <= Max(s)
  BY <1>2, <1>3 DEF Max
<1> QED
  BY <1>4

LEMMA GreatestOfInterval ==
  ASSUME NEW n \in Nat \ {0} PROVE Max(1..n) = n /\ (1..n) \ {Max(1..n)} = 1..(n - 1)
<1>1. Max(1..n) \in 1..n /\ n <= Max(1..n)
  <2>1. 1..n # {} /\ n \in 1..n
    OBVIOUS
  <2> QED
    BY <2>1, GreatestOfSome
<1>2. Max(1..n) = n
  BY <1>1
<1> QED
  BY <1>2

\* The results of a fold over the first n elements, for every set of their indexes.
IsFold(f, n, base, step) ==
  f = [s \in SUBSET (1..n) |-> IF s = {} THEN base ELSE step[Max(s)][f[s \ {Max(s)}]]]

LEMMA FoldExists ==
  ASSUME NEW n \in Nat, NEW base, NEW step PROVE \E f : IsFold(f, n, base, step)
<1> DEFINE S == {m \in Nat : \E f : IsFold(f, m, base, step)}
<1>1. 0 \in S
  <2> DEFINE f == [s \in SUBSET (1..0) |-> base]
  <2>1. \A s \in SUBSET (1..0) : s = {}
    OBVIOUS
  <2>2. IsFold(f, 0, base, step)
    BY <2>1 DEF IsFold
  <2> QED
    BY <2>2
<1>2. ASSUME NEW m \in Nat, NEW f, IsFold(f, m, base, step)
      PROVE  \E g : IsFold(g, m + 1, base, step)
  <2> DEFINE g == [s \in SUBSET (1..(m + 1)) |->
                     IF m + 1 \in s THEN step[m + 1][f[s \ {m + 1}]] ELSE f[s]]
  <2>1. \A s \in SUBSET (1..m) : f[s] = IF s = {} THEN base ELSE step[Max(s)][f[s \ {Max(s)}]]
    BY <1>2, Zenon DEF IsFold
  <2>2. \A s \in SUBSET (1..m) : g[s] = f[s]
    <3> SUFFICES ASSUME NEW s \in SUBSET (1..m) PROVE g[s] = f[s]
      OBVIOUS
    <3>1. m + 1 \notin s /\ s \in SUBSET (1..(m + 1))
      OBVIOUS
    <3> QED
      BY <3>1, Zenon
  <2>3. \A s \in SUBSET (1..(m + 1)) : m + 1 \in s => g[s] = step[m + 1][f[s \ {m + 1}]]
    OBVIOUS
  <2>4. g = [s \in SUBSET (1..(m + 1)) |-> g[s]]
    OBVIOUS
  <2>5. \A s \in SUBSET (1..(m + 1)) : s \ {m + 1} \in SUBSET (1..m)
    OBVIOUS
  <2> HIDE DEF g
  <2>6. ASSUME NEW s \in SUBSET (1..(m + 1))
        PROVE  g[s] = IF s = {} THEN base ELSE step[Max(s)][g[s \ {Max(s)}]]
    <3>1. CASE m + 1 \in s
      <4>1. Max(s) = m + 1
        <5>1. m + 1 \in Nat /\ s # {}
          BY <3>1
        <5>2. Max(s) \in s /\ m + 1 <= Max(s)
          BY <3>1, <5>1, GreatestOfSome
        <5>3. Max(s) \in 1..(m + 1)
          BY <5>2
        <5> QED
          BY <5>2, <5>3
      <4>2. g[s \ {m + 1}] = f[s \ {m + 1}]
        BY <2>2, <2>5
      <4> QED
        BY <2>3, <3>1, <4>1, <4>2
    <3>2. CASE m + 1 \notin s
      <4>1. s \in SUBSET (1..m)
        BY <3>2
      <4>2. s \ {Max(s)} \in SUBSET (1..m)
        BY <4>1
      <4> QED
        BY <2>1, <2>2, <4>1, <4>2
    <3> QED
      BY <3>1, <3>2
  <2>7. IsFold(g, m + 1, base, step)
    BY <2>4, <2>6, Zenon DEF IsFold
  <2> QED
    BY <2>7
<1>3. \A m \in Nat : m \in S
  <2>1. \A m \in Nat : m \in S => m + 1 \in S
    BY <1>2
  <2> HIDE DEF S
  <2> QED
    BY <1>1, <2>1, Induction
<1> QED
  BY <1>3

\* The results stay among the ones the steps are about.
LEMMA FoldWithin ==
  ASSUME NEW n \in Nat, NEW V, NEW base \in V, NEW step \in [1..n -> [V -> V]],
         NEW f, IsFold(f, n, base, step)
  PROVE  \A s \in SUBSET (1..n) : f[s] \in V
<1> DEFINE S == {m \in Nat : m <= n => \A s \in SUBSET (1..m) : f[s] \in V}
<1>1. \A s \in SUBSET (1..n) : f[s] = IF s = {} THEN base ELSE step[Max(s)][f[s \ {Max(s)}]]
  BY Zenon DEF IsFold
<1>2. 0 \in S
  <2>1. \A s \in SUBSET (1..0) : s = {} /\ s \in SUBSET (1..n)
    OBVIOUS
  <2> QED
    BY <1>1, <2>1
<1>3. ASSUME NEW m \in Nat, m \in S, m + 1 <= n, NEW s \in SUBSET (1..(m + 1))
      PROVE  f[s] \in V
  <2>1. s \in SUBSET (1..n)
    BY <1>3
  <2>2. CASE s = {}
    BY <1>1, <2>1, <2>2
  <2>3. CASE s # {}
    <3>1. Max(s) \in s /\ \A x \in s : x <= Max(s)
      BY <2>1, <2>3, GreatestOfSome
    <3>2. Max(s) \in 1..(m + 1)
      BY <3>1
    <3>3. s \ {Max(s)} \in SUBSET (1..m)
      <4> SUFFICES ASSUME NEW x \in s, x # Max(s) PROVE x \in 1..m
        OBVIOUS
      <4>1. x \in 1..(m + 1) /\ x <= Max(s)
        BY <3>1
      <4> QED
        BY <3>2, <4>1
    <3>4. f[s \ {Max(s)}] \in V
      BY <1>3, <3>3
    <3>5. step[Max(s)] \in [V -> V]
      BY <2>1, <3>1
    <3>6. step[Max(s)][f[s \ {Max(s)}]] \in V
      BY <3>4, <3>5
    <3> QED
      BY <1>1, <2>1, <2>3, <3>6
  <2> QED
    BY <2>2, <2>3
<1>4. \A m \in Nat : m \in S
  <2>1. ASSUME NEW m \in Nat, m \in S PROVE m + 1 \in S
    <3>1. m + 1 <= n => \A s \in SUBSET (1..(m + 1)) : f[s] \in V
      BY <1>3, <2>1
    <3>2. m + 1 \in Nat
      OBVIOUS
    <3> QED
      BY <3>1, <3>2
  <2> HIDE DEF S
  <2> QED
    BY <1>2, <2>1, Induction
<1> QED
  BY <1>4

\* f is computed as a fold is, within V.
FoldsWithin(f, n, V, base, step) ==
  /\ f[{}] = base
  /\ \A s \in SUBSET (1..n) : s # {} /\ f[s \ {Max(s)}] \in V => f[s] = step[Max(s)][f[s \ {Max(s)}]]

\* For the first k indexes it has the result of k steps.
LEMMA FoldInOrder ==
  ASSUME NEW n \in Nat, NEW V, NEW base \in V, NEW step \in [1..n -> [V -> V]], NEW f,
         FoldsWithin(f, n, V, base, step)
  PROVE  \E g : Recursion(g, n, V, base, step) /\ g[n] = f[1..n]
<1> DEFINE g == [k \in 0..n |-> f[1..k]]
           S == {k \in Nat : k <= n => f[1..k] \in V}
<1>1. 1..0 = {}
  OBVIOUS
<1>2. ASSUME NEW k \in 1..n, f[1..(k - 1)] \in V
      PROVE  f[1..k] = step[k][f[1..(k - 1)]] /\ f[1..k] \in V
  <2>1. Max(1..k) = k /\ (1..k) \ {Max(1..k)} = 1..(k - 1)
    BY GreatestOfInterval
  <2>2. 1..k \in SUBSET (1..n) /\ 1..k # {}
    OBVIOUS
  <2>3. f[1..k] = step[k][f[1..(k - 1)]]
    BY <1>2, <2>1, <2>2 DEF FoldsWithin
  <2>4. step[k] \in [V -> V]
    OBVIOUS
  <2> QED
    BY <1>2, <2>3, <2>4
<1>3. \A k \in Nat : k \in S
  <2>1. 0 \in S
    BY <1>1 DEF FoldsWithin
  <2>2. ASSUME NEW k \in Nat, k \in S PROVE k + 1 \in S
    <3>1. k + 1 <= n => k + 1 \in 1..n /\ (k + 1) - 1 = k /\ f[1..k] \in V
      BY <2>2
    <3>2. k + 1 <= n => f[1..(k + 1)] \in V
      BY <1>2, <3>1
    <3> QED
      BY <3>2
  <2> HIDE DEF S
  <2> QED
    BY <2>1, <2>2, Induction
<1>4. \A k \in 0..n : f[1..k] \in V /\ g[k] = f[1..k]
  BY <1>3
<1>5. g \in [0..n -> V] /\ g[0] = base /\ g[n] = f[1..n]
  BY <1>1, <1>4 DEF FoldsWithin
<1>6. ASSUME NEW k \in 1..n PROVE g[k] = step[k][g[k - 1]]
  <2>1. k \in 0..n /\ k - 1 \in 0..n
    OBVIOUS
  <2> QED
    BY <1>2, <1>4, <2>1
<1> QED
  BY <1>5, <1>6 DEF Recursion

\* The results of a fold whose steps stay within V.
LEMMA FoldOfSteps ==
  ASSUME NEW n \in Nat, NEW V, NEW base \in V, NEW step \in [1..n -> [V -> V]]
  PROVE  \E f : /\ f = [s \in SUBSET (1..n) |-> IF s = {} THEN base ELSE step[Max(s)][f[s \ {Max(s)}]]]
                /\ \A s \in SUBSET (1..n) : f[s] \in V /\ (s # {} => Max(s) \in 1..n /\ s \ {Max(s)} \in SUBSET (1..n))
<1>1. PICK f : IsFold(f, n, base, step)
  BY FoldExists
<1>2. \A s \in SUBSET (1..n) : f[s] \in V
  BY <1>1, FoldWithin
<1>3. \A s \in SUBSET (1..n) : s # {} => Max(s) \in 1..n /\ s \ {Max(s)} \in SUBSET (1..n)
  BY GreatestOfSome
<1> QED
  BY <1>1, <1>2, <1>3, Zenon DEF IsFold

-----------------------------------------------------------------------------
(***************************************************************************)
(* The elements of a sequence at some of its indexes, in their order.      *)
(***************************************************************************)
Rank(I, i) == Cardinality({j \in I : j <= i})

\* The indexes of I by their rank.
Ranked(I) == [k \in 1..Cardinality(I) |-> CHOOSE i \in I : Rank(I, i) = k]

\* Two of the indexes have the ranks that their order gives them.
LEMMA RanksGrow ==
  ASSUME NEW n \in Nat, NEW I \in SUBSET (1..n)
  PROVE  /\ IsFiniteSet(I) /\ Cardinality(I) \in Nat
         /\ \A i \in I : Rank(I, i) \in 1..Cardinality(I)
         /\ \A i, j \in I : i < j => Rank(I, i) < Rank(I, j)
<1> DEFINE upto(i) == {j \in I : j <= i}
<1>1. IsFiniteSet(I) /\ Cardinality(I) \in Nat
  <2>1. IsFiniteSet(1..n)
    BY FS_Interval
  <2> QED
    BY <2>1, FS_Subset, FS_CardinalityType
<1>2. \A i \in I : i \in Nat
  OBVIOUS
<1>3. ASSUME NEW i \in I
      PROVE  /\ IsFiniteSet(upto(i)) /\ Cardinality(upto(i)) \in Nat
             /\ Cardinality(upto(i)) # 0 /\ Cardinality(upto(i)) <= Cardinality(I)
  <2>1. upto(i) \in SUBSET I /\ i \in upto(i)
    BY <1>2
  <2> HIDE DEF upto
  <2>2. IsFiniteSet(upto(i)) /\ Cardinality(upto(i)) <= Cardinality(I)
    BY <1>1, <2>1, FS_Subset
  <2> QED
    BY <2>1, <2>2, FS_EmptySet, FS_CardinalityType
<1>4. ASSUME NEW i \in I, NEW j \in I, i < j
      PROVE  Cardinality(upto(i)) < Cardinality(upto(j))
  <2>1. upto(i) \in SUBSET upto(j) /\ j \in upto(j) /\ j \notin upto(i)
    <3>1. i \in Nat /\ j \in Nat /\ ~(j <= i) /\ j <= j
      BY <1>2, <1>4
    <3>2. \A k \in I : k <= i => k <= j
      BY <1>2, <1>4, <3>1
    <3> QED
      BY <3>1, <3>2
  <2> HIDE DEF upto
  <2>2. /\ Cardinality(upto(i)) <= Cardinality(upto(j))
        /\ Cardinality(upto(i)) # Cardinality(upto(j))
    BY <1>3, <2>1, FS_Subset
  <2> QED
    BY <1>3, <2>2
<1> QED
  BY <1>1, <1>3, <1>4 DEF Rank

\* Every rank is that of one index, and the ranks are in the order of the indexes.
LEMMA RankedIs ==
  ASSUME NEW n \in Nat, NEW I \in SUBSET (1..n)
  PROVE  /\ Ranked(I) \in [1..Cardinality(I) -> I]
         /\ \A j, k \in 1..Cardinality(I) : j < k => Ranked(I)[j] < Ranked(I)[k]
         /\ \A i \in I : Rank(I, i) \in 1..Cardinality(I) /\ Ranked(I)[Rank(I, i)] = i
         /\ \A k \in 1..Cardinality(I) : Rank(I, Ranked(I)[k]) = k
<1> DEFINE m == Cardinality(I)
           rank == [i \in I |-> Rank(I, i)]
<1>1. /\ IsFiniteSet(I) /\ m \in Nat
      /\ \A i \in I : Rank(I, i) \in 1..m
      /\ \A i, j \in I : i < j => Rank(I, i) < Rank(I, j)
  BY RanksGrow
<1>2. \A i \in I : i \in Nat
  OBVIOUS
<1>3. \A i, j \in I : Rank(I, i) = Rank(I, j) => i = j
  <2>1. \A i, j \in I : i = j \/ i < j \/ j < i
    BY <1>2
  <2>2. \A i \in I : Rank(I, i) \in Nat
    BY <1>1
  <2> QED
    BY <1>1, <2>1, <2>2
<1>4. rank \in [I -> 1..m] /\ \A i \in I : rank[i] = Rank(I, i)
  BY <1>1
<1> HIDE DEF rank, m
<1>5. rank \in Injection(I, 1..m)
  BY <1>3, <1>4 DEF Injection, IsInjective
<1>6. rank \in Surjection(I, 1..m)
  <2>1. IsFiniteSet(1..m) /\ Cardinality(1..m) = m
    BY <1>1, FS_Interval
  <2> QED
    BY <1>1, <1>5, <2>1, FS_Injection DEF m
<1>7. \A k \in 1..m : \E i \in I : Rank(I, i) = k
  BY <1>4, <1>6 DEF Surjection
<1>8. \A k \in 1..m : Ranked(I)[k] \in I /\ Rank(I, Ranked(I)[k]) = k
  BY <1>7 DEF Ranked, m
<1>9. Ranked(I) \in [1..m -> I]
  <2>1. Ranked(I) = [k \in 1..m |-> Ranked(I)[k]]
    BY DEF Ranked, m
  <2> QED
    BY <1>8, <2>1
<1>10. ASSUME NEW j \in 1..m, NEW k \in 1..m, j < k
       PROVE  Ranked(I)[j] < Ranked(I)[k]
  <2> DEFINE a == Ranked(I)[j]
             b == Ranked(I)[k]
  <2>1. a \in I /\ b \in I /\ Rank(I, a) = j /\ Rank(I, b) = k /\ j \in Nat /\ k \in Nat
    BY <1>1, <1>8
  <2> HIDE DEF a, b
  <2>2. a # b /\ ~(b < a)
    BY <1>1, <1>10, <2>1
  <2>3. a < b
    BY <1>2, <2>1, <2>2
  <2> QED
    BY <2>3 DEF a, b
<1>11. \A i \in I : Ranked(I)[Rank(I, i)] = i
  BY <1>1, <1>3, <1>8
<1> QED
  BY <1>1, <1>8, <1>9, <1>10, <1>11 DEF m

\* What is at the indexes, and nothing else, in the order of the sequence.
LEMMA ElementsAre ==
  ASSUME NEW A, NEW seq \in Seq(A), NEW I \in SUBSET DOMAIN seq
  PROVE  /\ Elements(seq, I) \in Seq(A)
         /\ Len(Elements(seq, I)) = Cardinality(I) /\ Cardinality(I) \in Nat
         /\ \A k \in 1..Cardinality(I) : Ranked(I)[k] \in I /\ Elements(seq, I)[k] = seq[Ranked(I)[k]]
         /\ \A i \in I : Rank(I, i) \in 1..Cardinality(I) /\ Elements(seq, I)[Rank(I, i)] = seq[i]
         /\ \A j, k \in 1..Cardinality(I) : j < k => Ranked(I)[j] < Ranked(I)[k]
<1> DEFINE m == Cardinality(I)
           picked == Elements(seq, I)
<1>1. Len(seq) \in Nat /\ I \in SUBSET (1..Len(seq))
  OBVIOUS
<1>2. /\ Ranked(I) \in [1..m -> I] /\ m \in Nat
      /\ \A j, k \in 1..m : j < k => Ranked(I)[j] < Ranked(I)[k]
      /\ \A i \in I : Rank(I, i) \in 1..m /\ Ranked(I)[Rank(I, i)] = i
  BY <1>1, RankedIs, RanksGrow
<1>3. picked = [k \in 1..m |-> seq[Ranked(I)[k]]]
  BY DEF Elements, Ranked, Rank
<1> HIDE DEF picked, m
<1>4. \A k \in 1..m : seq[Ranked(I)[k]] \in A
  BY <1>1, <1>2
<1>5. picked \in Seq(A) /\ Len(picked) = m
  BY <1>2, <1>3, <1>4
<1> QED
  BY <1>2, <1>3, <1>5 DEF picked, m

\* All of them are the sequence.
LEMMA AllElements ==
  ASSUME NEW A, NEW seq \in Seq(A)
  PROVE  Elements(seq, DOMAIN seq) = seq
<1> DEFINE n == Len(seq)
           picked == Elements(seq, 1..n)
<1>1. n \in Nat /\ DOMAIN seq = 1..n
  OBVIOUS
<1>2. Cardinality(1..n) = n
  BY <1>1, FS_Interval
<1>3. \A i \in 1..n : Rank(1..n, i) = i
  <2> SUFFICES ASSUME NEW i \in 1..n PROVE Rank(1..n, i) = i
    OBVIOUS
  <2>1. {j \in 1..n : j <= i} = 1..i
    BY <1>1
  <2>2. Cardinality(1..i) = i
    BY FS_Interval
  <2> QED
    BY <2>1, <2>2 DEF Rank
<1>4. /\ picked \in Seq(A) /\ Len(picked) = n
      /\ \A i \in 1..n : picked[Rank(1..n, i)] = seq[i]
  BY <1>1, <1>2, ElementsAre
<1> HIDE DEF picked
<1>5. picked = seq
  BY <1>1, <1>3, <1>4, SameElements
<1> QED
  BY <1>1, <1>5 DEF picked

-----------------------------------------------------------------------------
(***************************************************************************)
(* Rows at positions P with statuses St and states of ports L, and what    *)
(* the stores hold of them.                                                *)
(***************************************************************************)
Samples(P, St, L) ==
  [time : Nat \ {0}, pos : P, serial : Serials \cup {Blank}, status : St, expected : Nat, ports : Tables(L)]

Identities(St) == [status : St \cup {None}, previous : St \cup {None}, since : Nat]

StoresOf(St, L) ==
  [states : [Serials -> Identities(St)], ports : [Serials -> Tables(L)],
   events : [Serials -> Seq(StatusEvents(St))], eth : [Serials -> Seq(EthEvents(L))]]

LEMMA EmptyType ==
  ASSUME NEW St, NEW L
  PROVE  /\ Empty \in StoresOf(St, L)
         /\ \A s \in Serials : Empty.states[s] = NoState /\ Empty.events[s] = <<>> /\ Empty.eth[s] = <<>>
<1>1. NoState \in Identities(St)
  BY DEF NoState, Identities
<1>2. NoPorts \in Tables(L)
  BY NoPortsType
<1> DEFINE states == [s \in Serials |-> NoState]
           ports == [s \in Serials |-> NoPorts]
           log == [s \in Serials |-> <<>>]
<1>3. /\ states \in [Serials -> Identities(St)] /\ ports \in [Serials -> Tables(L)]
      /\ log \in [Serials -> Seq(StatusEvents(St))] /\ log \in [Serials -> Seq(EthEvents(L))]
  BY <1>1, <1>2
<1>4. \A s \in Serials : states[s] = NoState /\ log[s] = <<>>
  OBVIOUS
<1> HIDE DEF states, ports, log
<1>5. Empty = [states |-> states, ports |-> ports, events |-> log, eth |-> log]
  BY DEF Empty, states, ports, log
<1> QED
  BY <1>3, <1>4, <1>5 DEF StoresOf

\* A padded row differs in its ports alone.
LEMMA PaddedRow ==
  ASSUME NEW P, NEW St, NEW L, "unknown" \in L, NEW r \in Samples(P, St, L)
  PROVE  LET x == ApplyExpectedPorts(r) IN
         /\ x.ports \in Tables(L) /\ x.time = r.time /\ x.time \in Nat \ {0}
         /\ x.serial = r.serial /\ x.status = r.status /\ x.status \in St
<1> DEFINE padded == [i \in 1..r.expected |-> IF i \in DOMAIN r.ports THEN r.ports[i] ELSE "unknown"]
<1>1. /\ r.expected \in Nat /\ r.ports \in Tables(L) /\ r.time \in Nat \ {0} /\ r.status \in St
      /\ r = [time |-> r.time, pos |-> r.pos, serial |-> r.serial, status |-> r.status,
              expected |-> r.expected, ports |-> r.ports]
  BY DEF Samples
<1>2. padded \in Tables(L)
  <2>1. 1..r.expected \in SUBSET (Nat \ {0}) /\ IsFiniteSet(1..r.expected)
    <3>1. 1 \in Int /\ r.expected \in Int
      BY <1>1
    <3>2. IsFiniteSet(1..r.expected)
      BY <3>1, FS_Interval
    <3> QED
      BY <1>1, <3>2
  <2>2. padded \in [1..r.expected -> L]
    BY <1>1, TableFacts
  <2> HIDE DEF padded
  <2> QED
    BY <2>1, <2>2, IsTable
<1>3. ApplyExpectedPorts(r) \in {r, [r EXCEPT !.ports = padded]}
  BY DEF ApplyExpectedPorts
<1> HIDE DEF padded
<1> QED
  BY <1>1, <1>2, <1>3

LEMMA UpdatedTable ==
  ASSUME NEW L, NEW t \in Tables(L), NEW x, x.ports \in Tables(L)
  PROVE  UpdatePorts(t, x) \in Tables(L)
<1>1. /\ DOMAIN t \cup DOMAIN x.ports \in SUBSET (Nat \ {0})
      /\ IsFiniteSet(DOMAIN t \cup DOMAIN x.ports)
  BY TableFacts, FS_Union
<1>2. UpdatePorts(t, x) \in [DOMAIN t \cup DOMAIN x.ports -> L]
  BY TableFacts DEF UpdatePorts
<1> QED
  BY <1>1, <1>2, IsTable

\* The events of a row lengthen the logs of its own serial number.
IsLogged(new, m, known, r) ==
  /\ new.states = m.states /\ new.ports = m.ports
  /\ \A s \in Serials : s # r.serial => new.events[s] = m.events[s] /\ new.eth[s] = m.eth[s]
  /\ \A s \in Serials : s = r.serial =>
       /\ new.events[s] = m.events[s] \o StatusEventsFrom(known.states[s].status, ApplyExpectedPorts(r), "poller")
       /\ new.eth[s] = m.eth[s] \o EthEventsFrom(known.ports[s], ApplyExpectedPorts(r), "poller")

LEMMA LoggedRow ==
  ASSUME NEW P, NEW St, NEW L, None \notin L, "unknown" \in L,
         NEW m \in StoresOf(St, L), NEW known \in StoresOf(St, L), NEW r \in Samples(P, St, L)
  PROVE  LogRow(m, known, r) \in StoresOf(St, L) /\ IsLogged(LogRow(m, known, r), m, known, r)
<1> DEFINE x == ApplyExpectedPorts(r)
           z == r.serial
           status == StatusEventsFrom(known.states[z].status, x, "poller")
           link == EthEventsFrom(known.ports[z], x, "poller")
           events == [m.events EXCEPT ![z] = @ \o status]
           eth == [m.eth EXCEPT ![z] = @ \o link]
<1>1. /\ x.ports \in Tables(L) /\ x.time = r.time /\ x.time \in Nat \ {0}
      /\ x.serial = z /\ x.status \in St
  BY PaddedRow
<1>2. z \in Serials \cup {Blank}
  BY DEF Samples
<1>3. /\ m.states \in [Serials -> Identities(St)] /\ m.ports \in [Serials -> Tables(L)]
      /\ m.events \in [Serials -> Seq(StatusEvents(St))] /\ m.eth \in [Serials -> Seq(EthEvents(L))]
      /\ known.states \in [Serials -> Identities(St)] /\ known.ports \in [Serials -> Tables(L)]
  BY DEF StoresOf
<1>4. CASE z = Blank
  <2>1. LogRow(m, known, r) = m
    BY <1>4 DEF LogRow
  <2>2. \A s \in Serials : s # z
    BY <1>4, SerialsAssumption
  <2> QED
    BY <2>1, <2>2 DEF IsLogged
<1>5. CASE z # Blank
  <2>1. z \in Serials
    BY <1>2, <1>5
  <2>2. status \in Seq(StatusEvents(St))
    <3>1. known.states[z].status \in St \cup {None}
      BY <1>3, <2>1 DEF Identities
    <3>2. StatusEventFrom(known.states[z].status, x, "poller") \in StatusEvents(St)
      BY <1>1, <3>1 DEF StatusEventFrom, StatusEvents, Sources
    <3> QED
      BY <3>2 DEF StatusEventsFrom
  <2>3. link \in Seq(EthEvents(L))
    <3>1. "poller" \in Sources /\ known.ports[z] \in Tables(L)
      BY <1>3, <2>1 DEF Sources
    <3> QED
      BY <1>1, <3>1, EthEventsOfPorts
  <2>4. LogRow(m, known, r) = [states |-> m.states, ports |-> m.ports, events |-> events, eth |-> eth]
    BY <1>1, <1>5 DEF LogRow
  <2> HIDE DEF x, z, status, link
  <2>5. /\ events \in [Serials -> Seq(StatusEvents(St))] /\ eth \in [Serials -> Seq(EthEvents(L))]
        /\ \A s \in Serials : s # z => events[s] = m.events[s] /\ eth[s] = m.eth[s]
        /\ events[z] = m.events[z] \o status /\ eth[z] = m.eth[z] \o link
    <3>1. m.events[z] \o status \in Seq(StatusEvents(St)) /\ m.eth[z] \o link \in Seq(EthEvents(L))
      <4>1. m.events[z] \in Seq(StatusEvents(St)) /\ m.eth[z] \in Seq(EthEvents(L))
        BY <1>3, <2>1
      <4> QED
        BY <2>2, <2>3, <4>1
    <3> QED
      BY <1>3, <2>1, <3>1
  <2> HIDE DEF events, eth
  <2> DEFINE new == [states |-> m.states, ports |-> m.ports, events |-> events, eth |-> eth]
  <2>6. /\ new \in StoresOf(St, L) /\ new.states = m.states /\ new.ports = m.ports
        /\ new.events = events /\ new.eth = eth
    BY <1>3, <2>5 DEF StoresOf
  <2> HIDE DEF new
  <2>7. LogRow(m, known, r) = new
    BY <2>4 DEF new
  <2> QED
    BY <2>5, <2>6, <2>7 DEF x, z, status, link, IsLogged
<1> QED
  BY <1>4, <1>5

\* A row changes the identity and the ports of its own serial number.
IsKept(new, m, r) ==
  /\ new.events = m.events /\ new.eth = m.eth
  /\ \A s \in Serials : s # r.serial => new.states[s] = m.states[s] /\ new.ports[s] = m.ports[s]
  /\ \A s \in Serials : s = r.serial =>
       /\ new.states[s] = SeenState(m.states[s], ApplyExpectedPorts(r))
       /\ new.ports[s] = UpdatePorts(m.ports[s], ApplyExpectedPorts(r))

LEMMA KeptRow ==
  ASSUME NEW P, NEW St, NEW L, "unknown" \in L, NEW m \in StoresOf(St, L), NEW r \in Samples(P, St, L)
  PROVE  KeepRow(m, r) \in StoresOf(St, L) /\ IsKept(KeepRow(m, r), m, r)
<1> DEFINE x == ApplyExpectedPorts(r)
           z == r.serial
           states == [m.states EXCEPT ![z] = SeenState(@, x)]
           ports == [m.ports EXCEPT ![z] = UpdatePorts(@, x)]
<1>1. /\ x.ports \in Tables(L) /\ x.time \in Nat \ {0} /\ x.serial = z /\ x.status \in St
  BY PaddedRow
<1>2. z \in Serials \cup {Blank}
  BY DEF Samples
<1>3. /\ m.states \in [Serials -> Identities(St)] /\ m.ports \in [Serials -> Tables(L)]
      /\ m.events \in [Serials -> Seq(StatusEvents(St))] /\ m.eth \in [Serials -> Seq(EthEvents(L))]
  BY DEF StoresOf
<1>4. CASE z = Blank
  <2>1. KeepRow(m, r) = m
    BY <1>4 DEF KeepRow
  <2>2. \A s \in Serials : s # z
    BY <1>4, SerialsAssumption
  <2> QED
    BY <2>1, <2>2 DEF IsKept
<1>5. CASE z # Blank
  <2>1. z \in Serials
    BY <1>2, <1>5
  <2>2. KeepRow(m, r) = [states |-> states, ports |-> ports, events |-> m.events, eth |-> m.eth]
    BY <1>1, <1>5 DEF KeepRow
  <2> HIDE DEF x, z
  <2>3. SeenState(m.states[z], x) \in Identities(St)
    <3>1. m.states[z] \in Identities(St)
      BY <1>3, <2>1
    <3> QED
      BY <1>1, <3>1 DEF SeenState, Identities
  <2>4. UpdatePorts(m.ports[z], x) \in Tables(L)
    <3>1. m.ports[z] \in Tables(L)
      BY <1>3, <2>1
    <3> QED
      BY <1>1, <3>1, UpdatedTable
  <2>5. /\ states \in [Serials -> Identities(St)] /\ ports \in [Serials -> Tables(L)]
        /\ \A s \in Serials : s # z => states[s] = m.states[s] /\ ports[s] = m.ports[s]
        /\ states[z] = SeenState(m.states[z], x) /\ ports[z] = UpdatePorts(m.ports[z], x)
    BY <1>3, <2>1, <2>3, <2>4
  <2> HIDE DEF states, ports
  <2> DEFINE new == [states |-> states, ports |-> ports, events |-> m.events, eth |-> m.eth]
  <2>6. /\ new \in StoresOf(St, L) /\ new.states = states /\ new.ports = ports
        /\ new.events = m.events /\ new.eth = m.eth
    BY <1>3, <2>5 DEF StoresOf
  <2> HIDE DEF new
  <2>7. KeepRow(m, r) = new
    BY <2>2 DEF new
  <2> QED
    BY <2>5, <2>6, <2>7 DEF x, z, IsKept
<1> QED
  BY <1>4, <1>5

-----------------------------------------------------------------------------
(***************************************************************************)
(* A batch, row by row.                                                    *)
(***************************************************************************)
\* The memory store derives the events of a row from what the rows before it left.
LEMMA MemoryRows ==
  ASSUME NEW P, NEW St, NEW L, None \notin L, "unknown" \in L,
         NEW store \in StoresOf(St, L), NEW rows \in Seq(Samples(P, St, L))
  PROVE  \E g : /\ g \in [0..Len(rows) -> StoresOf(St, L)] /\ g[0] = store
                /\ \A k \in 1..Len(rows) : g[k] = KeepRow(LogRow(g[k - 1], g[k - 1], rows[k]), rows[k])
                /\ MemoryRecord(store, rows) = g[Len(rows)]
<1> DEFINE n == Len(rows)
           V == StoresOf(St, L)
           next(m, r) == KeepRow(LogRow(m, m, r), r)
           step == [k \in 1..n |-> [m \in V |-> next(m, rows[k])]]
           F == CHOOSE f : f = [s \in SUBSET DOMAIN rows |->
                                  IF s = {} THEN store ELSE next(f[s \ {Max(s)}], rows[Max(s)])]
<1>1. MemoryRecord(store, rows) = F[DOMAIN rows]
  BY DEF MemoryRecord, FoldLeft, MapThenFoldSet
<1>2. n \in Nat /\ DOMAIN rows = 1..n /\ \A k \in 1..n : rows[k] \in Samples(P, St, L)
  OBVIOUS
<1>3. /\ store \in V
      /\ \A m \in V, r \in Samples(P, St, L) : next(m, r) \in V
  BY LoggedRow, KeptRow
<1> HIDE DEF V, next, n
<1>4. step \in [1..n -> [V -> V]] /\ \A k \in 1..n, m \in V : step[k][m] = next(m, rows[k])
  BY <1>2, <1>3
<1> HIDE DEF step
<1>5. F = [s \in SUBSET (1..n) |-> IF s = {} THEN store ELSE next(F[s \ {Max(s)}], rows[Max(s)])]
  <2>1. PICK f : /\ f = [s \in SUBSET (1..n) |-> IF s = {} THEN store ELSE step[Max(s)][f[s \ {Max(s)}]]]
                 /\ \A s \in SUBSET (1..n) : f[s] \in V /\ (s # {} => Max(s) \in 1..n /\ s \ {Max(s)} \in SUBSET (1..n))
    BY <1>2, <1>3, <1>4, FoldOfSteps
  <2>2. \A s \in SUBSET (1..n) : f[s] = IF s = {} THEN store ELSE next(f[s \ {Max(s)}], rows[Max(s)])
    BY <1>4, <2>1
  <2>3. f = [s \in SUBSET (1..n) |-> IF s = {} THEN store ELSE next(f[s \ {Max(s)}], rows[Max(s)])]
    BY <2>1, <2>2
  <2> QED
    BY <1>2, <2>3
<1> HIDE DEF F
<1>6. FoldsWithin(F, n, V, store, step)
  <2>1. F[{}] = store /\ \A s \in SUBSET (1..n) : s # {} => F[s] = next(F[s \ {Max(s)}], rows[Max(s)])
    BY <1>5
  <2>2. \A s \in SUBSET (1..n) : s # {} => Max(s) \in 1..n
    BY <1>2, GreatestOfSome
  <2> QED
    BY <1>4, <2>1, <2>2 DEF FoldsWithin
<1>7. n \in Nat /\ store \in V /\ step \in [1..n -> [V -> V]]
  BY <1>2, <1>3, <1>4
<1>8. PICK g : Recursion(g, n, V, store, step) /\ g[n] = F[1..n]
  BY ONLY <1>6, <1>7, FoldInOrder
<1>9. \A k \in 1..n : g[k] = next(g[k - 1], rows[k])
  <2>1. \A k \in 1..n : k - 1 \in 0..n
    BY <1>2
  <2> QED
    BY <1>4, <1>8, <2>1 DEF Recursion
<1> QED
  BY <1>1, <1>2, <1>8, <1>9 DEF Recursion, n, V, next

\* The two parts of TimescaleRecord.
Logged(store, rows) == FoldLeft(LAMBDA d, r : LogRow(d, store, r), store, rows)

Kept(store, rows) == FoldLeft(KeepRow, store, rows)

\* The database derives them from what it held before the batch.
LEMMA LoggedRows ==
  ASSUME NEW P, NEW St, NEW L, None \notin L, "unknown" \in L,
         NEW store \in StoresOf(St, L), NEW rows \in Seq(Samples(P, St, L))
  PROVE  \E g : /\ g \in [0..Len(rows) -> StoresOf(St, L)] /\ g[0] = store
                /\ \A k \in 1..Len(rows) : g[k] = LogRow(g[k - 1], store, rows[k])
                /\ Logged(store, rows) = g[Len(rows)]
<1> DEFINE n == Len(rows)
           V == StoresOf(St, L)
           next(m, r) == LogRow(m, store, r)
           step == [k \in 1..n |-> [m \in V |-> next(m, rows[k])]]
           F == CHOOSE f : f = [s \in SUBSET DOMAIN rows |->
                                  IF s = {} THEN store ELSE next(f[s \ {Max(s)}], rows[Max(s)])]
<1>1. Logged(store, rows) = F[DOMAIN rows]
  BY DEF Logged, FoldLeft, MapThenFoldSet
<1>2. n \in Nat /\ DOMAIN rows = 1..n /\ \A k \in 1..n : rows[k] \in Samples(P, St, L)
  OBVIOUS
<1>3. /\ store \in V
      /\ \A m \in V, r \in Samples(P, St, L) : next(m, r) \in V
  BY LoggedRow
<1> HIDE DEF V, next, n
<1>4. step \in [1..n -> [V -> V]] /\ \A k \in 1..n, m \in V : step[k][m] = next(m, rows[k])
  BY <1>2, <1>3
<1> HIDE DEF step
<1>5. F = [s \in SUBSET (1..n) |-> IF s = {} THEN store ELSE next(F[s \ {Max(s)}], rows[Max(s)])]
  <2>1. PICK f : /\ f = [s \in SUBSET (1..n) |-> IF s = {} THEN store ELSE step[Max(s)][f[s \ {Max(s)}]]]
                 /\ \A s \in SUBSET (1..n) : f[s] \in V /\ (s # {} => Max(s) \in 1..n /\ s \ {Max(s)} \in SUBSET (1..n))
    BY <1>2, <1>3, <1>4, FoldOfSteps
  <2>2. \A s \in SUBSET (1..n) : f[s] = IF s = {} THEN store ELSE next(f[s \ {Max(s)}], rows[Max(s)])
    BY <1>4, <2>1
  <2>3. f = [s \in SUBSET (1..n) |-> IF s = {} THEN store ELSE next(f[s \ {Max(s)}], rows[Max(s)])]
    BY <2>1, <2>2
  <2> QED
    BY <1>2, <2>3
<1> HIDE DEF F
<1>6. FoldsWithin(F, n, V, store, step)
  <2>1. F[{}] = store /\ \A s \in SUBSET (1..n) : s # {} => F[s] = next(F[s \ {Max(s)}], rows[Max(s)])
    BY <1>5
  <2>2. \A s \in SUBSET (1..n) : s # {} => Max(s) \in 1..n
    BY <1>2, GreatestOfSome
  <2> QED
    BY <1>4, <2>1, <2>2 DEF FoldsWithin
<1>7. n \in Nat /\ store \in V /\ step \in [1..n -> [V -> V]]
  BY <1>2, <1>3, <1>4
<1>8. PICK g : Recursion(g, n, V, store, step) /\ g[n] = F[1..n]
  BY ONLY <1>6, <1>7, FoldInOrder
<1>9. \A k \in 1..n : g[k] = next(g[k - 1], rows[k])
  <2>1. \A k \in 1..n : k - 1 \in 0..n
    BY <1>2
  <2> QED
    BY <1>4, <1>8, <2>1 DEF Recursion
<1> QED
  BY <1>1, <1>2, <1>8, <1>9 DEF Recursion, n, V, next

\* What it holds of the ONUs it updates row by row.
LEMMA KeptRows ==
  ASSUME NEW P, NEW St, NEW L, "unknown" \in L,
         NEW store \in StoresOf(St, L), NEW rows \in Seq(Samples(P, St, L))
  PROVE  \E g : /\ g \in [0..Len(rows) -> StoresOf(St, L)] /\ g[0] = store
                /\ \A k \in 1..Len(rows) : g[k] = KeepRow(g[k - 1], rows[k])
                /\ Kept(store, rows) = g[Len(rows)]
<1> DEFINE n == Len(rows)
           V == StoresOf(St, L)
           next(m, r) == KeepRow(m, r)
           step == [k \in 1..n |-> [m \in V |-> next(m, rows[k])]]
           F == CHOOSE f : f = [s \in SUBSET DOMAIN rows |->
                                  IF s = {} THEN store ELSE next(f[s \ {Max(s)}], rows[Max(s)])]
<1>1. Kept(store, rows) = F[DOMAIN rows]
  BY DEF Kept, FoldLeft, MapThenFoldSet
<1>2. n \in Nat /\ DOMAIN rows = 1..n /\ \A k \in 1..n : rows[k] \in Samples(P, St, L)
  OBVIOUS
<1>3. /\ store \in V
      /\ \A m \in V, r \in Samples(P, St, L) : next(m, r) \in V
  BY KeptRow
<1> HIDE DEF V, next, n
<1>4. step \in [1..n -> [V -> V]] /\ \A k \in 1..n, m \in V : step[k][m] = next(m, rows[k])
  BY <1>2, <1>3
<1> HIDE DEF step
<1>5. F = [s \in SUBSET (1..n) |-> IF s = {} THEN store ELSE next(F[s \ {Max(s)}], rows[Max(s)])]
  <2>1. PICK f : /\ f = [s \in SUBSET (1..n) |-> IF s = {} THEN store ELSE step[Max(s)][f[s \ {Max(s)}]]]
                 /\ \A s \in SUBSET (1..n) : f[s] \in V /\ (s # {} => Max(s) \in 1..n /\ s \ {Max(s)} \in SUBSET (1..n))
    BY <1>2, <1>3, <1>4, FoldOfSteps
  <2>2. \A s \in SUBSET (1..n) : f[s] = IF s = {} THEN store ELSE next(f[s \ {Max(s)}], rows[Max(s)])
    BY <1>4, <2>1
  <2>3. f = [s \in SUBSET (1..n) |-> IF s = {} THEN store ELSE next(f[s \ {Max(s)}], rows[Max(s)])]
    BY <2>1, <2>2
  <2> QED
    BY <1>2, <2>3
<1> HIDE DEF F
<1>6. FoldsWithin(F, n, V, store, step)
  <2>1. F[{}] = store /\ \A s \in SUBSET (1..n) : s # {} => F[s] = next(F[s \ {Max(s)}], rows[Max(s)])
    BY <1>5
  <2>2. \A s \in SUBSET (1..n) : s # {} => Max(s) \in 1..n
    BY <1>2, GreatestOfSome
  <2> QED
    BY <1>4, <2>1, <2>2 DEF FoldsWithin
<1>7. n \in Nat /\ store \in V /\ step \in [1..n -> [V -> V]]
  BY <1>2, <1>3, <1>4
<1>8. PICK g : Recursion(g, n, V, store, step) /\ g[n] = F[1..n]
  BY ONLY <1>6, <1>7, FoldInOrder
<1>9. \A k \in 1..n : g[k] = next(g[k - 1], rows[k])
  <2>1. \A k \in 1..n : k - 1 \in 0..n
    BY <1>2
  <2> QED
    BY <1>4, <1>8, <2>1 DEF Recursion
<1> QED
  BY <1>1, <1>2, <1>8, <1>9 DEF Recursion, n, V, next

\* Stores that hold the same of the ONUs hold the same after a row.
LEMMA KeptAlike ==
  ASSUME NEW P, NEW St, NEW L, "unknown" \in L,
         NEW a \in StoresOf(St, L), NEW b \in StoresOf(St, L), NEW r \in Samples(P, St, L),
         a.states = b.states, a.ports = b.ports
  PROVE  KeepRow(a, r).states = KeepRow(b, r).states /\ KeepRow(a, r).ports = KeepRow(b, r).ports
<1> DEFINE c == KeepRow(a, r)
           d == KeepRow(b, r)
<1>1. c \in StoresOf(St, L) /\ IsKept(c, a, r)
  BY KeptRow
<1>2. d \in StoresOf(St, L) /\ IsKept(d, b, r)
  BY KeptRow
<1> HIDE DEF c, d
<1>3. \A s \in Serials : c.states[s] = d.states[s] /\ c.ports[s] = d.ports[s]
  BY <1>1, <1>2 DEF IsKept
<1>4. /\ c.states \in [Serials -> Identities(St)] /\ d.states \in [Serials -> Identities(St)]
      /\ c.ports \in [Serials -> Tables(L)] /\ d.ports \in [Serials -> Tables(L)]
  BY <1>1, <1>2 DEF StoresOf
<1>5. c.states = d.states /\ c.ports = d.ports
  BY <1>3, <1>4
<1> QED
  BY <1>5 DEF c, d

\* The serial number is at most once in the batch.
Once(rows, s) == \A j, k \in DOMAIN rows : rows[j].serial = s /\ rows[k].serial = s => j = k

\* After a batch the stores hold the same of the ONUs, and the same logs of those that
\* the batch had once.
LEMMA BatchAgrees ==
  ASSUME NEW P, NEW St, NEW L, None \notin L, "unknown" \in L,
         NEW a \in StoresOf(St, L), NEW b \in StoresOf(St, L), NEW rows \in Seq(Samples(P, St, L)),
         a.states = b.states, a.ports = b.ports
  PROVE  LET c == MemoryRecord(a, rows)  d == TimescaleRecord(b, rows) IN
         /\ c \in StoresOf(St, L) /\ d \in StoresOf(St, L)
         /\ c.states = d.states /\ c.ports = d.ports
         /\ \A s \in Serials : Once(rows, s) =>
              /\ a.events[s] = b.events[s] => c.events[s] = d.events[s]
              /\ a.eth[s] = b.eth[s] => c.eth[s] = d.eth[s]
<1> DEFINE n == Len(rows)
           V == StoresOf(St, L)
           logged == Logged(b, rows)
<1>1. n \in Nat /\ DOMAIN rows = 1..n /\ \A k \in 1..n : rows[k] \in Samples(P, St, L)
  OBVIOUS
<1>2. PICK g : /\ g \in [0..n -> V] /\ g[0] = a
               /\ \A k \in 1..n : g[k] = KeepRow(LogRow(g[k - 1], g[k - 1], rows[k]), rows[k])
               /\ MemoryRecord(a, rows) = g[n]
  BY MemoryRows
<1>3. PICK l : /\ l \in [0..n -> V] /\ l[0] = b
               /\ \A k \in 1..n : l[k] = LogRow(l[k - 1], b, rows[k])
               /\ logged = l[n]
  BY LoggedRows
<1>4. TimescaleRecord(b, rows) = Kept(logged, rows)
  BY DEF TimescaleRecord, Kept, Logged
<1> HIDE DEF logged, n
<1>5. logged \in V
  BY <1>1, <1>3
<1>6. PICK h : /\ h \in [0..n -> V] /\ h[0] = logged
               /\ \A k \in 1..n : h[k] = KeepRow(h[k - 1], rows[k])
               /\ Kept(logged, rows) = h[n]
  BY <1>5, KeptRows DEF n
<1> DEFINE mid(k) == LogRow(g[k - 1], g[k - 1], rows[k])
<1>7. ASSUME NEW k \in 1..n
      PROVE  /\ g[k - 1] \in V /\ g[k] \in V /\ l[k - 1] \in V /\ l[k] \in V /\ h[k - 1] \in V /\ h[k] \in V
             /\ rows[k] \in Samples(P, St, L) /\ k - 1 \in 0..n /\ k \in 0..n
  <2>1. k - 1 \in 0..n /\ k \in 0..n
    BY <1>1
  <2> QED
    BY <1>1, <1>2, <1>3, <1>6, <2>1
<1>8. ASSUME NEW k \in 1..n
      PROVE  IsLogged(l[k], l[k - 1], b, rows[k])
  <2>1. l[k] = LogRow(l[k - 1], b, rows[k])
    BY <1>3
  <2> QED
    BY <1>7, <2>1, LoggedRow
<1>9. ASSUME NEW k \in 1..n
      PROVE  mid(k) \in V /\ IsLogged(mid(k), g[k - 1], g[k - 1], rows[k]) /\ IsKept(g[k], mid(k), rows[k])
  <2>1. mid(k) \in V /\ IsLogged(mid(k), g[k - 1], g[k - 1], rows[k])
    BY <1>7, LoggedRow
  <2>2. g[k] = KeepRow(mid(k), rows[k])
    BY <1>2
  <2> HIDE DEF mid
  <2> QED
    BY <1>7, <2>1, <2>2, KeptRow
<1>10. ASSUME NEW k \in 1..n
       PROVE  IsKept(h[k], h[k - 1], rows[k])
  <2>1. h[k] = KeepRow(h[k - 1], rows[k])
    BY <1>6
  <2> QED
    BY <1>7, <2>1, KeptRow
<1> HIDE DEF V
<1>11. \A k \in 0..n : l[k].states = b.states /\ l[k].ports = b.ports
  <2> DEFINE S == {k \in Nat : k <= n => l[k].states = b.states /\ l[k].ports = b.ports}
  <2>1. 0 \in S
    BY <1>3
  <2>2. ASSUME NEW k \in Nat, k \in S PROVE k + 1 \in S
    <3>1. k + 1 <= n => k + 1 \in 1..n /\ (k + 1) - 1 = k /\ k <= n
      BY <1>1, <2>2
    <3>2. k + 1 <= n => IsLogged(l[k + 1], l[k], b, rows[k + 1])
      BY <1>8, <3>1
    <3>3. k + 1 <= n => l[k + 1].states = b.states /\ l[k + 1].ports = b.ports
      BY <2>2, <3>1, <3>2 DEF IsLogged
    <3> QED
      BY <3>3
  <2>3. \A k \in Nat : k \in S
    <3> HIDE DEF S
    <3> QED
      BY <2>1, <2>2, Induction
  <2> QED
    BY <2>3
<1>12. \A k \in 0..n : h[k].events = logged.events /\ h[k].eth = logged.eth
  <2> DEFINE S == {k \in Nat : k <= n => h[k].events = logged.events /\ h[k].eth = logged.eth}
  <2>1. 0 \in S
    BY <1>6
  <2>2. ASSUME NEW k \in Nat, k \in S PROVE k + 1 \in S
    <3>1. k + 1 <= n => k + 1 \in 1..n /\ (k + 1) - 1 = k /\ k <= n
      BY <1>1, <2>2
    <3> QED
      BY <1>10, <2>2, <3>1 DEF IsKept
  <2>3. \A k \in Nat : k \in S
    <3> HIDE DEF S
    <3> QED
      BY <2>1, <2>2, Induction
  <2> QED
    BY <2>3
<1>13. \A k \in 0..n : g[k].states = h[k].states /\ g[k].ports = h[k].ports
  <2> DEFINE S == {k \in Nat : k <= n => g[k].states = h[k].states /\ g[k].ports = h[k].ports}
  <2>1. 0 \in S
    <3>1. n \in 0..n
      BY <1>1
    <3> QED
      BY <1>2, <1>3, <1>6, <1>11, <3>1
  <2>2. ASSUME NEW k \in Nat, k \in S, k + 1 <= n
        PROVE  g[k + 1].states = h[k + 1].states /\ g[k + 1].ports = h[k + 1].ports
    <3>1. k + 1 \in 1..n /\ (k + 1) - 1 = k /\ k <= n
      BY <1>1, <2>2
    <3>2. mid(k + 1) \in V /\ mid(k + 1).states = h[k].states /\ mid(k + 1).ports = h[k].ports
      BY <1>9, <2>2, <3>1 DEF IsLogged
    <3>3. /\ g[k + 1] = KeepRow(mid(k + 1), rows[k + 1]) /\ h[k + 1] = KeepRow(h[k], rows[k + 1])
          /\ h[k] \in V /\ rows[k + 1] \in Samples(P, St, L)
      BY <1>2, <1>6, <1>7, <3>1
    <3> HIDE DEF mid
    <3> QED
      BY <3>2, <3>3, KeptAlike DEF V
  <2>3. \A k \in Nat : k \in S
    <3>1. \A k \in Nat : k \in S => k + 1 \in S
      BY <2>2
    <3> HIDE DEF S
    <3> QED
      BY <2>1, <3>1, Induction
  <2> QED
    BY <2>3
<1> HIDE DEF mid
\* Up to the row of s the memory store still has what it held of s before the batch.
<1>14. ASSUME NEW s \in Serials, Once(rows, s)
       PROVE  \A k \in 0..n :
                /\ (\A j \in 1..k : rows[j].serial # s) => g[k].states[s] = b.states[s] /\ g[k].ports[s] = b.ports[s]
                /\ a.events[s] = b.events[s] => g[k].events[s] = l[k].events[s]
                /\ a.eth[s] = b.eth[s] => g[k].eth[s] = l[k].eth[s]
  <2> DEFINE Q(k) == (\A j \in 1..k : rows[j].serial # s) =>
                        g[k].states[s] = b.states[s] /\ g[k].ports[s] = b.ports[s]
             R(k) == /\ a.events[s] = b.events[s] => g[k].events[s] = l[k].events[s]
                     /\ a.eth[s] = b.eth[s] => g[k].eth[s] = l[k].eth[s]
             S == {k \in Nat : k <= n => Q(k) /\ R(k)}
  <2>1. 0 \in S
    BY <1>2, <1>3
  <2>2. ASSUME NEW i \in Nat, i <= n => Q(i) /\ R(i), i + 1 <= n
        PROVE  Q(i + 1) /\ R(i + 1)
    <3> DEFINE k == i + 1
    <3>1. k \in 1..n /\ k - 1 = i /\ i <= n
      BY <1>1, <2>2
    <3>2. Q(i) /\ R(i)
      BY <2>2, <3>1
    <3> HIDE DEF k
    <3>3. IsLogged(l[k], l[i], b, rows[k]) /\ IsLogged(mid(k), g[i], g[i], rows[k]) /\ IsKept(g[k], mid(k), rows[k])
      BY <1>8, <1>9, <3>1
    <3>4. g[k].events = mid(k).events /\ g[k].eth = mid(k).eth
      BY <3>3 DEF IsKept
    <3>5. CASE rows[k].serial # s
      <4>1. g[k].states[s] = g[i].states[s] /\ g[k].ports[s] = g[i].ports[s]
        BY <3>3, <3>5 DEF IsLogged, IsKept
      <4>2. /\ mid(k).events[s] = g[i].events[s] /\ mid(k).eth[s] = g[i].eth[s]
            /\ l[k].events[s] = l[i].events[s] /\ l[k].eth[s] = l[i].eth[s]
        BY <3>3, <3>5 DEF IsLogged
      <4>3. \A j \in 1..i : j \in 1..k
        BY <1>1, <3>1
      <4>4. Q(k)
        BY <3>2, <4>1, <4>3
      <4>5. R(k)
        BY <3>2, <3>4, <4>2
      <4> QED
        BY <4>4, <4>5 DEF k
    <3>6. CASE rows[k].serial = s
      <4>1. Q(k)
        <5>1. k \in 1..k
          BY <1>1, <3>1
        <5> QED
          BY <3>6, <5>1
      <4>2. \A j \in 1..i : rows[j].serial # s
        <5> SUFFICES ASSUME NEW j \in 1..i, rows[j].serial = s PROVE FALSE
          OBVIOUS
        <5>1. j \in DOMAIN rows /\ k \in DOMAIN rows /\ j # k
          BY <1>1, <3>1
        <5> QED
          BY <1>14, <3>6, <5>1 DEF Once
      <4>3. g[i].states[s] = b.states[s] /\ g[i].ports[s] = b.ports[s]
        BY <3>2, <4>2
      <4> DEFINE status == StatusEventsFrom(b.states[s].status, ApplyExpectedPorts(rows[k]), "poller")
                 link == EthEventsFrom(b.ports[s], ApplyExpectedPorts(rows[k]), "poller")
      <4>4. l[k].events[s] = l[i].events[s] \o status /\ l[k].eth[s] = l[i].eth[s] \o link
        BY <3>3, <3>6 DEF IsLogged
      <4>5. mid(k).events[s] = g[i].events[s] \o status /\ mid(k).eth[s] = g[i].eth[s] \o link
        BY <3>3, <3>6, <4>3 DEF IsLogged
      <4> HIDE DEF status, link, Q
      <4>6. R(k)
        BY <3>2, <3>4, <4>4, <4>5
      <4> QED
        BY <4>1, <4>6 DEF k
    <3> QED
      BY <3>5, <3>6
  <2>3. \A k \in Nat : k \in S
    <3>1. ASSUME NEW k \in Nat, k \in S PROVE k + 1 \in S
      <4>1. k <= n => Q(k) /\ R(k)
        BY <3>1
      <4>2. k + 1 <= n => Q(k + 1) /\ R(k + 1)
        BY <2>2, <4>1
      <4> HIDE DEF Q, R
      <4> QED
        BY <4>2
    <3> HIDE DEF S
    <3> QED
      BY <2>1, <3>1, Induction
  <2> HIDE DEF Q, R
  <2>4. \A k \in 0..n : Q(k) /\ R(k)
    BY <2>3
  <2> QED
    BY <2>4 DEF Q, R
<1>15. n \in 0..n /\ g[n] \in V /\ h[n] \in V
  BY <1>1, <1>2, <1>6
<1>16. /\ g[n].states = h[n].states /\ g[n].ports = h[n].ports
       /\ h[n].events = l[n].events /\ h[n].eth = l[n].eth
  BY <1>3, <1>12, <1>13, <1>15
<1>17. ASSUME NEW s \in Serials, Once(rows, s)
       PROVE  /\ a.events[s] = b.events[s] => g[n].events[s] = h[n].events[s]
              /\ a.eth[s] = b.eth[s] => g[n].eth[s] = h[n].eth[s]
  BY <1>14, <1>15, <1>16, <1>17
<1> QED
  BY <1>2, <1>4, <1>6, <1>15, <1>16, <1>17 DEF V

-----------------------------------------------------------------------------
(***************************************************************************)
(* Histories: calls of C, of which the polls record batches with one row   *)
(* for each position.                                                      *)
(***************************************************************************)
OnePerPosition(rows) == \A j, k \in DOMAIN rows : rows[j].pos = rows[k].pos => j = k

Record(C, P, St, L) ==
  \A c \in C : c.call = "poll" => c.rows \in Seq(Samples(P, St, L)) /\ OnePerPosition(c.rows)

HaveRows(C, P, St, L) == \A c \in C : c.rows \in Seq(Samples(P, St, L))

\* The polls of a history, all of them and nothing else.
LEMMA PollsAre ==
  ASSUME NEW C, NEW h \in Seq(C)
  PROVE  /\ Polls(h) \in Seq({c \in C : c.call = "poll"})
         /\ Polls(h) = Elements(h, {i \in DOMAIN h : h[i].call = "poll"})
         /\ \A k \in DOMAIN Polls(h) : \E i \in DOMAIN h : Polls(h)[k] = h[i]
         /\ \A i \in DOMAIN h : h[i].call = "poll" => \E k \in DOMAIN Polls(h) : Polls(h)[k] = h[i]
<1> DEFINE I == {i \in DOMAIN h : h[i].call = "poll"}
           polls == Elements(h, I)
           B == {c \in C : c.call = "poll"}
<1>1. Polls(h) = polls
  BY DEF Polls, Only
<1>2. I \in SUBSET DOMAIN h /\ \A i \in I : h[i] \in B
  OBVIOUS
<1> HIDE DEF B
<1>3. \A i \in DOMAIN h : h[i].call = "poll" => i \in I
  OBVIOUS
<1> HIDE DEF I, polls
<1>4. /\ polls \in Seq(C) /\ Len(polls) = Cardinality(I) /\ Cardinality(I) \in Nat
      /\ \A k \in 1..Cardinality(I) : Ranked(I)[k] \in I /\ polls[k] = h[Ranked(I)[k]]
      /\ \A i \in I : Rank(I, i) \in 1..Cardinality(I) /\ polls[Rank(I, i)] = h[i]
  BY <1>2, ElementsAre DEF polls
<1>5. DOMAIN polls = 1..Cardinality(I)
  BY <1>4
<1>6. \A k \in 1..Cardinality(I) : polls[k] \in B
  BY <1>2, <1>4
<1>7. polls \in Seq(B)
  BY <1>4, <1>5, <1>6
<1>8. \A k \in DOMAIN polls : \E i \in DOMAIN h : polls[k] = h[i]
  BY <1>2, <1>4, <1>5
<1>9. \A i \in DOMAIN h : h[i].call = "poll" => \E k \in DOMAIN polls : polls[k] = h[i]
  BY <1>3, <1>4, <1>5
<1> QED
  BY <1>1, <1>7, <1>8, <1>9 DEF polls, B, I

\* The memory store, poll by poll.
MemoryByPoll(h, polls, V) ==
  \E g : /\ g \in [0..Len(polls) -> V] /\ g[0] = Empty
         /\ \A k \in 1..Len(polls) : g[k] = MemoryRecord(g[k - 1], polls[k].rows)
         /\ Memory(h) = g[Len(polls)]

LEMMA MemoryPolls ==
  ASSUME NEW P, NEW St, NEW L, None \notin L, "unknown" \in L,
         NEW B, HaveRows(B, P, St, L),
         NEW h, NEW polls \in Seq(B), polls = Polls(h)
  PROVE  MemoryByPoll(h, polls, StoresOf(St, L))
<1> DEFINE n == Len(polls)
           V == StoresOf(St, L)
           next(m, c) == MemoryRecord(m, c.rows)
           step == [k \in 1..n |-> [m \in V |-> next(m, polls[k])]]
           F == CHOOSE f : f = [s \in SUBSET DOMAIN polls |->
                                  IF s = {} THEN Empty ELSE next(f[s \ {Max(s)}], polls[Max(s)])]
<1>1. Memory(h) = F[DOMAIN polls]
  BY DEF Memory, FoldLeft, MapThenFoldSet
<1>2. n \in Nat /\ DOMAIN polls = 1..n /\ \A k \in 1..n : polls[k] \in B
  OBVIOUS
<1>3. /\ Empty \in V
      /\ \A m \in V, c \in B : next(m, c) \in V
  BY EmptyType, BatchAgrees DEF HaveRows
<1> HIDE DEF V, next, n
<1>4. step \in [1..n -> [V -> V]] /\ \A k \in 1..n, m \in V : step[k][m] = next(m, polls[k])
  BY <1>2, <1>3
<1> HIDE DEF step
<1>5. F = [s \in SUBSET (1..n) |-> IF s = {} THEN Empty ELSE next(F[s \ {Max(s)}], polls[Max(s)])]
  <2>1. PICK f : /\ f = [s \in SUBSET (1..n) |-> IF s = {} THEN Empty ELSE step[Max(s)][f[s \ {Max(s)}]]]
                 /\ \A s \in SUBSET (1..n) : f[s] \in V /\ (s # {} => Max(s) \in 1..n /\ s \ {Max(s)} \in SUBSET (1..n))
    BY <1>2, <1>3, <1>4, FoldOfSteps
  <2>2. \A s \in SUBSET (1..n) : f[s] = IF s = {} THEN Empty ELSE next(f[s \ {Max(s)}], polls[Max(s)])
    BY <1>4, <2>1
  <2>3. f = [s \in SUBSET (1..n) |-> IF s = {} THEN Empty ELSE next(f[s \ {Max(s)}], polls[Max(s)])]
    BY <2>1, <2>2
  <2> QED
    BY <1>2, <2>3
<1> HIDE DEF F
<1>6. FoldsWithin(F, n, V, Empty, step)
  <2>1. F[{}] = Empty /\ \A s \in SUBSET (1..n) : s # {} => F[s] = next(F[s \ {Max(s)}], polls[Max(s)])
    BY <1>5
  <2>2. \A s \in SUBSET (1..n) : s # {} => Max(s) \in 1..n
    BY <1>2, GreatestOfSome
  <2> QED
    BY <1>4, <2>1, <2>2 DEF FoldsWithin
<1>7. n \in Nat /\ Empty \in V /\ step \in [1..n -> [V -> V]]
  BY <1>2, <1>3, <1>4
<1>8. PICK g : Recursion(g, n, V, Empty, step) /\ g[n] = F[1..n]
  BY ONLY <1>6, <1>7, FoldInOrder
<1>9. \A k \in 1..n : g[k] = next(g[k - 1], polls[k])
  <2>1. \A k \in 1..n : k - 1 \in 0..n
    BY <1>2
  <2> QED
    BY <1>4, <1>8, <2>1 DEF Recursion
<1> QED
  BY <1>1, <1>2, <1>8, <1>9 DEF MemoryByPoll, Recursion, n, V, next

\* The database, poll by poll.
TimescaleByPoll(h, polls, V) ==
  \E g : /\ g \in [0..Len(polls) -> V] /\ g[0] = Empty
         /\ \A k \in 1..Len(polls) : g[k] = TimescaleRecord(g[k - 1], polls[k].rows)
         /\ Timescale(h) = g[Len(polls)]

LEMMA TimescalePolls ==
  ASSUME NEW P, NEW St, NEW L, None \notin L, "unknown" \in L,
         NEW B, HaveRows(B, P, St, L),
         NEW h, NEW polls \in Seq(B), polls = Polls(h)
  PROVE  TimescaleByPoll(h, polls, StoresOf(St, L))
<1> DEFINE n == Len(polls)
           V == StoresOf(St, L)
           next(m, c) == TimescaleRecord(m, c.rows)
           step == [k \in 1..n |-> [m \in V |-> next(m, polls[k])]]
           F == CHOOSE f : f = [s \in SUBSET DOMAIN polls |->
                                  IF s = {} THEN Empty ELSE next(f[s \ {Max(s)}], polls[Max(s)])]
<1>1. Timescale(h) = F[DOMAIN polls]
  BY DEF Timescale, FoldLeft, MapThenFoldSet
<1>2. n \in Nat /\ DOMAIN polls = 1..n /\ \A k \in 1..n : polls[k] \in B
  OBVIOUS
<1>3. /\ Empty \in V
      /\ \A m \in V, c \in B : next(m, c) \in V
  BY EmptyType, BatchAgrees DEF HaveRows
<1> HIDE DEF V, next, n
<1>4. step \in [1..n -> [V -> V]] /\ \A k \in 1..n, m \in V : step[k][m] = next(m, polls[k])
  BY <1>2, <1>3
<1> HIDE DEF step
<1>5. F = [s \in SUBSET (1..n) |-> IF s = {} THEN Empty ELSE next(F[s \ {Max(s)}], polls[Max(s)])]
  <2>1. PICK f : /\ f = [s \in SUBSET (1..n) |-> IF s = {} THEN Empty ELSE step[Max(s)][f[s \ {Max(s)}]]]
                 /\ \A s \in SUBSET (1..n) : f[s] \in V /\ (s # {} => Max(s) \in 1..n /\ s \ {Max(s)} \in SUBSET (1..n))
    BY <1>2, <1>3, <1>4, FoldOfSteps
  <2>2. \A s \in SUBSET (1..n) : f[s] = IF s = {} THEN Empty ELSE next(f[s \ {Max(s)}], polls[Max(s)])
    BY <1>4, <2>1
  <2>3. f = [s \in SUBSET (1..n) |-> IF s = {} THEN Empty ELSE next(f[s \ {Max(s)}], polls[Max(s)])]
    BY <2>1, <2>2
  <2> QED
    BY <1>2, <2>3
<1> HIDE DEF F
<1>6. FoldsWithin(F, n, V, Empty, step)
  <2>1. F[{}] = Empty /\ \A s \in SUBSET (1..n) : s # {} => F[s] = next(F[s \ {Max(s)}], polls[Max(s)])
    BY <1>5
  <2>2. \A s \in SUBSET (1..n) : s # {} => Max(s) \in 1..n
    BY <1>2, GreatestOfSome
  <2> QED
    BY <1>4, <2>1, <2>2 DEF FoldsWithin
<1>7. n \in Nat /\ Empty \in V /\ step \in [1..n -> [V -> V]]
  BY <1>2, <1>3, <1>4
<1>8. PICK g : Recursion(g, n, V, Empty, step) /\ g[n] = F[1..n]
  BY ONLY <1>6, <1>7, FoldInOrder
<1>9. \A k \in 1..n : g[k] = next(g[k - 1], polls[k])
  <2>1. \A k \in 1..n : k - 1 \in 0..n
    BY <1>2
  <2> QED
    BY <1>4, <1>8, <2>1 DEF Recursion
<1> QED
  BY <1>1, <1>2, <1>8, <1>9 DEF TimescaleByPoll, Recursion, n, V, next

\* After any history the stores hold the same of the ONUs, and the same logs of those
\* that no batch had twice (RecordSampleTransitions, UpsertONUs).
THEOREM StoresHoldTheSame ==
  ASSUME NEW P, NEW St, NEW L, None \notin L, "unknown" \in L,
         NEW C, Record(C, P, St, L), NEW h \in Seq(C)
  PROVE  LET m == Memory(h)  d == Timescale(h) IN
         /\ m \in StoresOf(St, L) /\ d \in StoresOf(St, L)
         /\ m.states = d.states /\ m.ports = d.ports
         /\ \A s \in Serials : m.events[s] # d.events[s] \/ m.eth[s] # d.eth[s] =>
              \E i \in DOMAIN h : h[i].call = "poll" /\ ~Once(h[i].rows, s)
<1> DEFINE B == {c \in C : c.call = "poll"}
           polls == Polls(h)
           n == Len(polls)
           V == StoresOf(St, L)
<1>1. \A c \in B : c.rows \in Seq(Samples(P, St, L)) /\ c.call = "poll"
  BY DEF Record
<1>2. polls \in Seq(B) /\ \A k \in DOMAIN polls : \E i \in DOMAIN h : polls[k] = h[i]
  BY PollsAre
<1> HIDE DEF B, polls
<1>3. n \in Nat /\ DOMAIN polls = 1..n /\ \A k \in 1..n : polls[k] \in B
  BY <1>2
<1>4. PICK g : /\ g \in [0..n -> V] /\ g[0] = Empty
               /\ \A k \in 1..n : g[k] = MemoryRecord(g[k - 1], polls[k].rows)
               /\ Memory(h) = g[n]
  <2>1. HaveRows(B, P, St, L) /\ polls \in Seq(B) /\ polls = Polls(h)
    BY <1>1, <1>2 DEF polls, HaveRows
  <2>2. MemoryByPoll(h, polls, V)
    BY <2>1, MemoryPolls
  <2> QED
    BY <2>2 DEF MemoryByPoll
<1>5. PICK f : /\ f \in [0..n -> V] /\ f[0] = Empty
               /\ \A k \in 1..n : f[k] = TimescaleRecord(f[k - 1], polls[k].rows)
               /\ Timescale(h) = f[n]
  <2>1. HaveRows(B, P, St, L) /\ polls \in Seq(B) /\ polls = Polls(h)
    BY <1>1, <1>2 DEF polls, HaveRows
  <2>2. TimescaleByPoll(h, polls, V)
    BY <2>1, TimescalePolls
  <2> QED
    BY <2>2 DEF TimescaleByPoll
<1> HIDE DEF n
<1> DEFINE Same(k) == /\ g[k].states = f[k].states /\ g[k].ports = f[k].ports
                      /\ \A s \in Serials : (\A j \in 1..k : Once(polls[j].rows, s)) =>
                           g[k].events[s] = f[k].events[s] /\ g[k].eth[s] = f[k].eth[s]
           S == {k \in Nat : k <= n => Same(k)}
<1>6. Same(0)
  BY <1>4, <1>5
<1>7. ASSUME NEW i \in Nat, Same(i), i + 1 <= n
      PROVE  Same(i + 1)
  <2> DEFINE k == i + 1
  <2>1. k \in 1..n /\ k - 1 = i /\ i \in 0..n /\ \A j \in 1..i : j \in 1..k
    BY <1>3, <1>7
  <2>2. k \in 1..k
    OBVIOUS
  <2> HIDE DEF k
  <2> DEFINE rows == polls[k].rows
  <2>3. g[i] \in V /\ f[i] \in V /\ rows \in Seq(Samples(P, St, L))
    BY <1>1, <1>3, <1>4, <1>5, <2>1
  <2>4. g[k] = MemoryRecord(g[i], rows) /\ f[k] = TimescaleRecord(f[i], rows)
    BY <1>4, <1>5, <2>1
  <2> HIDE DEF rows
  <2>5. /\ g[k].states = f[k].states /\ g[k].ports = f[k].ports
        /\ \A s \in Serials : Once(rows, s) =>
             /\ g[i].events[s] = f[i].events[s] => g[k].events[s] = f[k].events[s]
             /\ g[i].eth[s] = f[i].eth[s] => g[k].eth[s] = f[k].eth[s]
    BY <1>7, <2>3, <2>4, BatchAgrees
  <2>6. ASSUME NEW s \in Serials, \A j \in 1..k : Once(polls[j].rows, s)
        PROVE  g[k].events[s] = f[k].events[s] /\ g[k].eth[s] = f[k].eth[s]
    <3>1. Once(rows, s) /\ \A j \in 1..i : Once(polls[j].rows, s)
      BY <2>1, <2>2, <2>6 DEF rows
    <3>2. g[i].events[s] = f[i].events[s] /\ g[i].eth[s] = f[i].eth[s]
      BY <1>7, <3>1
    <3> QED
      BY <2>5, <3>1, <3>2
  <2> QED
    BY <2>5, <2>6 DEF k
<1>8. Same(n)
  <2>1. 0 \in S
    BY <1>6
  <2>2. ASSUME NEW i \in Nat, i \in S PROVE i + 1 \in S
    <3>1. i + 1 <= n => i <= n
      BY <1>3
    <3> HIDE DEF Same
    <3>2. i + 1 <= n => Same(i + 1)
      BY <1>7, <2>2, <3>1
    <3> QED
      BY <3>2
  <2>3. \A i \in Nat : i \in S
    <3> HIDE DEF S
    <3> QED
      BY <2>1, <2>2, Induction
  <2> HIDE DEF Same
  <2>4. n \in S /\ n <= n
    BY <1>3, <2>3
  <2> QED
    BY <2>4
<1>9. ASSUME NEW s \in Serials, \A i \in DOMAIN h : h[i].call = "poll" => Once(h[i].rows, s)
      PROVE  \A j \in 1..n : Once(polls[j].rows, s)
  BY <1>1, <1>2, <1>3, <1>9
<1>10. g[n] \in V /\ f[n] \in V
  BY <1>3, <1>4, <1>5
<1> QED
  BY <1>4, <1>5, <1>8, <1>9, <1>10

-----------------------------------------------------------------------------
(***************************************************************************)
(* The log of the memory store.                                            *)
(***************************************************************************)
\* Every event goes on from the one before it, and the last one made the state.
LogMade(log, state) ==
  /\ \A k \in DOMAIN log : /\ log[k].previous = IF k = 1 THEN None ELSE log[k - 1].status
                           /\ log[k].status # log[k].previous
  /\ log = <<>> => state = NoState
  /\ log # <<>> => /\ state.status = log[Len(log)].status /\ state.previous = log[Len(log)].previous
                   /\ state.since = log[Len(log)].time

\* A sample that changes the status makes one event of it, and the state it shows.
LEMMA LogMadeNext ==
  ASSUME NEW St, None \notin St, NEW log \in Seq(StatusEvents(St)), NEW state \in Identities(St),
         LogMade(log, state),
         NEW x, x.serial # Blank, x.status \in St, x.time \in Nat \ {0}
  PROVE  LogMade(log \o StatusEventsFrom(state.status, x, "poller"), SeenState(state, x))
<1> DEFINE seen == SeenState(state, x)
           e == StatusEventFrom(state.status, x, "poller")
           new == log \o <<e>>
           n == Len(log)
<1>1. /\ seen.status = x.status
      /\ seen.previous = IF state.status # x.status THEN state.status ELSE state.previous
      /\ seen.since = IF state.status # x.status THEN x.time ELSE state.since
      /\ seen = [status |-> seen.status, previous |-> seen.previous, since |-> seen.since]
  BY DEF SeenState
<1>2. state = [status |-> state.status, previous |-> state.previous, since |-> state.since]
  BY DEF Identities
<1> HIDE DEF seen
<1>3. n \in Nat /\ DOMAIN log = 1..n
  OBVIOUS
<1>4. log = <<>> => n = 0 /\ state.status = None
  BY DEF LogMade, NoState
<1>5. log # <<>> => n # 0 /\ state.status = log[n].status
  BY DEF LogMade
<1>6. CASE state.status = x.status
  <2>1. StatusEventsFrom(state.status, x, "poller") = <<>>
    BY <1>6 DEF StatusEventsFrom, StatusChanged
  <2>2. log \o <<>> = log
    OBVIOUS
  <2>3. seen = state
    BY <1>1, <1>2, <1>6
  <2> QED
    BY <2>1, <2>2, <2>3 DEF seen
<1>7. CASE state.status # x.status
  <2>1. StatusEventsFrom(state.status, x, "poller") = <<e>>
    BY <1>7 DEF StatusEventsFrom, StatusChanged
  <2>2. e.time = x.time /\ e.status = x.status /\ e.previous = state.status /\ e \in StatusEvents(St)
    BY DEF StatusEventFrom, StatusEvents, Identities, Sources
  <2> HIDE DEF e, n
  <2>3. /\ new \in Seq(StatusEvents(St)) /\ Len(new) = n + 1 /\ DOMAIN new = 1..(n + 1)
        /\ new[n + 1] = e /\ \A k \in 1..n : new[k] = log[k]
    BY <1>3, <2>2 DEF n
  <2> HIDE DEF new
  <2>4. new # <<>>
    BY <1>3, <2>3
  <2>5. ASSUME NEW k \in DOMAIN new
        PROVE  /\ new[k].previous = IF k = 1 THEN None ELSE new[k - 1].status
               /\ new[k].status # new[k].previous
    <3>1. CASE k \in 1..n
      <4>1. k # 1 => k - 1 \in 1..n
        BY <1>3, <3>1
      <4> QED
        BY <1>3, <2>3, <3>1, <4>1 DEF LogMade
    <3>2. CASE k = n + 1
      <4>1. new[k] = e
        BY <2>3, <3>2
      <4>2. CASE log = <<>>
        BY <1>3, <1>4, <1>7, <2>2, <3>2, <4>1, <4>2
      <4>3. CASE log # <<>>
        <5>1. k # 1 /\ k - 1 = n /\ n \in 1..n
          BY <1>3, <1>5, <3>2, <4>3
        <5> QED
          BY <1>5, <1>7, <2>2, <2>3, <4>1, <4>3, <5>1
      <4> QED
        BY <4>2, <4>3
    <3> QED
      BY <1>3, <2>3, <3>1, <3>2
  <2>6. LogMade(new, seen)
    BY <1>1, <1>7, <2>2, <2>3, <2>4, <2>5 DEF LogMade
  <2> QED
    BY <2>1, <2>6 DEF seen, new
<1> QED
  BY <1>6, <1>7

LogsMade(m) == \A s \in Serials : LogMade(m.events[s], m.states[s])

\* A batch goes on with the logs, also of the serial numbers it has twice.
LEMMA BatchGoesOn ==
  ASSUME NEW P, NEW St, NEW L, None \notin L, "unknown" \in L, None \notin St,
         NEW store \in StoresOf(St, L), NEW rows \in Seq(Samples(P, St, L)), LogsMade(store)
  PROVE  MemoryRecord(store, rows) \in StoresOf(St, L) /\ LogsMade(MemoryRecord(store, rows))
<1> DEFINE n == Len(rows)
           V == StoresOf(St, L)
<1>1. n \in Nat /\ DOMAIN rows = 1..n /\ \A k \in 1..n : rows[k] \in Samples(P, St, L)
  OBVIOUS
<1>2. PICK g : /\ g \in [0..n -> V] /\ g[0] = store
               /\ \A k \in 1..n : g[k] = KeepRow(LogRow(g[k - 1], g[k - 1], rows[k]), rows[k])
               /\ MemoryRecord(store, rows) = g[n]
  BY MemoryRows
<1> HIDE DEF n
<1>3. ASSUME NEW m \in V, LogsMade(m), NEW r \in Samples(P, St, L)
      PROVE  LogsMade(KeepRow(LogRow(m, m, r), r))
  <2> DEFINE mid == LogRow(m, m, r)
             new == KeepRow(mid, r)
             x == ApplyExpectedPorts(r)
  <2>1. mid \in V /\ IsLogged(mid, m, m, r)
    BY LoggedRow
  <2> HIDE DEF mid
  <2>2. new \in V /\ IsKept(new, mid, r)
    BY <2>1, KeptRow
  <2>3. x.serial = r.serial /\ x.status \in St /\ x.time \in Nat \ {0}
    BY PaddedRow
  <2> HIDE DEF new, x
  <2>4. SUFFICES ASSUME NEW s \in Serials PROVE LogMade(new.events[s], new.states[s])
    BY DEF LogsMade, new, mid
  <2>5. /\ m.events[s] \in Seq(StatusEvents(St)) /\ m.states[s] \in Identities(St)
        /\ LogMade(m.events[s], m.states[s])
    BY <1>3 DEF LogsMade, StoresOf
  <2>6. CASE s # r.serial
    BY <2>1, <2>2, <2>5, <2>6 DEF IsLogged, IsKept
  <2>7. CASE s = r.serial
    <3>1. x.serial # Blank
      BY <2>3, <2>7, SerialsAssumption
    <3>2. LogMade(m.events[s] \o StatusEventsFrom(m.states[s].status, x, "poller"), SeenState(m.states[s], x))
      BY <2>3, <2>5, <3>1, LogMadeNext
    <3>3. new.events[s] = m.events[s] \o StatusEventsFrom(m.states[s].status, x, "poller")
      BY <2>1, <2>2, <2>7 DEF IsLogged, IsKept, x
    <3>4. new.states[s] = SeenState(m.states[s], x)
      BY <2>1, <2>2, <2>7 DEF IsLogged, IsKept, x
    <3> QED
      BY <3>2, <3>3, <3>4
  <2> QED
    BY <2>6, <2>7
<1> DEFINE S == {k \in Nat : k <= n => LogsMade(g[k])}
<1>4. 0 \in S
  BY <1>2
<1>5. ASSUME NEW k \in Nat, k \in S PROVE k + 1 \in S
  <2>1. k + 1 <= n => k + 1 \in 1..n /\ (k + 1) - 1 = k /\ k <= n /\ k \in 0..n
    BY <1>1
  <2>2. k + 1 <= n => g[k] \in V /\ LogsMade(g[k]) /\ rows[k + 1] \in Samples(P, St, L)
    BY <1>1, <1>2, <1>5, <2>1
  <2>3. k + 1 <= n => g[k + 1] = KeepRow(LogRow(g[k], g[k], rows[k + 1]), rows[k + 1])
    BY <1>2, <2>1
  <2> QED
    BY <1>3, <2>2, <2>3
<1>6. n \in S /\ n <= n
  <2>1. \A k \in Nat : k \in S
    <3> HIDE DEF S
    <3> QED
      BY <1>4, <1>5, Induction
  <2> QED
    BY <1>1, <2>1
<1>7. g[n] \in V
  BY <1>1, <1>2
<1> QED
  BY <1>2, <1>6, <1>7

\* After any history the memory store's log of every serial number is a chain of changes,
\* and its last event made the identity (deriveStatusEvents, UpsertONUs).
THEOREM MemoryLogsAreMade ==
  ASSUME NEW P, NEW St, NEW L, None \notin L, "unknown" \in L, None \notin St,
         NEW C, Record(C, P, St, L), NEW h \in Seq(C)
  PROVE  Memory(h) \in StoresOf(St, L) /\ LogsMade(Memory(h))
<1> DEFINE B == {c \in C : c.call = "poll"}
           polls == Polls(h)
           n == Len(polls)
           V == StoresOf(St, L)
<1>1. HaveRows(B, P, St, L)
  BY DEF Record, HaveRows
<1>2. polls \in Seq(B)
  BY PollsAre
<1> HIDE DEF B, polls
<1>3. n \in Nat /\ DOMAIN polls = 1..n /\ \A k \in 1..n : polls[k].rows \in Seq(Samples(P, St, L))
  BY <1>1, <1>2 DEF HaveRows
<1>4. PICK g : /\ g \in [0..n -> V] /\ g[0] = Empty
               /\ \A k \in 1..n : g[k] = MemoryRecord(g[k - 1], polls[k].rows)
               /\ Memory(h) = g[n]
  <2>1. MemoryByPoll(h, polls, V)
    BY <1>1, <1>2, MemoryPolls DEF polls
  <2> QED
    BY <2>1 DEF MemoryByPoll
<1> HIDE DEF n
<1> DEFINE S == {k \in Nat : k <= n => LogsMade(g[k])}
<1>5. 0 \in S
  <2>1. LogsMade(Empty)
    BY EmptyType DEF LogsMade, LogMade
  <2> QED
    BY <1>4, <2>1
<1>6. ASSUME NEW k \in Nat, k \in S PROVE k + 1 \in S
  <2>1. k + 1 <= n => k + 1 \in 1..n /\ (k + 1) - 1 = k /\ k <= n /\ k \in 0..n
    BY <1>3
  <2>2. k + 1 <= n => /\ g[k] \in V /\ LogsMade(g[k]) /\ polls[k + 1].rows \in Seq(Samples(P, St, L))
                      /\ g[k + 1] = MemoryRecord(g[k], polls[k + 1].rows)
    BY <1>3, <1>4, <1>6, <2>1
  <2> QED
    BY <2>2, BatchGoesOn
<1>7. n \in S /\ n <= n
  <2>1. \A k \in Nat : k \in S
    <3> HIDE DEF S
    <3> QED
      BY <1>5, <1>6, Induction
  <2> QED
    BY <1>3, <2>1
<1>8. g[n] \in V
  BY <1>3, <1>4
<1> QED
  BY <1>4, <1>7, <1>8

-----------------------------------------------------------------------------
(***************************************************************************)
(* Unconfigured ONUs X: a discovery that answers replaces the list, one    *)
(* that the OLT did not answer brings none.                                *)
(***************************************************************************)
UnauthLists(X) == [status : {"ok", "empty", "unsupported", "unavailable"}, serials : SUBSET X]

Asking(C, X) ==
  \A c \in C : c.call = "unauth" =>
    /\ c.status \in {"ok", "empty", "unsupported", "unavailable"} /\ c.serials \subseteq X
    /\ c.status \in {"unsupported", "unavailable"} => c.serials = {}

Answers(B, X) == \A c \in B : c.call = "unauth" /\ Asking(B, X)

\* Such a discovery changes both lists alike.
LEMMA ReplacedAlike ==
  ASSUME NEW X, NEW B, Answers(B, X), NEW list \in UnauthLists(X), NEW c \in B
  PROVE  /\ MemoryReplaceUnauth(list, c) \in UnauthLists(X)
         /\ TimescaleReplaceUnauth(list, c) = MemoryReplaceUnauth(list, c)
<1>1. /\ c.status \in {"ok", "empty", "unsupported", "unavailable"} /\ c.serials \subseteq X
      /\ c.status \in {"unsupported", "unavailable"} => c.serials = {}
  BY DEF Answers, Asking
<1>2. list.serials \subseteq X
  BY DEF UnauthLists
<1> DEFINE a == IF c.status \in {"unsupported", "unavailable"} /\ c.serials = {} THEN list.serials ELSE c.serials
           b == c.serials \cup (IF c.status \in {"ok", "empty"} THEN {} ELSE list.serials)
<1>3. a = b /\ a \in SUBSET X
  BY <1>1, <1>2
<1>4. /\ MemoryReplaceUnauth(list, c) = [status |-> c.status, serials |-> a]
      /\ TimescaleReplaceUnauth(list, c) = [status |-> c.status, serials |-> b]
  BY DEF MemoryReplaceUnauth, TimescaleReplaceUnauth
<1> HIDE DEF a, b
<1> QED
  BY <1>1, <1>3, <1>4 DEF UnauthLists

\* The list of the memory store, discovery by discovery.
MemoryByAnswer(h, asked, V) ==
  \E g : /\ g \in [0..Len(asked) -> V] /\ g[0] = NeverAsked
         /\ \A k \in 1..Len(asked) : g[k] = MemoryReplaceUnauth(g[k - 1], asked[k])
         /\ MemoryUnauth(h) = g[Len(asked)]

LEMMA MemoryLists ==
  ASSUME NEW X, NEW B, Answers(B, X), NEW h, NEW asked \in Seq(B), asked = Discoveries(h)
  PROVE  MemoryByAnswer(h, asked, UnauthLists(X))
<1> DEFINE n == Len(asked)
           V == UnauthLists(X)
           next(m, c) == MemoryReplaceUnauth(m, c)
           step == [k \in 1..n |-> [m \in V |-> next(m, asked[k])]]
           F == CHOOSE f : f = [s \in SUBSET DOMAIN asked |->
                                  IF s = {} THEN NeverAsked ELSE next(f[s \ {Max(s)}], asked[Max(s)])]
<1>1. MemoryUnauth(h) = F[DOMAIN asked]
  BY DEF MemoryUnauth, FoldLeft, MapThenFoldSet
<1>2. n \in Nat /\ DOMAIN asked = 1..n /\ \A k \in 1..n : asked[k] \in B
  OBVIOUS
<1>3. /\ NeverAsked \in V
      /\ \A m \in V, c \in B : next(m, c) \in V
  BY ReplacedAlike DEF NeverAsked, UnauthLists
<1> HIDE DEF V, next, n
<1>4. step \in [1..n -> [V -> V]] /\ \A k \in 1..n, m \in V : step[k][m] = next(m, asked[k])
  BY <1>2, <1>3
<1> HIDE DEF step
<1>5. F = [s \in SUBSET (1..n) |-> IF s = {} THEN NeverAsked ELSE next(F[s \ {Max(s)}], asked[Max(s)])]
  <2>1. PICK f : /\ f = [s \in SUBSET (1..n) |-> IF s = {} THEN NeverAsked ELSE step[Max(s)][f[s \ {Max(s)}]]]
                 /\ \A s \in SUBSET (1..n) : f[s] \in V /\ (s # {} => Max(s) \in 1..n /\ s \ {Max(s)} \in SUBSET (1..n))
    BY <1>2, <1>3, <1>4, FoldOfSteps
  <2>2. \A s \in SUBSET (1..n) : f[s] = IF s = {} THEN NeverAsked ELSE next(f[s \ {Max(s)}], asked[Max(s)])
    BY <1>4, <2>1
  <2>3. f = [s \in SUBSET (1..n) |-> IF s = {} THEN NeverAsked ELSE next(f[s \ {Max(s)}], asked[Max(s)])]
    BY <2>1, <2>2
  <2> QED
    BY <1>2, <2>3
<1> HIDE DEF F
<1>6. FoldsWithin(F, n, V, NeverAsked, step)
  <2>1. F[{}] = NeverAsked /\ \A s \in SUBSET (1..n) : s # {} => F[s] = next(F[s \ {Max(s)}], asked[Max(s)])
    BY <1>5
  <2>2. \A s \in SUBSET (1..n) : s # {} => Max(s) \in 1..n
    BY <1>2, GreatestOfSome
  <2> QED
    BY <1>4, <2>1, <2>2 DEF FoldsWithin
<1>7. n \in Nat /\ NeverAsked \in V /\ step \in [1..n -> [V -> V]]
  BY <1>2, <1>3, <1>4
<1>8. PICK g : Recursion(g, n, V, NeverAsked, step) /\ g[n] = F[1..n]
  BY ONLY <1>6, <1>7, FoldInOrder
<1>9. \A k \in 1..n : g[k] = next(g[k - 1], asked[k])
  <2>1. \A k \in 1..n : k - 1 \in 0..n
    BY <1>2
  <2> QED
    BY <1>4, <1>8, <2>1 DEF Recursion
<1> QED
  BY <1>1, <1>2, <1>8, <1>9 DEF MemoryByAnswer, Recursion, n, V, next

\* The list of the database, discovery by discovery.
TimescaleByAnswer(h, asked, V) ==
  \E g : /\ g \in [0..Len(asked) -> V] /\ g[0] = NeverAsked
         /\ \A k \in 1..Len(asked) : g[k] = TimescaleReplaceUnauth(g[k - 1], asked[k])
         /\ TimescaleUnauth(h) = g[Len(asked)]

LEMMA TimescaleLists ==
  ASSUME NEW X, NEW B, Answers(B, X), NEW h, NEW asked \in Seq(B), asked = Discoveries(h)
  PROVE  TimescaleByAnswer(h, asked, UnauthLists(X))
<1> DEFINE n == Len(asked)
           V == UnauthLists(X)
           next(m, c) == TimescaleReplaceUnauth(m, c)
           step == [k \in 1..n |-> [m \in V |-> next(m, asked[k])]]
           F == CHOOSE f : f = [s \in SUBSET DOMAIN asked |->
                                  IF s = {} THEN NeverAsked ELSE next(f[s \ {Max(s)}], asked[Max(s)])]
<1>1. TimescaleUnauth(h) = F[DOMAIN asked]
  BY DEF TimescaleUnauth, FoldLeft, MapThenFoldSet
<1>2. n \in Nat /\ DOMAIN asked = 1..n /\ \A k \in 1..n : asked[k] \in B
  OBVIOUS
<1>3. /\ NeverAsked \in V
      /\ \A m \in V, c \in B : next(m, c) \in V
  BY ReplacedAlike DEF NeverAsked, UnauthLists
<1> HIDE DEF V, next, n
<1>4. step \in [1..n -> [V -> V]] /\ \A k \in 1..n, m \in V : step[k][m] = next(m, asked[k])
  BY <1>2, <1>3
<1> HIDE DEF step
<1>5. F = [s \in SUBSET (1..n) |-> IF s = {} THEN NeverAsked ELSE next(F[s \ {Max(s)}], asked[Max(s)])]
  <2>1. PICK f : /\ f = [s \in SUBSET (1..n) |-> IF s = {} THEN NeverAsked ELSE step[Max(s)][f[s \ {Max(s)}]]]
                 /\ \A s \in SUBSET (1..n) : f[s] \in V /\ (s # {} => Max(s) \in 1..n /\ s \ {Max(s)} \in SUBSET (1..n))
    BY <1>2, <1>3, <1>4, FoldOfSteps
  <2>2. \A s \in SUBSET (1..n) : f[s] = IF s = {} THEN NeverAsked ELSE next(f[s \ {Max(s)}], asked[Max(s)])
    BY <1>4, <2>1
  <2>3. f = [s \in SUBSET (1..n) |-> IF s = {} THEN NeverAsked ELSE next(f[s \ {Max(s)}], asked[Max(s)])]
    BY <2>1, <2>2
  <2> QED
    BY <1>2, <2>3
<1> HIDE DEF F
<1>6. FoldsWithin(F, n, V, NeverAsked, step)
  <2>1. F[{}] = NeverAsked /\ \A s \in SUBSET (1..n) : s # {} => F[s] = next(F[s \ {Max(s)}], asked[Max(s)])
    BY <1>5
  <2>2. \A s \in SUBSET (1..n) : s # {} => Max(s) \in 1..n
    BY <1>2, GreatestOfSome
  <2> QED
    BY <1>4, <2>1, <2>2 DEF FoldsWithin
<1>7. n \in Nat /\ NeverAsked \in V /\ step \in [1..n -> [V -> V]]
  BY <1>2, <1>3, <1>4
<1>8. PICK g : Recursion(g, n, V, NeverAsked, step) /\ g[n] = F[1..n]
  BY ONLY <1>6, <1>7, FoldInOrder
<1>9. \A k \in 1..n : g[k] = next(g[k - 1], asked[k])
  <2>1. \A k \in 1..n : k - 1 \in 0..n
    BY <1>2
  <2> QED
    BY <1>4, <1>8, <2>1 DEF Recursion
<1> QED
  BY <1>1, <1>2, <1>8, <1>9 DEF TimescaleByAnswer, Recursion, n, V, next

\* After any discoveries the stores list the same unconfigured ONUs (ReplaceUnauth).
THEOREM StoresListTheSame ==
  ASSUME NEW X, NEW C, Asking(C, X), NEW h \in Seq(C)
  PROVE  MemoryUnauth(h) = TimescaleUnauth(h)
<1> DEFINE I == {i \in DOMAIN h : h[i].call = "unauth"}
           B == {c \in C : c.call = "unauth"}
           asked == Discoveries(h)
           n == Len(asked)
           V == UnauthLists(X)
<1>1. asked \in Seq(B)
  <2>1. asked = Elements(h, I)
    BY DEF Discoveries, Only
  <2>2. I \in SUBSET DOMAIN h /\ \A i \in I : h[i] \in B
    OBVIOUS
  <2> HIDE DEF I, asked, B
  <2>3. /\ asked \in Seq(C) /\ Len(asked) = Cardinality(I) /\ Cardinality(I) \in Nat
        /\ \A k \in 1..Cardinality(I) : Ranked(I)[k] \in I /\ asked[k] = h[Ranked(I)[k]]
    BY <2>1, <2>2, ElementsAre
  <2>4. \A k \in 1..Len(asked) : asked[k] \in B
    BY <2>2, <2>3
  <2> QED
    BY <2>3, <2>4
<1>2. Answers(B, X)
  BY DEF Answers, Asking
<1> HIDE DEF B, asked
<1>3. n \in Nat /\ \A k \in 1..n : asked[k] \in B
  BY <1>1
<1>4. PICK g : /\ g \in [0..n -> V] /\ g[0] = NeverAsked
               /\ \A k \in 1..n : g[k] = MemoryReplaceUnauth(g[k - 1], asked[k])
               /\ MemoryUnauth(h) = g[n]
  <2>1. MemoryByAnswer(h, asked, V)
    BY <1>1, <1>2, MemoryLists DEF asked
  <2> QED
    BY <2>1 DEF MemoryByAnswer
<1>5. PICK f : /\ f \in [0..n -> V] /\ f[0] = NeverAsked
               /\ \A k \in 1..n : f[k] = TimescaleReplaceUnauth(f[k - 1], asked[k])
               /\ TimescaleUnauth(h) = f[n]
  <2>1. TimescaleByAnswer(h, asked, V)
    BY <1>1, <1>2, TimescaleLists DEF asked
  <2> QED
    BY <2>1 DEF TimescaleByAnswer
<1> HIDE DEF n
<1> DEFINE S == {k \in Nat : k <= n => g[k] = f[k]}
<1>6. 0 \in S
  BY <1>4, <1>5
<1>7. ASSUME NEW k \in Nat, k \in S PROVE k + 1 \in S
  <2>1. k + 1 <= n => k + 1 \in 1..n /\ (k + 1) - 1 = k /\ k <= n /\ k \in 0..n
    BY <1>3
  <2>2. k + 1 <= n => /\ g[k] \in V /\ g[k] = f[k] /\ asked[k + 1] \in B
                      /\ g[k + 1] = MemoryReplaceUnauth(g[k], asked[k + 1])
                      /\ f[k + 1] = TimescaleReplaceUnauth(f[k], asked[k + 1])
    BY <1>3, <1>4, <1>5, <1>7, <2>1
  <2> QED
    BY <1>2, <2>2, ReplacedAlike
<1>8. n \in S /\ n <= n
  <2>1. \A k \in Nat : k \in S
    <3> HIDE DEF S
    <3> QED
      BY <1>6, <1>7, Induction
  <2> QED
    BY <1>3, <2>1
<1> QED
  BY <1>4, <1>5, <1>8

-----------------------------------------------------------------------------
(***************************************************************************)
(* The samples of a history.                                               *)
(***************************************************************************)
\* A sequence of sequences, flattened, has the elements of them and no other.
LEMMA FlattenMembers ==
  ASSUME NEW A, NEW seqs \in Seq(Seq(A))
  PROVE  /\ FlattenSeq(seqs) \in Seq(A)
         /\ \A i \in DOMAIN FlattenSeq(seqs) : \E k \in DOMAIN seqs : \E j \in DOMAIN seqs[k] :
              FlattenSeq(seqs)[i] = seqs[k][j]
         /\ \A k \in DOMAIN seqs : \A j \in DOMAIN seqs[k] : \E i \in DOMAIN FlattenSeq(seqs) :
              FlattenSeq(seqs)[i] = seqs[k][j]
<1> DEFINE n == Len(seqs)
           h == CHOOSE f : IsFlatten(seqs, f)
           From(s, m) == \A i \in DOMAIN s : \E k \in 1..m : \E j \in DOMAIN seqs[k] : s[i] = seqs[k][j]
           All(s, m) == \A k \in 1..m : \A j \in DOMAIN seqs[k] : \E i \in DOMAIN s : s[i] = seqs[k][j]
<1>1. n \in Nat /\ DOMAIN seqs = 1..n /\ \A k \in 1..n : seqs[k] \in Seq(A)
  OBVIOUS
<1>2. CASE n = 0
  <2>1. FlattenSeq(seqs) = seqs /\ seqs = <<>>
    BY <1>2 DEF FlattenSeq
  <2> QED
    BY <2>1
<1>3. CASE n # 0
  <2>1. FlattenSeq(seqs) = h[n]
    BY <1>3 DEF FlattenSeq, IsFlatten
  <2> HIDE DEF n
  <2>2. IsFlatten(seqs, h)
    <3> DEFINE V == Seq(A)
               step == [i \in 1..n |-> [v \in V |-> v \o seqs[i]]]
    <3>1. step \in [1..n -> [V -> V]] /\ \A i \in 1..n, v \in V : step[i][v] = v \o seqs[i]
      BY <1>1
    <3>2. <<>> \in V
      OBVIOUS
    <3> HIDE DEF V, step
    <3>3. PICK f : Recursion(f, n, V, <<>>, step)
      BY <1>1, <3>1, <3>2, RecursionExists
    <3>4. \A i \in 1..n : f[i] = f[i - 1] \o seqs[i] /\ f[i - 1] \in V
      <4>1. \A i \in 1..n : i - 1 \in 0..n
        BY <1>1
      <4> QED
        BY <3>1, <3>3, <4>1 DEF Recursion
    <3>5. f[0] = <<>> /\ \A i \in 1..n : i = 1 => i - 1 = 0
      BY <3>3 DEF Recursion
    <3>6. \A i \in 1..n : <<>> \o seqs[i] = seqs[i]
      BY <1>1
    <3> DEFINE g == [i \in 1..n |-> f[i]]
    <3>7. \A i \in 1..n : g[i] = IF i = 1 THEN seqs[i] ELSE g[i - 1] \o seqs[i]
      <4>1. \A i \in 1..n : i # 1 => i - 1 \in 1..n
        BY <1>1
      <4>2. \A i \in 1..n : g[i] = f[i]
        OBVIOUS
      <4> HIDE DEF g
      <4>3. ASSUME NEW i \in 1..n, i = 1 PROVE g[i] = seqs[i]
        <5>1. f[i - 1] = <<>> /\ f[i] = f[i - 1] \o seqs[i]
          BY <3>4, <3>5, <4>3
        <5> QED
          BY <3>6, <4>2, <5>1
      <4>4. ASSUME NEW i \in 1..n, i # 1 PROVE g[i] = g[i - 1] \o seqs[i]
        BY <3>4, <4>1, <4>2, <4>4
      <4> QED
        BY <4>3, <4>4
    <3>8. IsFlatten(seqs, g)
      <4>1. g = [i \in 1..n |-> g[i]]
        OBVIOUS
      <4> HIDE DEF g
      <4> QED
        BY <3>7, <4>1, Zenon DEF IsFlatten, n
    <3> QED
      BY <3>8
  <2> HIDE DEF h
  <2>3. \A i \in 1..n : h[i] = IF i = 1 THEN seqs[i] ELSE h[i - 1] \o seqs[i]
    BY <2>2 DEF IsFlatten, n
  <2> DEFINE S == {m \in Nat : m + 1 <= n => h[m + 1] \in Seq(A) /\ From(h[m + 1], m + 1) /\ All(h[m + 1], m + 1)}
  <2>4. 0 \in S
    <3>1. 1 \in 1..n /\ h[1] = seqs[1] /\ seqs[1] \in Seq(A)
      <4>1. 1 \in 1..n
        BY <1>1, <1>3
      <4> QED
        BY <1>1, <2>3, <4>1
    <3>2. \A k \in 1..1 : k = 1
      OBVIOUS
    <3>3. From(h[1], 1) /\ All(h[1], 1)
      BY <3>1, <3>2
    <3> HIDE DEF From, All
    <3> QED
      BY <3>1, <3>3
  <2>5. ASSUME NEW i \in Nat, i \in S, i + 2 <= n
        PROVE  h[i + 2] \in Seq(A) /\ From(h[i + 2], i + 2) /\ All(h[i + 2], i + 2)
    <3> DEFINE m == i + 1
               k == i + 2
               a == h[m]
               b == seqs[k]
               c == h[k]
    <3>1. m \in 1..n /\ k \in 1..n /\ k # 1 /\ k - 1 = m /\ k = m + 1 /\ m \in Nat
      BY <1>1, <2>5
    <3>2. a \in Seq(A) /\ From(a, m) /\ All(a, m)
      BY <1>1, <2>5
    <3> HIDE DEF m, k
    <3>3. c = a \o b /\ b \in Seq(A)
      BY <1>1, <2>3, <3>1
    <3>4. \A j \in 1..m : j \in 1..k
      BY <3>1
    <3>5. \A j \in 1..k : j \in 1..m \/ j = k
      BY <3>1
    <3> HIDE DEF a, b
    <3>6. /\ a \o b \in Seq(A) /\ DOMAIN (a \o b) = 1..(Len(a) + Len(b)) /\ Len(a) \in Nat /\ Len(b) \in Nat
          /\ DOMAIN a = 1..Len(a) /\ DOMAIN b = 1..Len(b)
          /\ \A j \in DOMAIN a : (a \o b)[j] = a[j] /\ j \in DOMAIN (a \o b)
          /\ \A j \in DOMAIN b : (a \o b)[Len(a) + j] = b[j] /\ Len(a) + j \in DOMAIN (a \o b)
      BY <3>2, <3>3
    <3>7. \A j \in DOMAIN (a \o b) : j \in DOMAIN a \/ (j - Len(a) \in DOMAIN b /\ j = Len(a) + (j - Len(a)))
      BY <3>6
    <3>8. From(a \o b, k)
      <4> SUFFICES ASSUME NEW j \in DOMAIN (a \o b)
                   PROVE  \E o \in 1..k : \E q \in DOMAIN seqs[o] : (a \o b)[j] = seqs[o][q]
        OBVIOUS
      <4>1. CASE j \in DOMAIN a
        BY <3>2, <3>4, <3>6, <4>1
      <4>2. ASSUME j - Len(a) \in DOMAIN b, j = Len(a) + (j - Len(a))
            PROVE  \E o \in 1..k : \E q \in DOMAIN seqs[o] : (a \o b)[j] = seqs[o][q]
        <5>1. (a \o b)[j] = b[j - Len(a)]
          BY <3>6, <4>2
        <5>2. k \in 1..k
          BY <3>1
        <5> QED
          BY <4>2, <5>1, <5>2 DEF b
      <4> QED
        BY <3>7, <4>1, <4>2
    <3>9. All(a \o b, k)
      <4> SUFFICES ASSUME NEW o \in 1..k, NEW q \in DOMAIN seqs[o]
                   PROVE  \E j \in DOMAIN (a \o b) : (a \o b)[j] = seqs[o][q]
        OBVIOUS
      <4>1. CASE o \in 1..m
        <5>1. PICK j \in DOMAIN a : a[j] = seqs[o][q]
          BY <3>2, <4>1
        <5> QED
          BY <3>6, <5>1
      <4>2. CASE o = k
        <5>1. q \in DOMAIN b /\ b[q] = seqs[o][q]
          BY <4>2 DEF b
        <5> QED
          BY <3>6, <5>1
      <4> QED
        BY <3>5, <4>1, <4>2
    <3> HIDE DEF From, All
    <3>10. c \in Seq(A) /\ From(c, k) /\ All(c, k)
      BY <3>3, <3>6, <3>8, <3>9
    <3> QED
      BY <3>10 DEF k
  <2> HIDE DEF From, All
  <2>6. \A m \in Nat : m \in S
    <3>1. ASSUME NEW i \in Nat, i \in S PROVE i + 1 \in S
      <4>1. (i + 1) + 1 = i + 2
        OBVIOUS
      <4>2. (i + 1) + 1 <= n => /\ h[(i + 1) + 1] \in Seq(A) /\ From(h[(i + 1) + 1], (i + 1) + 1)
                                /\ All(h[(i + 1) + 1], (i + 1) + 1)
        BY <2>5, <3>1, <4>1
      <4> QED
        BY <4>2
    <3> HIDE DEF S
    <3> QED
      BY <2>4, <3>1, Induction
  <2>7. n - 1 \in Nat /\ (n - 1) + 1 = n /\ n <= n
    BY <1>1, <1>3
  <2>8. h[n] \in Seq(A) /\ From(h[n], n) /\ All(h[n], n)
    <3>1. n - 1 \in S
      BY <2>6, <2>7
    <3> QED
      BY <2>7, <3>1
  <2> DEFINE s == h[n]
  <2>9. s \in Seq(A) /\ From(s, n) /\ All(s, n) /\ FlattenSeq(seqs) = s
    BY <2>1, <2>8
  <2> HIDE DEF s
  <2>10. /\ s \in Seq(A)
         /\ \A i \in DOMAIN s : \E k \in DOMAIN seqs : \E j \in DOMAIN seqs[k] : s[i] = seqs[k][j]
         /\ \A k \in DOMAIN seqs : \A j \in DOMAIN seqs[k] : \E i \in DOMAIN s : s[i] = seqs[k][j]
    <3>1. \A k : k \in DOMAIN seqs <=> k \in 1..n
      BY <1>1
    <3>2. \A i \in DOMAIN s : \E k \in 1..n : \E j \in DOMAIN seqs[k] : s[i] = seqs[k][j]
      BY <2>9 DEF From
    <3>3. \A k \in 1..n : \A j \in DOMAIN seqs[k] : \E i \in DOMAIN s : s[i] = seqs[k][j]
      BY <2>9 DEF All
    <3>4. \A i \in DOMAIN s : \E k \in DOMAIN seqs : \E j \in DOMAIN seqs[k] : s[i] = seqs[k][j]
      BY <3>1, <3>2, Zenon
    <3>5. \A k \in DOMAIN seqs : \A j \in DOMAIN seqs[k] : \E i \in DOMAIN s : s[i] = seqs[k][j]
      BY <3>1, <3>3, Zenon
    <3> QED
      BY <2>9, <3>4, <3>5
  <2> QED
    BY <2>9, <2>10, Zenon
<1> QED
  BY <1>2, <1>3

HaveBatches(C, R) == \A c \in C : c.call = "poll" => c.rows \in Seq(R)

\* The samples of a history are the rows of its polls.
AreSamples(samples, h, R) ==
  /\ samples \in Seq(R)
  /\ \A i \in DOMAIN samples : \E k \in DOMAIN h :
       h[k].call = "poll" /\ \E j \in DOMAIN h[k].rows : samples[i] = h[k].rows[j]
  /\ \A k \in DOMAIN h : h[k].call = "poll" =>
       \A j \in DOMAIN h[k].rows : \E i \in DOMAIN samples : samples[i] = h[k].rows[j]

LEMMA SamplesAre ==
  ASSUME NEW C, NEW R, NEW h \in Seq(C), HaveBatches(C, R)
  PROVE  AreSamples(SamplesOf(h), h, R)
<1> DEFINE B == {c \in C : c.call = "poll"}
           polls == Polls(h)
           batches == [i \in DOMAIN polls |-> polls[i].rows]
           samples == SamplesOf(h)
<1>1. \A c \in B : c.rows \in Seq(R) /\ c.call = "poll"
  BY DEF HaveBatches
<1>2. /\ polls \in Seq(B)
      /\ \A k \in DOMAIN polls : \E i \in DOMAIN h : polls[k] = h[i]
      /\ \A i \in DOMAIN h : h[i].call = "poll" => \E k \in DOMAIN polls : polls[k] = h[i]
  BY PollsAre
<1>3. samples = FlattenSeq(batches)
  BY DEF SamplesOf
<1> HIDE DEF B, polls
<1>4. /\ batches \in Seq(Seq(R)) /\ DOMAIN batches = DOMAIN polls
      /\ \A k \in DOMAIN polls : batches[k] = polls[k].rows /\ polls[k].call = "poll"
  <2>1. /\ Len(polls) \in Nat /\ DOMAIN polls = 1..Len(polls)
        /\ \A k \in DOMAIN polls : polls[k].rows \in Seq(R) /\ polls[k].call = "poll"
    BY <1>1, <1>2
  <2> QED
    BY <2>1
<1> HIDE DEF batches, samples
<1>5. /\ samples \in Seq(R)
      /\ \A i \in DOMAIN samples : \E k \in DOMAIN batches : \E j \in DOMAIN batches[k] : samples[i] = batches[k][j]
      /\ \A k \in DOMAIN batches : \A j \in DOMAIN batches[k] : \E i \in DOMAIN samples : samples[i] = batches[k][j]
  BY <1>3, <1>4, FlattenMembers
<1>6. ASSUME NEW i \in DOMAIN samples
      PROVE  \E k \in DOMAIN h : h[k].call = "poll" /\ \E j \in DOMAIN h[k].rows : samples[i] = h[k].rows[j]
  <2>1. PICK k \in DOMAIN batches : \E j \in DOMAIN batches[k] : samples[i] = batches[k][j]
    BY <1>5
  <2>2. PICK j \in DOMAIN batches[k] : samples[i] = batches[k][j]
    BY <2>1
  <2>3. k \in DOMAIN polls /\ batches[k] = polls[k].rows /\ polls[k].call = "poll"
    BY <1>4, <2>1
  <2>4. PICK o \in DOMAIN h : polls[k] = h[o]
    BY <1>2, <2>3
  <2> QED
    BY <2>2, <2>3, <2>4
<1>7. ASSUME NEW k \in DOMAIN h, h[k].call = "poll", NEW j \in DOMAIN h[k].rows
      PROVE  \E i \in DOMAIN samples : samples[i] = h[k].rows[j]
  <2>1. PICK o \in DOMAIN polls : polls[o] = h[k]
    BY <1>2, <1>7
  <2> QED
    BY <1>4, <1>5, <1>7, <2>1
<1> QED
  BY <1>5, <1>6, <1>7 DEF samples, AreSamples

-----------------------------------------------------------------------------
(***************************************************************************)
(* The report of duplicates.  A position of a serial number has one row in *)
(* it, so rows are counted by their positions.                             *)
(***************************************************************************)
LEMMA MoreThanOne ==
  ASSUME NEW S, IsFiniteSet(S)
  PROVE  Cardinality(S) \in Nat /\ (Cardinality(S) > 1 <=> \E a, b \in S : a # b)
<1>1. Cardinality(S) \in Nat
  BY FS_CardinalityType
<1>2. ASSUME NEW a \in S, NEW b \in S, a # b PROVE Cardinality(S) > 1
  <2>1. Cardinality({a}) = 1 /\ IsFiniteSet({a})
    BY FS_Singleton
  <2>2. Cardinality({a} \cup {b}) = Cardinality({a}) + 1
    <3>1. b \notin {a}
      BY <1>2
    <3> QED
      BY <2>1, <3>1, FS_AddElement
  <2>3. {a} \cup {b} \in SUBSET S
    OBVIOUS
  <2>4. Cardinality({a} \cup {b}) <= Cardinality(S)
    BY <2>3, FS_Subset
  <2> QED
    BY <1>1, <2>1, <2>2, <2>4
<1>3. ASSUME \A a, b \in S : a = b PROVE ~(Cardinality(S) > 1)
  <2>1. CASE S = {}
    BY <2>1, FS_EmptySet
  <2>2. CASE S # {}
    <3>1. PICK a \in S : TRUE
      BY <2>2
    <3>2. S = {a}
      BY <1>3, <3>1
    <3> QED
      BY <3>2, FS_Singleton
  <2> QED
    BY <2>1, <2>2
<1> QED
  BY <1>1, <1>2, <1>3

\* Where a serial number was seen, and where in a run.
Positions(rows, s) == {rows[i].pos : i \in {j \in DOMAIN rows : rows[j].serial = s}}

PositionsIn(rows, s, latest) ==
  {rows[i].pos : i \in {j \in DOMAIN rows : rows[j].serial = s /\ InLatestRun(rows[j].time, latest)}}

\* One row for a serial number and a position.
IsPositionRow(r, rows, latest) ==
  /\ \E n \in DOMAIN rows : r.serial = rows[n].serial /\ r.pos = rows[n].pos
  /\ r.inLatest <=> \E i \in DOMAIN rows : /\ rows[i].serial = r.serial /\ rows[i].pos = r.pos
                                           /\ InLatestRun(rows[i].time, latest)

LEMMA PositionRowsAre ==
  ASSUME NEW R, NEW rows \in Seq(R), NEW latest
  PROVE  LET T == PositionRows(rows, latest) IN
         /\ IsFiniteSet(T)
         /\ \A r \in T : IsPositionRow(r, rows, latest)
         /\ \A n \in DOMAIN rows : \E r \in T : r.serial = rows[n].serial /\ r.pos = rows[n].pos
         /\ \A r, q \in T : r.serial = q.serial /\ r.pos = q.pos => r = q
<1> DEFINE T == PositionRows(rows, latest)
           D == DOMAIN rows
           seen(n) == {i \in D : rows[i].serial = rows[n].serial /\ rows[i].pos = rows[n].pos}
           in(n) == \E i \in seen(n) : InLatestRun(rows[i].time, latest)
           row(n) == [serial |-> rows[n].serial, pos |-> rows[n].pos, samples |-> Cardinality(seen(n)),
                      lastSeen |-> rows[Max(seen(n))].time, status |-> rows[Max(seen(n))].status,
                      inLatest |-> in(n)]
           f == [n \in D |-> row(n)]
<1>1. T = {row(n) : n \in D}
  BY DEF PositionRows
<1>2. \A n \in D : /\ row(n).serial = rows[n].serial /\ row(n).pos = rows[n].pos
                   /\ row(n).inLatest = in(n)
  OBVIOUS
<1>3. \A n, m \in D : rows[n].serial = rows[m].serial /\ rows[n].pos = rows[m].pos => row(n) = row(m)
  <2> SUFFICES ASSUME NEW n \in D, NEW m \in D, rows[n].serial = rows[m].serial, rows[n].pos = rows[m].pos
               PROVE  row(n) = row(m)
    OBVIOUS
  <2>1. seen(n) = seen(m)
    OBVIOUS
  <2> HIDE DEF seen
  <2> QED
    BY <2>1
<1>4. \A n \in D : in(n) <=> \E i \in D : /\ rows[i].serial = rows[n].serial /\ rows[i].pos = rows[n].pos
                                         /\ InLatestRun(rows[i].time, latest)
  OBVIOUS
<1> HIDE DEF in, row, T
<1>5. IsFiniteSet(T)
  <2>1. f \in Surjection(D, T)
    BY <1>1 DEF Surjection
  <2>2. IsFiniteSet(D)
    BY FS_Interval
  <2> HIDE DEF D, f
  <2> QED
    BY <2>1, <2>2, FS_Surjection
<1> HIDE DEF D
<1>6. ASSUME NEW r \in T PROVE IsPositionRow(r, rows, latest)
  <2>1. PICK n \in D : r = row(n)
    BY <1>1
  <2>2. r.serial = rows[n].serial /\ r.pos = rows[n].pos /\ r.inLatest = in(n)
    BY <1>2, <2>1
  <2>3. r.inLatest <=> \E i \in D : /\ rows[i].serial = r.serial /\ rows[i].pos = r.pos
                                    /\ InLatestRun(rows[i].time, latest)
    BY <1>4, <2>2
  <2> QED
    BY <2>2, <2>3 DEF IsPositionRow, D
<1>7. \A n \in D : \E r \in T : r.serial = rows[n].serial /\ r.pos = rows[n].pos
  BY <1>1, <1>2
<1>8. \A r, q \in T : r.serial = q.serial /\ r.pos = q.pos => r = q
  BY <1>1, <1>2, <1>3
<1> QED
  BY <1>5, <1>6, <1>7, <1>8 DEF T, D

\* Rows of one serial number are as many as their positions.
LEMMA CountedByPosition ==
  ASSUME NEW U, IsFiniteSet(U), \A r, q \in U : r.pos = q.pos => r = q
  PROVE  IsFiniteSet({r.pos : r \in U}) /\ Cardinality(U) = Cardinality({r.pos : r \in U})
<1> DEFINE f == [r \in U |-> r.pos]
           X == {r.pos : r \in U}
<1>1. f \in Surjection(U, X) /\ f \in Injection(U, X)
  BY DEF Surjection, Injection, IsInjective
<1> HIDE DEF f, X
<1>2. IsFiniteSet(X) /\ Cardinality(X) = Cardinality(U)
  BY <1>1, FS_Surjection
<1> QED
  BY <1>2 DEF X

\* The elements at some of the indexes, in any order.
LEMMA ElementsHave ==
  ASSUME NEW A, NEW seq \in Seq(A), NEW I \in SUBSET DOMAIN seq
  PROVE  /\ Elements(seq, I) \in Seq(A)
         /\ \A k \in DOMAIN Elements(seq, I) : \E i \in I : Elements(seq, I)[k] = seq[i]
         /\ \A i \in I : \E k \in DOMAIN Elements(seq, I) : Elements(seq, I)[k] = seq[i]
<1> DEFINE picked == Elements(seq, I)
           m == Cardinality(I)
<1>1. /\ picked \in Seq(A) /\ Len(picked) = m /\ m \in Nat
      /\ \A k \in 1..m : Ranked(I)[k] \in I /\ picked[k] = seq[Ranked(I)[k]]
      /\ \A i \in I : Rank(I, i) \in 1..m /\ picked[Rank(I, i)] = seq[i]
  BY ElementsAre
<1> HIDE DEF picked, m
<1>2. DOMAIN picked = 1..m
  BY <1>1
<1> QED
  BY <1>1, <1>2 DEF picked

Of(T, s) == {r \in T : r.serial = s}

InLatest(T, s) == {r \in Of(T, s) : r.inLatest}

Item(T, s) == [serial |-> s, positions |-> Of(T, s), current |-> Cardinality(InLatest(T, s))]

\* Those of T that the report shows.
Shown(scope, T, s) ==
  IF scope = "current" THEN Cardinality(InLatest(T, s)) > 1 ELSE Cardinality(Of(T, s)) > 1

LEMMA Reported ==
  ASSUME NEW scope, NEW T, NEW d
  PROVE  /\ d \in AssembleDuplicateSerials(scope, T) <=>
              \E r \in T : d = Item(T, r.serial) /\ Shown(scope, T, r.serial)
         /\ \A s : Item(T, s).serial = s /\ Item(T, s).current = Cardinality(InLatest(T, s))
<1> DEFINE of(s) == {r \in T : r.serial = s}
           item(s) == [serial |-> s, positions |-> of(s),
                       current |-> Cardinality({r \in of(s) : r.inLatest})]
           shown(e) == IF scope = "current" THEN e.current > 1 ELSE Cardinality(e.positions) > 1
<1>1. AssembleDuplicateSerials(scope, T) = {e \in {item(r.serial) : r \in T} : shown(e)}
  BY DEF AssembleDuplicateSerials
<1>2. \A s : item(s) = Item(T, s)
  BY DEF Item, Of, InLatest
<1>3. \A s : shown(Item(T, s)) <=> Shown(scope, T, s)
  BY DEF Item, Shown
<1>4. \A s : Item(T, s).serial = s /\ Item(T, s).current = Cardinality(InLatest(T, s))
  BY DEF Item
<1> HIDE DEF item, shown
<1>5. d \in AssembleDuplicateSerials(scope, T) <=> \E r \in T : d = item(r.serial) /\ shown(d)
  BY <1>1
<1>6. (\E r \in T : d = item(r.serial) /\ shown(d)) <=> \E r \in T : d = Item(T, r.serial) /\ Shown(scope, T, r.serial)
  BY <1>2, <1>3
<1> QED
  BY <1>4, <1>5, <1>6

\* The rows of a serial number are as many as the positions it was seen at, in the latest
\* run as many as there.
LEMMA RowsOfSerial ==
  ASSUME NEW R, NEW rows \in Seq(R), NEW latest, NEW s
  PROVE  LET T == PositionRows(rows, latest) IN
         /\ IsFiniteSet(Of(T, s)) /\ IsFiniteSet(InLatest(T, s))
         /\ IsFiniteSet(Positions(rows, s)) /\ IsFiniteSet(PositionsIn(rows, s, latest))
         /\ Cardinality(Of(T, s)) = Cardinality(Positions(rows, s))
         /\ Cardinality(InLatest(T, s)) = Cardinality(PositionsIn(rows, s, latest))
<1> DEFINE T == PositionRows(rows, latest)
           all == Of(T, s)
           some == InLatest(T, s)
<1>1. /\ IsFiniteSet(T)
      /\ \A r \in T : IsPositionRow(r, rows, latest)
      /\ \A n \in DOMAIN rows : \E r \in T : r.serial = rows[n].serial /\ r.pos = rows[n].pos
      /\ \A r, q \in T : r.serial = q.serial /\ r.pos = q.pos => r = q
  BY PositionRowsAre
<1> HIDE DEF T
<1>2. \A r : /\ r \in all <=> r \in T /\ r.serial = s
             /\ r \in some <=> r \in T /\ r.serial = s /\ r.inLatest
  BY DEF Of, InLatest
<1> HIDE DEF all, some
<1>3. IsFiniteSet(all) /\ IsFiniteSet(some)
  <2>1. all \in SUBSET T /\ some \in SUBSET T
    BY <1>2
  <2> QED
    BY <1>1, <2>1, FS_Subset
<1>4. (\A r, q \in all : r.pos = q.pos => r = q) /\ \A r, q \in some : r.pos = q.pos => r = q
  BY <1>1, <1>2
<1>5. /\ IsFiniteSet({r.pos : r \in all}) /\ Cardinality(all) = Cardinality({r.pos : r \in all})
      /\ IsFiniteSet({r.pos : r \in some}) /\ Cardinality(some) = Cardinality({r.pos : r \in some})
  BY <1>3, <1>4, CountedByPosition
<1>6. {r.pos : r \in all} = Positions(rows, s)
  <2>1. ASSUME NEW r \in all PROVE r.pos \in Positions(rows, s)
    BY <1>1, <1>2, <2>1 DEF IsPositionRow, Positions
  <2>2. ASSUME NEW p \in Positions(rows, s) PROVE p \in {r.pos : r \in all}
    <3>1. PICK n \in DOMAIN rows : rows[n].serial = s /\ p = rows[n].pos
      BY DEF Positions
    <3>2. PICK r \in T : r.serial = rows[n].serial /\ r.pos = rows[n].pos
      BY <1>1
    <3> QED
      BY <1>2, <3>1, <3>2
  <2> QED
    BY <2>1, <2>2
<1>7. {r.pos : r \in some} = PositionsIn(rows, s, latest)
  <2>1. ASSUME NEW r \in some PROVE r.pos \in PositionsIn(rows, s, latest)
    <3>1. IsPositionRow(r, rows, latest) /\ r.serial = s /\ r.inLatest
      BY <1>1, <1>2
    <3>2. PICK i \in DOMAIN rows : rows[i].serial = s /\ rows[i].pos = r.pos /\ InLatestRun(rows[i].time, latest)
      BY <3>1 DEF IsPositionRow
    <3> QED
      BY <3>2 DEF PositionsIn
  <2>2. ASSUME NEW p \in PositionsIn(rows, s, latest) PROVE p \in {r.pos : r \in some}
    <3>1. PICK n \in DOMAIN rows : rows[n].serial = s /\ InLatestRun(rows[n].time, latest) /\ p = rows[n].pos
      BY DEF PositionsIn
    <3>2. PICK r \in T : r.serial = rows[n].serial /\ r.pos = rows[n].pos
      BY <1>1
    <3>3. r.inLatest
      BY <1>1, <3>1, <3>2 DEF IsPositionRow
    <3> QED
      BY <1>2, <3>1, <3>2, <3>3
  <2> QED
    BY <2>1, <2>2
<1> QED
  BY <1>3, <1>5, <1>6, <1>7 DEF T, all, some

\* Rows of a serial number that is shown are rows.
LEMMA ShownHasRow ==
  ASSUME NEW scope, NEW R, NEW rows \in Seq(R), NEW latest, NEW s,
         Shown(scope, PositionRows(rows, latest), s)
  PROVE  \E r \in PositionRows(rows, latest) : r.serial = s
<1> DEFINE T == PositionRows(rows, latest)
<1>1. Shown(scope, T, s)
  OBVIOUS
<1> HIDE DEF T
<1>2. ASSUME Of(T, s) = {} PROVE FALSE
  <2>1. Cardinality({}) = 0
    BY FS_EmptySet
  <2>2. InLatest(T, s) = {}
    BY <1>2 DEF InLatest
  <2>3. Cardinality(Of(T, s)) = 0 /\ Cardinality(InLatest(T, s)) = 0
    BY <1>2, <2>1, <2>2
  <2> QED
    BY <1>1, <2>3 DEF Shown
<1>3. \E r \in T : r.serial = s
  BY <1>2 DEF Of
<1> QED
  BY <1>3 DEF T

\* Only rows of a serial number that several show need to be read.
LEMMA SeveralSuffice ==
  ASSUME NEW T, NEW U, U = {r \in T : Cardinality(Of(T, r.serial)) > 1}
  PROVE  \A r \in T : r \in U => Item(U, r.serial) = Item(T, r.serial) /\ \A scope : Shown(scope, U, r.serial) <=> Shown(scope, T, r.serial)
<1> SUFFICES ASSUME NEW r \in T, r \in U
             PROVE  /\ Item(U, r.serial) = Item(T, r.serial)
                    /\ \A scope : Shown(scope, U, r.serial) <=> Shown(scope, T, r.serial)
  OBVIOUS
<1> DEFINE s == r.serial
<1>1. Cardinality(Of(T, s)) > 1
  OBVIOUS
<1>2. Of(U, s) = Of(T, s)
  <2>1. \A q \in T : q.serial = s => q \in U
    BY <1>1
  <2> QED
    BY <2>1 DEF Of
<1>3. InLatest(U, s) = InLatest(T, s)
  BY <1>2 DEF InLatest
<1> HIDE DEF s
<1>4. Item(U, s) = Item(T, s) /\ \A scope : Shown(scope, U, s) <=> Shown(scope, T, s)
  BY <1>2, <1>3 DEF Item, Shown
<1> QED
  BY <1>4 DEF s

\* Rows of a known serial number are all among those with a serial number.
LEMMA SerialRows ==
  ASSUME NEW R, \A r \in R : r.serial \in Serials \cup {Blank}, NEW rows \in Seq(R)
  PROVE  /\ WithSerial(rows) \in Seq(R)
         /\ \A k \in DOMAIN WithSerial(rows) : WithSerial(rows)[k].serial \in Serials
         /\ \A s \in Serials : Positions(WithSerial(rows), s) = Positions(rows, s)
         /\ \A s \in Serials : \A latest : PositionsIn(WithSerial(rows), s, latest) = PositionsIn(rows, s, latest)
<1> DEFINE I == {i \in DOMAIN rows : rows[i].serial # Blank}
           W == Elements(rows, I)
<1>1. WithSerial(rows) = W
  BY DEF WithSerial, Only
<1>2. I \in SUBSET DOMAIN rows /\ \A i \in DOMAIN rows : i \in I <=> rows[i].serial # Blank
  OBVIOUS
<1> HIDE DEF I, W
<1>3. /\ W \in Seq(R) /\ \A k \in DOMAIN W : \E i \in I : W[k] = rows[i]
      /\ \A i \in I : \E k \in DOMAIN W : W[k] = rows[i]
  BY <1>2, ElementsHave DEF W
<1>4. \A k \in DOMAIN W : W[k].serial \in Serials
  <2>1. \A i \in DOMAIN rows : rows[i].serial \in Serials \cup {Blank}
    OBVIOUS
  <2> QED
    BY <1>2, <1>3, <2>1
<1>5. ASSUME NEW s \in Serials
      PROVE  /\ \A k \in DOMAIN W : \E i \in DOMAIN rows : W[k] = rows[i]
             /\ \A i \in DOMAIN rows : rows[i].serial = s => \E k \in DOMAIN W : W[k] = rows[i]
  BY <1>2, <1>3, SerialsAssumption
<1>6. ASSUME NEW s \in Serials PROVE Positions(W, s) = Positions(rows, s)
  <2>1. ASSUME NEW p \in Positions(W, s) PROVE p \in Positions(rows, s)
    <3>1. PICK k \in DOMAIN W : W[k].serial = s /\ p = W[k].pos
      BY DEF Positions
    <3>2. PICK i \in DOMAIN rows : W[k] = rows[i]
      BY <1>5
    <3> QED
      BY <3>1, <3>2 DEF Positions
  <2>2. ASSUME NEW p \in Positions(rows, s) PROVE p \in Positions(W, s)
    <3>1. PICK i \in DOMAIN rows : rows[i].serial = s /\ p = rows[i].pos
      BY DEF Positions
    <3>2. PICK k \in DOMAIN W : W[k] = rows[i]
      BY <1>5, <3>1
    <3> QED
      BY <3>1, <3>2 DEF Positions
  <2> QED
    BY <2>1, <2>2
<1>7. ASSUME NEW s \in Serials, NEW latest PROVE PositionsIn(W, s, latest) = PositionsIn(rows, s, latest)
  <2>1. ASSUME NEW p \in PositionsIn(W, s, latest) PROVE p \in PositionsIn(rows, s, latest)
    <3>1. PICK k \in DOMAIN W : W[k].serial = s /\ InLatestRun(W[k].time, latest) /\ p = W[k].pos
      BY DEF PositionsIn
    <3>2. PICK i \in DOMAIN rows : W[k] = rows[i]
      BY <1>5
    <3> QED
      BY <3>1, <3>2 DEF PositionsIn
  <2>2. ASSUME NEW p \in PositionsIn(rows, s, latest) PROVE p \in PositionsIn(W, s, latest)
    <3>1. PICK i \in DOMAIN rows : rows[i].serial = s /\ InLatestRun(rows[i].time, latest) /\ p = rows[i].pos
      BY DEF PositionsIn
    <3>2. PICK k \in DOMAIN W : W[k] = rows[i]
      BY <1>5, <3>1
    <3> QED
      BY <3>1, <3>2 DEF PositionsIn
  <2> QED
    BY <2>1, <2>2
<1> QED
  BY <1>1, <1>3, <1>4, <1>6, <1>7

\* The serial numbers of the history's report are those that the samples show at two
\* positions, and the database reports what the memory store does
\* (BuildDuplicateSerials, Timescale.ListDuplicateSerials).
THEOREM DuplicatesOfHistory ==
  ASSUME NEW R, \A r \in R : r.serial \in Serials \cup {Blank}, NEW h, SamplesOf(h) \in Seq(R)
  PROVE  /\ TimescaleDuplicates(h, "history") = BuildDuplicateSerials(h, "history")
         /\ {d.serial : d \in TimescaleDuplicates(h, "history")}
              = {s \in Serials : Cardinality(Positions(SamplesOf(h), s)) > 1}
<1> DEFINE W == WithSerial(SamplesOf(h))
           latest == LatestFinishedRun(Runs(h))
           T == PositionRows(W, latest)
           U == {r \in T : Cardinality(Of(T, r.serial)) > 1}
           report == AssembleDuplicateSerials("history", T)
           part == AssembleDuplicateSerials("history", U)
<1>1. /\ W \in Seq(R) /\ \A k \in DOMAIN W : W[k].serial \in Serials
      /\ \A s \in Serials : Positions(W, s) = Positions(SamplesOf(h), s)
  BY SerialRows
<1>2. BuildDuplicateSerials(h, "history") = report
  BY DEF BuildDuplicateSerials
<1>3. TimescaleDuplicates(h, "history") = part
  <2>1. Only(W, LAMBDA x : "history" = "history" \/ InLatestRun(x.time, latest)) = Elements(W, DOMAIN W)
    BY DEF Only
  <2>2. Elements(W, DOMAIN W) = W
    BY <1>1, AllElements
  <2> HIDE DEF W, latest
  <2> QED
    BY <2>1, <2>2 DEF TimescaleDuplicates, Of, W, latest
<1> HIDE DEF latest, W
<1>4. /\ \A r \in T : IsPositionRow(r, W, latest)
      /\ \A s : /\ Cardinality(Of(T, s)) = Cardinality(Positions(W, s))
                /\ Shown("history", T, s) => \E r \in T : r.serial = s
  <2>1. \A r \in T : IsPositionRow(r, W, latest)
    BY <1>1, PositionRowsAre
  <2>2. ASSUME NEW s PROVE Cardinality(Of(T, s)) = Cardinality(Positions(W, s))
    BY <1>1, RowsOfSerial
  <2>3. ASSUME NEW s PROVE Shown("history", T, s) => \E r \in T : r.serial = s
    BY <1>1, ShownHasRow
  <2> QED
    BY <2>1, <2>2, <2>3
<1>5. \A r \in T : r.serial \in Serials
  BY <1>1, <1>4 DEF IsPositionRow
<1> HIDE DEF T
<1>6. /\ \A r \in T : r \in U <=> Shown("history", T, r.serial)
      /\ \A s : Shown("history", T, s) <=> Cardinality(Of(T, s)) > 1
  BY DEF Shown
<1>7. \A r \in T : r \in U => Item(U, r.serial) = Item(T, r.serial) /\ (Shown("history", U, r.serial) <=> Shown("history", T, r.serial))
  BY SeveralSuffice
<1>8. U \subseteq T
  OBVIOUS
<1> HIDE DEF U, report, part
<1>9. ASSUME NEW d PROVE d \in report <=> \E r \in T : d = Item(T, r.serial) /\ Shown("history", T, r.serial)
  BY Reported DEF report
<1>10. ASSUME NEW d PROVE d \in part <=> \E r \in U : d = Item(U, r.serial) /\ Shown("history", U, r.serial)
  BY Reported DEF part
<1>11. part = report
  BY <1>6, <1>7, <1>8, <1>9, <1>10
<1>12. {d.serial : d \in report} = {s \in Serials : Cardinality(Positions(SamplesOf(h), s)) > 1}
  <2>1. \A s : Item(T, s).serial = s
    BY Reported
  <2>2. ASSUME NEW d \in report
        PROVE  d.serial \in Serials /\ Cardinality(Positions(SamplesOf(h), d.serial)) > 1
    <3>1. PICK r \in T : d = Item(T, r.serial) /\ Shown("history", T, r.serial)
      BY <1>9
    <3>2. d.serial = r.serial /\ r.serial \in Serials
      BY <1>5, <2>1, <3>1
    <3>3. Cardinality(Of(T, r.serial)) > 1
      BY <1>6, <3>1
    <3> QED
      BY <1>1, <1>4, <3>2, <3>3
  <2>3. ASSUME NEW s \in Serials, Cardinality(Positions(SamplesOf(h), s)) > 1
        PROVE  \E d \in report : d.serial = s
    <3>1. Cardinality(Of(T, s)) > 1
      BY <1>1, <1>4, <2>3
    <3>2. Shown("history", T, s)
      BY <1>6, <3>1
    <3>3. PICK r \in T : r.serial = s
      BY <1>4, <3>2
    <3>4. Item(T, s) \in report
      BY <1>9, <3>2, <3>3
    <3> QED
      BY <2>1, <3>4
  <2> QED
    BY <2>2, <2>3
<1> QED
  BY <1>2, <1>3, <1>11, <1>12

\* The rows of a run.
InRun(rows, latest) == Elements(rows, {k \in DOMAIN rows : InLatestRun(rows[k].time, latest)})

\* The rows of the run alone show the same of it.
LEMMA RowsOfRun ==
  ASSUME NEW R, NEW rows \in Seq(R), NEW latest
  PROVE  LET in == InRun(rows, latest) IN
         /\ in \in Seq(R)
         /\ \A k \in DOMAIN in : \E i \in DOMAIN rows : in[k] = rows[i]
         /\ \A s : /\ Positions(in, s) = PositionsIn(rows, s, latest)
                   /\ PositionsIn(in, s, latest) = PositionsIn(rows, s, latest)
<1> DEFINE I == {k \in DOMAIN rows : InLatestRun(rows[k].time, latest)}
           in == Elements(rows, I)
<1>1. I \in SUBSET DOMAIN rows /\ \A i \in DOMAIN rows : i \in I <=> InLatestRun(rows[i].time, latest)
  OBVIOUS
<1> HIDE DEF I, in
<1>2. /\ in \in Seq(R) /\ \A k \in DOMAIN in : \E i \in I : in[k] = rows[i]
      /\ \A i \in I : \E k \in DOMAIN in : in[k] = rows[i]
  BY <1>1, ElementsHave DEF in
<1>3. /\ \A k \in DOMAIN in : \E i \in DOMAIN rows : in[k] = rows[i] /\ InLatestRun(in[k].time, latest)
      /\ \A i \in DOMAIN rows : InLatestRun(rows[i].time, latest) => \E k \in DOMAIN in : in[k] = rows[i]
  BY <1>1, <1>2
<1>4. ASSUME NEW s PROVE Positions(in, s) = PositionsIn(rows, s, latest)
  <2>1. ASSUME NEW p \in Positions(in, s) PROVE p \in PositionsIn(rows, s, latest)
    <3>1. PICK k \in DOMAIN in : in[k].serial = s /\ p = in[k].pos
      BY DEF Positions
    <3>2. PICK i \in DOMAIN rows : in[k] = rows[i] /\ InLatestRun(in[k].time, latest)
      BY <1>3
    <3> QED
      BY <3>1, <3>2 DEF PositionsIn
  <2>2. ASSUME NEW p \in PositionsIn(rows, s, latest) PROVE p \in Positions(in, s)
    <3>1. PICK i \in DOMAIN rows : rows[i].serial = s /\ InLatestRun(rows[i].time, latest) /\ p = rows[i].pos
      BY DEF PositionsIn
    <3>2. PICK k \in DOMAIN in : in[k] = rows[i]
      BY <1>3, <3>1
    <3> QED
      BY <3>1, <3>2 DEF Positions
  <2> QED
    BY <2>1, <2>2
<1>5. ASSUME NEW s PROVE PositionsIn(in, s, latest) = Positions(in, s)
  BY <1>3 DEF Positions, PositionsIn
<1> QED
  BY <1>2, <1>3, <1>4, <1>5 DEF in, I, InRun

\* What the report of the current run is to say of the samples.
CurrentOf(report, rows, latest) ==
  \A s, c : (\E d \in report : d.serial = s /\ d.current = c)
              <=> s \in Serials /\ c = Cardinality(PositionsIn(rows, s, latest)) /\ c > 1

LEMMA MemoryCurrent ==
  ASSUME NEW R, \A r \in R : r.serial \in Serials \cup {Blank}, NEW h, SamplesOf(h) \in Seq(R)
  PROVE  CurrentOf(BuildDuplicateSerials(h, "current"), SamplesOf(h), LatestFinishedRun(Runs(h)))
<1> DEFINE rows == SamplesOf(h)
           W == WithSerial(rows)
           latest == LatestFinishedRun(Runs(h))
           T == PositionRows(W, latest)
           report == AssembleDuplicateSerials("current", T)
<1>1. BuildDuplicateSerials(h, "current") = report
  BY DEF BuildDuplicateSerials
<1> HIDE DEF latest
<1>2. /\ W \in Seq(R) /\ \A k \in DOMAIN W : W[k].serial \in Serials
      /\ \A s \in Serials : PositionsIn(W, s, latest) = PositionsIn(rows, s, latest)
  BY SerialRows
<1> HIDE DEF W, rows
<1>3. \A r \in T : IsPositionRow(r, W, latest)
  BY <1>2, PositionRowsAre
<1>4. ASSUME NEW s PROVE Cardinality(InLatest(T, s)) = Cardinality(PositionsIn(W, s, latest))
  BY <1>2, RowsOfSerial
<1>5. ASSUME NEW s PROVE Shown("current", T, s) => \E r \in T : r.serial = s
  BY <1>2, ShownHasRow
<1>6. \A r \in T : r.serial \in Serials
  BY <1>2, <1>3 DEF IsPositionRow
<1> HIDE DEF T, report
<1>7. \A s : Shown("current", T, s) <=> Cardinality(InLatest(T, s)) > 1
  BY DEF Shown
<1>8. ASSUME NEW d PROVE d \in report <=> \E r \in T : d = Item(T, r.serial) /\ Shown("current", T, r.serial)
  BY Reported DEF report
<1>9. \A s : Item(T, s).serial = s /\ Item(T, s).current = Cardinality(InLatest(T, s))
  BY Reported
<1>10. ASSUME NEW s, NEW c, NEW d \in report, d.serial = s, d.current = c
       PROVE  s \in Serials /\ c = Cardinality(PositionsIn(rows, s, latest)) /\ c > 1
  <2>1. PICK r \in T : d = Item(T, r.serial) /\ Shown("current", T, r.serial)
    BY <1>8
  <2>2. r.serial = s /\ s \in Serials /\ c = Cardinality(InLatest(T, s)) /\ c > 1
    BY <1>6, <1>7, <1>9, <1>10, <2>1
  <2> QED
    BY <1>2, <1>4, <2>2
<1>11. ASSUME NEW s \in Serials, NEW c, c = Cardinality(PositionsIn(rows, s, latest)), c > 1
       PROVE  \E d \in report : d.serial = s /\ d.current = c
  <2>1. c = Cardinality(InLatest(T, s)) /\ Shown("current", T, s)
    BY <1>2, <1>4, <1>7, <1>11
  <2>2. PICK r \in T : r.serial = s
    BY <1>5, <2>1
  <2>3. Item(T, s) \in report
    BY <1>8, <2>1, <2>2
  <2> QED
    BY <1>9, <2>1, <2>3
<1>12. CurrentOf(report, rows, latest)
  BY <1>10, <1>11 DEF CurrentOf
<1> QED
  BY <1>1, <1>12 DEF rows, latest

LEMMA TimescaleCurrent ==
  ASSUME NEW R, \A r \in R : r.serial \in Serials \cup {Blank}, NEW h, SamplesOf(h) \in Seq(R)
  PROVE  CurrentOf(TimescaleDuplicates(h, "current"), SamplesOf(h), LatestFinishedRun(Runs(h)))
<1> DEFINE rows == SamplesOf(h)
           W == WithSerial(rows)
           latest == LatestFinishedRun(Runs(h))
           in == InRun(W, latest)
           T == PositionRows(in, latest)
           U == {r \in T : Cardinality(Of(T, r.serial)) > 1}
           report == TimescaleDuplicates(h, "current")
           part == AssembleDuplicateSerials("current", U)
<1>1. report = IF latest.id = 0 THEN {} ELSE part
  <2>1. Only(W, LAMBDA x : "current" = "history" \/ InLatestRun(x.time, latest)) = in
    BY DEF Only, InRun
  <2> HIDE DEF in, W, latest
  <2> QED
    BY <2>1 DEF TimescaleDuplicates, Of, W, latest
<1> HIDE DEF latest, report
<1>2. /\ W \in Seq(R) /\ \A k \in DOMAIN W : W[k].serial \in Serials
      /\ \A s \in Serials : PositionsIn(W, s, latest) = PositionsIn(rows, s, latest)
  BY SerialRows
<1> HIDE DEF W, rows
<1>3. CASE latest.id = 0
  <2>1. \A s : PositionsIn(rows, s, latest) = {}
    BY <1>3 DEF PositionsIn, InLatestRun
  <2>2. Cardinality({}) = 0
    BY FS_EmptySet
  <2>3. \A s : ~(Cardinality(PositionsIn(rows, s, latest)) > 1)
    <3>1. \A s : Cardinality(PositionsIn(rows, s, latest)) = 0
      BY <2>1, <2>2
    <3> QED
      BY <3>1
  <2>4. report = {}
    BY <1>1, <1>3
  <2>5. CurrentOf(report, rows, latest)
    BY <2>3, <2>4 DEF CurrentOf
  <2> QED
    BY <2>5 DEF report, rows, latest
<1>4. CASE latest.id # 0
  <2>1. /\ in \in Seq(R) /\ \A k \in DOMAIN in : \E i \in DOMAIN W : in[k] = W[i]
        /\ \A s : /\ Positions(in, s) = PositionsIn(W, s, latest)
                  /\ PositionsIn(in, s, latest) = PositionsIn(W, s, latest)
    BY <1>2, RowsOfRun
  <2> HIDE DEF in
  <2>2. \A r \in T : IsPositionRow(r, in, latest)
    BY <2>1, PositionRowsAre
  <2>3. ASSUME NEW s PROVE /\ Cardinality(InLatest(T, s)) = Cardinality(PositionsIn(in, s, latest))
                           /\ Cardinality(Of(T, s)) = Cardinality(Positions(in, s))
    BY <2>1, RowsOfSerial
  <2>4. ASSUME NEW s PROVE Shown("current", T, s) => \E r \in T : r.serial = s
    BY <2>1, ShownHasRow
  <2>5. \A r \in T : r.serial \in Serials
    BY <1>2, <2>1, <2>2 DEF IsPositionRow
  <2> HIDE DEF T
  <2>6. \A s : Shown("current", T, s) <=> Cardinality(InLatest(T, s)) > 1
    BY DEF Shown
  <2>7. \A s : Cardinality(InLatest(T, s)) = Cardinality(Of(T, s))
    BY <2>1, <2>3
  <2>8. U \subseteq T /\ \A r \in T : r \in U <=> Shown("current", T, r.serial)
    BY <2>6, <2>7
  <2>9. \A r \in T : r \in U => Item(U, r.serial) = Item(T, r.serial) /\ (Shown("current", U, r.serial) <=> Shown("current", T, r.serial))
    BY SeveralSuffice
  <2> HIDE DEF U, part
  <2>10. ASSUME NEW d PROVE d \in part <=> \E r \in U : d = Item(U, r.serial) /\ Shown("current", U, r.serial)
    BY Reported DEF part
  <2>11. ASSUME NEW d PROVE d \in part <=> \E r \in T : d = Item(T, r.serial) /\ Shown("current", T, r.serial)
    BY <2>8, <2>9, <2>10
  <2>12. \A s : Item(T, s).serial = s /\ Item(T, s).current = Cardinality(InLatest(T, s))
    BY Reported
  <2>13. ASSUME NEW s, NEW c, NEW d \in part, d.serial = s, d.current = c
         PROVE  s \in Serials /\ c = Cardinality(PositionsIn(rows, s, latest)) /\ c > 1
    <3>1. PICK r \in T : d = Item(T, r.serial) /\ Shown("current", T, r.serial)
      BY <2>11
    <3>2. r.serial = s /\ s \in Serials /\ c = Cardinality(InLatest(T, s)) /\ c > 1
      BY <2>5, <2>6, <2>12, <2>13, <3>1
    <3> QED
      BY <1>2, <2>1, <2>3, <3>2
  <2>14. ASSUME NEW s \in Serials, NEW c, c = Cardinality(PositionsIn(rows, s, latest)), c > 1
         PROVE  \E d \in part : d.serial = s /\ d.current = c
    <3>1. c = Cardinality(InLatest(T, s)) /\ Shown("current", T, s)
      BY <1>2, <2>1, <2>3, <2>6, <2>14
    <3>2. PICK r \in T : r.serial = s
      BY <2>4, <3>1
    <3>3. Item(T, s) \in part
      BY <2>11, <3>1, <3>2
    <3> QED
      BY <2>12, <3>1, <3>3
  <2>15. CurrentOf(part, rows, latest)
    BY <2>13, <2>14 DEF CurrentOf
  <2>16. report = part
    BY <1>1, <1>4
  <2> QED
    BY <2>15, <2>16 DEF report, rows, latest
<1> QED
  BY <1>3, <1>4

\* The serial numbers of the current run's report are those that the samples in the window
\* of the latest finished run show at two positions, in both stores with as many of them.
THEOREM DuplicatesOfRun ==
  ASSUME NEW R, \A r \in R : r.serial \in Serials \cup {Blank}, NEW h, SamplesOf(h) \in Seq(R)
  PROVE  /\ {<<d.serial, d.current>> : d \in TimescaleDuplicates(h, "current")}
              = {<<d.serial, d.current>> : d \in BuildDuplicateSerials(h, "current")}
         /\ {d.serial : d \in TimescaleDuplicates(h, "current")}
              = {s \in Serials : Cardinality(PositionsIn(SamplesOf(h), s, LatestFinishedRun(Runs(h)))) > 1}
<1> DEFINE a == TimescaleDuplicates(h, "current")
           b == BuildDuplicateSerials(h, "current")
           rows == SamplesOf(h)
           latest == LatestFinishedRun(Runs(h))
<1>1. CurrentOf(a, rows, latest) /\ CurrentOf(b, rows, latest)
  BY MemoryCurrent, TimescaleCurrent
<1> HIDE DEF a, b, rows, latest
<1>2. ASSUME NEW d \in a PROVE \E e \in b : <<d.serial, d.current>> = <<e.serial, e.current>>
  <2>1. \E e \in b : e.serial = d.serial /\ e.current = d.current
    <3> DEFINE s == d.serial
               c == d.current
    <3>1. \E e \in a : e.serial = s /\ e.current = c
      OBVIOUS
    <3> HIDE DEF s, c
    <3>2. \E e \in b : e.serial = s /\ e.current = c
      BY <1>1, <3>1 DEF CurrentOf
    <3> QED
      BY <3>2 DEF s, c
  <2> QED
    BY <2>1
<1>3. ASSUME NEW d \in b PROVE \E e \in a : <<d.serial, d.current>> = <<e.serial, e.current>>
  <2>1. \E e \in a : e.serial = d.serial /\ e.current = d.current
    <3> DEFINE s == d.serial
               c == d.current
    <3>1. \E e \in b : e.serial = s /\ e.current = c
      OBVIOUS
    <3> HIDE DEF s, c
    <3>2. \E e \in a : e.serial = s /\ e.current = c
      BY <1>1, <3>1 DEF CurrentOf
    <3> QED
      BY <3>2 DEF s, c
  <2> QED
    BY <2>1
<1>4. {<<d.serial, d.current>> : d \in a} = {<<d.serial, d.current>> : d \in b}
  BY <1>2, <1>3
<1>5. {d.serial : d \in a} = {s \in Serials : Cardinality(PositionsIn(rows, s, latest)) > 1}
  <2>1. ASSUME NEW d \in a
        PROVE  d.serial \in Serials /\ Cardinality(PositionsIn(rows, d.serial, latest)) > 1
    <3> DEFINE s == d.serial
               c == d.current
    <3>1. \E e \in a : e.serial = s /\ e.current = c
      OBVIOUS
    <3> HIDE DEF s, c
    <3>2. s \in Serials /\ c = Cardinality(PositionsIn(rows, s, latest)) /\ c > 1
      BY <1>1, <3>1, Zenon DEF CurrentOf
    <3>3. s \in Serials /\ Cardinality(PositionsIn(rows, s, latest)) > 1
      BY <3>2
    <3> QED
      BY <3>3 DEF s
  <2>2. ASSUME NEW s \in Serials, Cardinality(PositionsIn(rows, s, latest)) > 1
        PROVE  \E d \in a : d.serial = s
    BY <1>1, <2>2 DEF CurrentOf
  <2> QED
    BY <2>1, <2>2
<1> QED
  BY <1>4, <1>5 DEF a, b, rows, latest

-----------------------------------------------------------------------------
(***************************************************************************)
(* The stores agree, on the histories of module HistoryInputs.             *)
(***************************************************************************)
LogRows ==
  {rows \in Seq(Samples({1, 2}, {"online", "offline"}, {"up", "unknown"})) : OnePerPosition(rows)}

LogCalls == [call : {"poll"}, time : Nat, rows : LogRows]

UnauthCalls ==
  [call : {"unauth"}, status : {"ok"}, serials : SUBSET Candidates]
    \cup [call : {"unauth"}, status : {"unsupported", "unavailable"}, serials : {{}}]

LogInv == kind = "log" => value \in Seq(LogCalls)

UnauthInv == kind = "unauth" => value \in Seq(UnauthCalls)

\* A serial number twice in a batch is a duplicate, of the batch and of the samples.
LEMMA TwiceIsDuplicate ==
  ASSUME NEW R, \A r \in R : r.serial \in Serials \cup {Blank}, NEW C, NEW h \in Seq(C),
         \A c \in C : c.call = "poll" => c.rows \in Seq(R) /\ OnePerPosition(c.rows),
         NEW s \in Serials, NEW i \in DOMAIN h, h[i].call = "poll", ~Once(h[i].rows, s)
  PROVE  s \in Repeated(h) /\ s \in {r.serial : r \in TimescaleDuplicates(h, "history")}
<1> DEFINE rows == h[i].rows
           D == DOMAIN rows
           K == {k \in D : rows[k].serial = s}
           samples == SamplesOf(h)
           P == Positions(samples, s)
<1>1. rows \in Seq(R) /\ OnePerPosition(rows)
  OBVIOUS
<1>2. IsFiniteSet(D)
  <2>1. D = 1..Len(rows) /\ Len(rows) \in Nat
    BY <1>1
  <2> HIDE DEF D, rows
  <2> QED
    BY <2>1, FS_Interval
<1>3. PICK j \in D, k \in D : rows[j].serial = s /\ rows[k].serial = s /\ j # k
  BY DEF Once
<1>4. rows[j].pos # rows[k].pos
  BY <1>1, <1>3 DEF OnePerPosition
<1>5. s \in Repeated(h)
  <2>1. K \in SUBSET D /\ j \in K /\ k \in K
    BY <1>3
  <2>2. Cardinality(K) > 1
    <3> HIDE DEF K, D
    <3> QED
      BY <1>2, <1>3, <2>1, FS_Subset, MoreThanOne
  <2> QED
    BY <2>2 DEF Repeated
<1>6. /\ samples \in Seq(R)
      /\ \E a \in DOMAIN samples : samples[a] = rows[j]
      /\ \E b \in DOMAIN samples : samples[b] = rows[k]
  <2>1. HaveBatches(C, R)
    BY DEF HaveBatches
  <2>2. AreSamples(samples, h, R)
    BY <2>1, SamplesAre
  <2> HIDE DEF samples
  <2> QED
    BY <2>2 DEF AreSamples
<1> HIDE DEF rows, samples
<1>7. rows[j].pos \in P /\ rows[k].pos \in P
  BY <1>3, <1>6 DEF Positions
<1>8. IsFiniteSet(P)
  BY <1>6, RowsOfSerial
<1>9. Cardinality(P) > 1
  BY <1>4, <1>7, <1>8, MoreThanOne
<1>10. {r.serial : r \in TimescaleDuplicates(h, "history")} = {z \in Serials : Cardinality(Positions(samples, z)) > 1}
  BY <1>6, DuplicatesOfHistory DEF samples
<1> QED
  BY <1>5, <1>9, <1>10

\* Whatever was recorded, the memory store's log of a serial number chains and ends in
\* what the identity shows.
LEMMA ChainsOfLogs ==
  ASSUME NEW m, LogsMade(m), NEW s \in Serials
  PROVE  LET log == m.events[s]  state == m.states[s] IN
         /\ \A k \in DOMAIN log : /\ log[k].previous = IF k = 1 THEN None ELSE log[k - 1].status
                                  /\ log[k].status # log[k].previous
         /\ state # NoState => /\ log # <<>> /\ Last(log).status = state.status
                               /\ Last(log).time = state.since /\ Last(log).previous = state.previous
<1> DEFINE log == m.events[s]
           state == m.states[s]
<1>1. LogMade(log, state)
  BY DEF LogsMade
<1> HIDE DEF log, state
<1>2. /\ \A k \in DOMAIN log : /\ log[k].previous = IF k = 1 THEN None ELSE log[k - 1].status
                               /\ log[k].status # log[k].previous
      /\ state # NoState => /\ log # <<>> /\ Last(log).status = state.status
                            /\ Last(log).time = state.since /\ Last(log).previous = state.previous
  BY <1>1 DEF LogMade, Last
<1> QED
  BY <1>2 DEF log, state

\* The two stores agree after any history (RecordSampleTransitions, UpsertONUs,
\* ReplaceUnauth).
THEOREM StoresAgreeInv ==
  LogInv /\ UnauthInv => StoresAgree
<1> SUFFICES ASSUME LogInv, UnauthInv PROVE StoresAgree
  OBVIOUS
<1> DEFINE St == {"online", "offline"}
           L == {"up", "unknown"}
           R == Samples({1, 2}, St, L)
           m == Memory(value)
           d == Timescale(value)
<1>1. None \notin L /\ "unknown" \in L /\ None \notin St
  BY DEF None
<1>2. Record(LogCalls, {1, 2}, St, L) /\ \A c \in LogCalls : c.rows \in Seq(R) /\ OnePerPosition(c.rows)
  BY DEF Record, LogCalls, LogRows
<1>3. \A r \in R : r.serial \in Serials \cup {Blank}
  BY DEF Samples
<1> HIDE DEF St, L, R
<1>4. CASE kind = "log"
  <2>1. value \in Seq(LogCalls)
    BY <1>4 DEF LogInv
  <2>2. /\ m.states = d.states /\ m.ports = d.ports
        /\ \A s \in Serials : m.events[s] # d.events[s] \/ m.eth[s] # d.eth[s] =>
             \E i \in DOMAIN value : value[i].call = "poll" /\ ~Once(value[i].rows, s)
    BY <1>1, <1>2, <2>1, StoresHoldTheSame
  <2>3. LogsMade(m)
    BY <1>1, <1>2, <2>1, MemoryLogsAreMade
  <2> HIDE DEF m, d
  <2>4. ASSUME NEW s \in Serials, m.events[s] # d.events[s] \/ m.eth[s] # d.eth[s]
        PROVE  s \in Repeated(value) /\ s \in {r.serial : r \in TimescaleDuplicates(value, "history")}
    <3>1. PICK i \in DOMAIN value : value[i].call = "poll" /\ ~Once(value[i].rows, s)
      BY <2>2, <2>4
    <3> QED
      BY <1>2, <1>3, <2>1, <3>1, TwiceIsDuplicate DEF R
  <2>5. MemoryLogChains
    BY <2>3, ChainsOfLogs DEF MemoryLogChains, m
  <2>6. kind # "unauth"
    BY <1>4
  <2> QED
    BY <2>2, <2>4, <2>5, <2>6 DEF StoresAgree, m, d
<1>5. CASE kind = "unauth"
  <2>1. value \in Seq(UnauthCalls)
    BY <1>5 DEF UnauthInv
  <2>2. Asking(UnauthCalls, Candidates)
    BY DEF Asking, UnauthCalls
  <2>3. MemoryUnauth(value) = TimescaleUnauth(value)
    BY <2>1, <2>2, StoresListTheSame
  <2>4. kind # "log"
    BY <1>5
  <2> QED
    BY <2>3, <2>4 DEF StoresAgree, MemoryLogChains
<1>6. CASE kind # "log" /\ kind # "unauth"
  BY <1>6 DEF StoresAgree, MemoryLogChains
<1> QED
  BY <1>4, <1>5, <1>6

-----------------------------------------------------------------------------
(***************************************************************************)
(* Collection runs.                                                        *)
(***************************************************************************)
RunRecords == [id : Nat, started : Nat, finished : Nat]

Timed(C) == \A c \in C : c.time \in Nat

\* What a call does to the runs.
LEMMA RunStepIs ==
  ASSUME NEW runs \in Seq(RunRecords), NEW c, c.time \in Nat
  PROVE  LET new == RunStep(runs, c)  n == Len(runs) IN
         /\ new \in Seq(RunRecords)
         /\ c.call = "start" => /\ Len(new) = n + 1 /\ \A k \in 1..n : new[k] = runs[k]
                                /\ new[n + 1].id = n + 1 /\ new[n + 1].started = c.time
                                /\ new[n + 1].finished = 0
         /\ c.call = "finish" => /\ Len(new) = n /\ \A k \in 1..n : k # n => new[k] = runs[k]
                                 /\ n # 0 => /\ new[n].id = runs[n].id /\ new[n].started = runs[n].started
                                             /\ new[n].finished = c.time
         /\ c.call \notin {"start", "finish"} => new = runs
<1> DEFINE n == Len(runs)
           new == RunStep(runs, c)
<1>1. n \in Nat /\ DOMAIN runs = 1..n /\ \A k \in 1..n : runs[k] \in RunRecords
  OBVIOUS
<1>2. CASE c.call = "start"
  <2> DEFINE r == [id |-> n + 1, started |-> c.time, finished |-> 0]
  <2>1. r \in RunRecords /\ r.id = n + 1 /\ r.started = c.time /\ r.finished = 0
    BY <1>1 DEF RunRecords
  <2>2. new = Append(runs, r)
    BY <1>2 DEF RunStep
  <2> HIDE DEF r
  <2>3. /\ Append(runs, r) \in Seq(RunRecords) /\ Len(Append(runs, r)) = n + 1
        /\ \A k \in 1..n : Append(runs, r)[k] = runs[k]
        /\ Append(runs, r)[n + 1] = r
    BY <2>1
  <2>4. c.call # "finish"
    BY <1>2
  <2> HIDE DEF new, n
  <2> QED
    BY <1>2, <2>1, <2>2, <2>3, <2>4 DEF new, n
<1>3. CASE c.call = "finish"
  <2> DEFINE ended == [runs EXCEPT ![n] = [@ EXCEPT !.finished = c.time]]
             last == [runs[n] EXCEPT !.finished = c.time]
  <2>1. new = ended
    BY <1>3 DEF RunStep
  <2>2. n # 0 => n \in 1..n
    BY <1>1
  <2>3. n # 0 => /\ last \in RunRecords /\ last.finished = c.time
                 /\ last.id = runs[n].id /\ last.started = runs[n].started
    <3>1. n # 0 => runs[n] \in RunRecords
      BY <1>1, <2>2
    <3> QED
      BY <3>1 DEF RunRecords
  <2>4. ended = [k \in 1..n |-> IF k = n THEN last ELSE runs[k]]
    BY <1>1
  <2> HIDE DEF last, ended
  <2>5. \A k \in 1..n : n # 0
    BY <1>1
  <2>6. \A k \in 1..n : (IF k = n THEN last ELSE runs[k]) \in RunRecords
    BY <1>1, <2>3, <2>5
  <2>7. /\ ended \in Seq(RunRecords) /\ Len(ended) = n /\ \A k \in 1..n : k # n => ended[k] = runs[k]
        /\ n # 0 => ended[n] = last
    <3> HIDE DEF n
    <3> QED
      BY <1>1, <2>2, <2>4, <2>6
  <2>8. c.call # "start"
    BY <1>3
  <2> HIDE DEF new, n
  <2> QED
    BY <1>3, <2>1, <2>3, <2>7, <2>8 DEF new, n
<1>4. CASE c.call \notin {"start", "finish"}
  BY <1>4 DEF RunStep
<1> QED
  BY <1>2, <1>3, <1>4

\* The runs of a history, call by call.
RunsByCall(h) ==
  \E g : /\ g \in [0..Len(h) -> Seq(RunRecords)] /\ g[0] = <<>>
         /\ \A k \in 1..Len(h) : g[k] = RunStep(g[k - 1], h[k])
         /\ Runs(h) = g[Len(h)]

LEMMA RunsOfCalls ==
  ASSUME NEW C, Timed(C), NEW h \in Seq(C)
  PROVE  RunsByCall(h)
<1> DEFINE n == Len(h)
           V == Seq(RunRecords)
           next(m, c) == RunStep(m, c)
           step == [k \in 1..n |-> [m \in V |-> next(m, h[k])]]
           F == CHOOSE f : f = [s \in SUBSET DOMAIN h |->
                                  IF s = {} THEN <<>> ELSE next(f[s \ {Max(s)}], h[Max(s)])]
<1>1. Runs(h) = F[DOMAIN h]
  BY DEF Runs, FoldLeft, MapThenFoldSet
<1>2. n \in Nat /\ DOMAIN h = 1..n /\ \A k \in 1..n : h[k] \in C
  OBVIOUS
<1>3. /\ <<>> \in V
      /\ \A m \in V, c \in C : next(m, c) \in V
  BY RunStepIs DEF Timed
<1> HIDE DEF V, next, n
<1>4. step \in [1..n -> [V -> V]] /\ \A k \in 1..n, m \in V : step[k][m] = next(m, h[k])
  BY <1>2, <1>3
<1> HIDE DEF step
<1>5. F = [s \in SUBSET (1..n) |-> IF s = {} THEN <<>> ELSE next(F[s \ {Max(s)}], h[Max(s)])]
  <2>1. PICK f : /\ f = [s \in SUBSET (1..n) |-> IF s = {} THEN <<>> ELSE step[Max(s)][f[s \ {Max(s)}]]]
                 /\ \A s \in SUBSET (1..n) : f[s] \in V /\ (s # {} => Max(s) \in 1..n /\ s \ {Max(s)} \in SUBSET (1..n))
    BY <1>2, <1>3, <1>4, FoldOfSteps
  <2>2. \A s \in SUBSET (1..n) : f[s] = IF s = {} THEN <<>> ELSE next(f[s \ {Max(s)}], h[Max(s)])
    BY <1>4, <2>1
  <2>3. f = [s \in SUBSET (1..n) |-> IF s = {} THEN <<>> ELSE next(f[s \ {Max(s)}], h[Max(s)])]
    BY <2>1, <2>2
  <2> QED
    BY <1>2, <2>3
<1> HIDE DEF F
<1>6. FoldsWithin(F, n, V, <<>>, step)
  <2>1. F[{}] = <<>> /\ \A s \in SUBSET (1..n) : s # {} => F[s] = next(F[s \ {Max(s)}], h[Max(s)])
    BY <1>5
  <2>2. \A s \in SUBSET (1..n) : s # {} => Max(s) \in 1..n
    BY <1>2, GreatestOfSome
  <2> QED
    BY <1>4, <2>1, <2>2 DEF FoldsWithin
<1>7. n \in Nat /\ <<>> \in V /\ step \in [1..n -> [V -> V]]
  BY <1>2, <1>3, <1>4
<1>8. PICK g : Recursion(g, n, V, <<>>, step) /\ g[n] = F[1..n]
  BY ONLY <1>6, <1>7, FoldInOrder
<1>9. \A k \in 1..n : g[k] = next(g[k - 1], h[k])
  <2>1. \A k \in 1..n : k - 1 \in 0..n
    BY <1>2
  <2> QED
    BY <1>4, <1>8, <2>1 DEF Recursion
<1> QED
  BY <1>1, <1>2, <1>8, <1>9 DEF RunsByCall, Recursion, n, V, next

\* A call changes the runs that the calls before it made.
LEMMA RunsOfNext ==
  ASSUME NEW C, Timed(C), NEW h \in Seq(C), NEW c \in C
  PROVE  Runs(h) \in Seq(RunRecords) /\ Runs(Append(h, c)) = RunStep(Runs(h), c)
<1> DEFINE n == Len(h)
           longer == Append(h, c)
<1>1. n \in Nat /\ longer \in Seq(C) /\ Len(longer) = n + 1 /\ longer[n + 1] = c /\ \A k \in 1..n : longer[k] = h[k]
  OBVIOUS
<1> HIDE DEF longer
<1>2. PICK g : /\ g \in [0..n -> Seq(RunRecords)] /\ g[0] = <<>>
               /\ \A k \in 1..n : g[k] = RunStep(g[k - 1], h[k])
               /\ Runs(h) = g[n]
  <2>1. RunsByCall(h)
    BY RunsOfCalls
  <2> QED
    BY <2>1 DEF RunsByCall
<1>3. PICK f : /\ f \in [0..(n + 1) -> Seq(RunRecords)] /\ f[0] = <<>>
               /\ \A k \in 1..(n + 1) : f[k] = RunStep(f[k - 1], longer[k])
               /\ Runs(longer) = f[n + 1]
  <2>1. RunsByCall(longer)
    BY <1>1, RunsOfCalls
  <2> QED
    BY <1>1, <2>1 DEF RunsByCall
<1> HIDE DEF n
<1> DEFINE S == {k \in Nat : k <= n => g[k] = f[k]}
<1>4. 0 \in S
  BY <1>2, <1>3
<1>5. ASSUME NEW k \in Nat, k \in S PROVE k + 1 \in S
  <2>1. k + 1 <= n => k + 1 \in 1..n /\ k + 1 \in 1..(n + 1) /\ (k + 1) - 1 = k /\ k <= n
    BY <1>1
  <2>2. k + 1 <= n => /\ g[k + 1] = RunStep(g[k], h[k + 1]) /\ f[k + 1] = RunStep(f[k], longer[k + 1])
                      /\ longer[k + 1] = h[k + 1] /\ g[k] = f[k]
    BY <1>1, <1>2, <1>3, <1>5, <2>1
  <2>3. k + 1 <= n => g[k + 1] = f[k + 1]
    BY <2>2
  <2> QED
    BY <2>3
<1>6. n \in S /\ n <= n /\ n + 1 \in 1..(n + 1) /\ (n + 1) - 1 = n /\ n \in 0..n
  <2>1. \A k \in Nat : k \in S
    <3> HIDE DEF S
    <3> QED
      BY <1>4, <1>5, Induction
  <2> QED
    BY <1>1, <2>1
<1>7. Runs(longer) = RunStep(g[n], c)
  BY <1>1, <1>3, <1>6
<1> QED
  BY <1>2, <1>6, <1>7 DEF longer

\* The starts among the first m calls.
Starts(h, m) == {j \in 1..m : h[j].call = "start"}

PollsBetween(h, a, b) == \A j \in (a + 1)..(b - 1) : h[j].call = "poll"

\* The n-th run is the n-th start and, when it was finished, the finish after nothing but
\* its polls.
IsRun(h, r, n) ==
  /\ r.started \in DOMAIN h /\ h[r.started].call = "start" /\ Cardinality(Starts(h, r.started)) = n
  /\ r.id = n
  /\ r.finished # 0 => /\ r.finished \in DOMAIN h /\ h[r.finished].call = "finish"
                       /\ r.started < r.finished /\ PollsBetween(h, r.started, r.finished)

\* The runs are those of the calls, and only polls came after the start of the open one.
RunsAreCalls(h) ==
  /\ Cardinality(Starts(h, Len(h))) = Len(Runs(h))
  /\ \A n \in DOMAIN Runs(h) : IsRun(h, Runs(h)[n], n)
  /\ Runs(h) # <<>> /\ Runs(h)[Len(Runs(h))].finished = 0 =>
       PollsBetween(h, Runs(h)[Len(Runs(h))].started, Len(h) + 1)

LEMMA StartsOfNext ==
  ASSUME NEW C, NEW h \in Seq(C), NEW c \in C
  PROVE  /\ \A m \in 0..Len(h) : Starts(Append(h, c), m) = Starts(h, m)
         /\ IsFiniteSet(Starts(h, Len(h))) /\ Cardinality(Starts(h, Len(h))) \in Nat
         /\ Cardinality(Starts(Append(h, c), Len(h) + 1))
              = Cardinality(Starts(h, Len(h))) + (IF c.call = "start" THEN 1 ELSE 0)
<1> DEFINE n == Len(h)
           longer == Append(h, c)
           was == Starts(h, n)
           is == Starts(longer, n + 1)
<1>1. n \in Nat /\ longer[n + 1] = c /\ \A j \in 1..n : longer[j] = h[j]
  OBVIOUS
<1> HIDE DEF longer
<1>2. IsFiniteSet(was) /\ Cardinality(was) \in Nat
  <2>1. was \in SUBSET (1..n)
    BY DEF Starts
  <2>2. IsFiniteSet(1..n)
    BY <1>1, FS_Interval
  <2> HIDE DEF was
  <2> QED
    BY <2>1, <2>2, FS_Subset, FS_CardinalityType
<1> HIDE DEF n
<1>3. \A m \in 0..n : Starts(longer, m) = Starts(h, m)
  <2> SUFFICES ASSUME NEW m \in 0..n PROVE Starts(longer, m) = Starts(h, m)
    OBVIOUS
  <2>1. \A j \in 1..m : longer[j] = h[j]
    BY <1>1
  <2> QED
    BY <2>1 DEF Starts
<1>4. n + 1 \notin was /\ \A j \in 1..(n + 1) : j \in 1..n \/ j = n + 1
  BY <1>1 DEF Starts
<1>5. \A j \in 1..n : j \in 1..(n + 1) /\ n + 1 \in 1..(n + 1)
  BY <1>1
<1>6. CASE c.call = "start"
  <2>1. is = was \cup {n + 1}
    <3>1. n + 1 \in 1..(n + 1)
      BY <1>1
    <3> QED
      BY <1>1, <1>4, <1>5, <1>6, <3>1 DEF Starts
  <2> HIDE DEF was, is
  <2>2. Cardinality(is) = Cardinality(was) + 1
    BY <1>2, <1>4, <2>1, FS_AddElement
  <2> QED
    BY <1>2, <1>3, <1>6, <2>2 DEF was, is, n, longer
<1>7. CASE c.call # "start"
  <2>1. is = was
    BY <1>1, <1>4, <1>5, <1>7 DEF Starts
  <2> HIDE DEF was, is
  <2>2. Cardinality(is) = Cardinality(was) + 0
    BY <1>2, <2>1
  <2> QED
    BY <1>2, <1>3, <1>7, <2>2 DEF was, is, n, longer
<1> QED
  BY <1>6, <1>7

LEMMA RunGoesOn ==
  ASSUME NEW C, NEW h \in Seq(C), NEW c \in C, NEW r \in RunRecords, NEW n, IsRun(h, r, n)
  PROVE  IsRun(Append(h, c), r, n)
<1> DEFINE m == Len(h)
           longer == Append(h, c)
<1>1. /\ m \in Nat /\ DOMAIN h = 1..m /\ DOMAIN longer = 1..(m + 1) /\ \A j \in 1..m : longer[j] = h[j]
      /\ \A j \in 1..m : j \in 1..(m + 1) /\ j \in 0..m
  OBVIOUS
<1>2. r.started \in Nat /\ r.finished \in Nat
  BY DEF RunRecords
<1>3. r.started \in 1..m /\ h[r.started].call = "start" /\ Cardinality(Starts(h, r.started)) = n /\ r.id = n
  BY <1>1 DEF IsRun
<1>4. Starts(longer, r.started) = Starts(h, r.started)
  BY <1>1, <1>3, StartsOfNext
<1>5. r.finished # 0 => /\ r.finished \in 1..m /\ h[r.finished].call = "finish"
                        /\ r.started < r.finished /\ PollsBetween(h, r.started, r.finished)
  BY <1>1 DEF IsRun
<1> HIDE DEF longer
<1>6. r.finished # 0 => PollsBetween(longer, r.started, r.finished)
  <2> SUFFICES ASSUME r.finished # 0, NEW j \in (r.started + 1)..(r.finished - 1)
               PROVE  longer[j].call = "poll"
    BY DEF PollsBetween
  <2>1. j \in 1..m
    BY <1>1, <1>2, <1>3, <1>5
  <2> QED
    BY <1>1, <1>5, <2>1 DEF PollsBetween
<1> HIDE DEF m
<1>7. IsRun(longer, r, n)
  BY <1>1, <1>3, <1>4, <1>5, <1>6 DEF IsRun
<1> QED
  BY <1>7 DEF longer

\* A run is polled and finished while it is open.
LEMMA RunsGoOn ==
  ASSUME NEW C, Timed(C), NEW h \in Seq(C), RunsAreCalls(h), NEW c \in C, c.time = Len(h) + 1,
         \/ c.call = "start"
         \/ c.call \in {"poll", "finish"} /\ Runs(h) # <<>> /\ Runs(h)[Len(Runs(h))].finished = 0
  PROVE  RunsAreCalls(Append(h, c))
<1> DEFINE m == Len(h)
           longer == Append(h, c)
           was == Runs(h)
           is == Runs(longer)
           n == Len(was)
<1>1. was \in Seq(RunRecords) /\ is = RunStep(was, c) /\ c.time \in Nat
  BY RunsOfNext DEF Timed
<1>2. /\ m \in Nat /\ DOMAIN h = 1..m /\ DOMAIN longer = 1..(m + 1) /\ Len(longer) = m + 1
      /\ longer[m + 1] = c /\ \A j \in 1..m : longer[j] = h[j]
  OBVIOUS
<1>3. /\ n \in Nat /\ Cardinality(Starts(h, m)) = n /\ DOMAIN was = 1..n
      /\ \A k \in 1..n : was[k] \in RunRecords /\ IsRun(h, was[k], k)
      /\ was # <<>> <=> n # 0
      /\ n # 0 /\ was[n].finished = 0 => PollsBetween(h, was[n].started, m + 1)
  BY <1>1 DEF RunsAreCalls
<1>4. Cardinality(Starts(longer, m + 1)) = n + (IF c.call = "start" THEN 1 ELSE 0)
  BY <1>3, StartsOfNext
<1>5. /\ is \in Seq(RunRecords)
      /\ c.call = "start" => /\ Len(is) = n + 1 /\ \A k \in 1..n : is[k] = was[k]
                             /\ is[n + 1].id = n + 1 /\ is[n + 1].started = c.time
                             /\ is[n + 1].finished = 0
      /\ c.call = "finish" => /\ Len(is) = n /\ \A k \in 1..n : k # n => is[k] = was[k]
                              /\ n # 0 => /\ is[n].id = was[n].id /\ is[n].started = was[n].started
                                          /\ is[n].finished = c.time
      /\ c.call \notin {"start", "finish"} => is = was
  BY <1>1, RunStepIs
<1>6. \A k \in 1..n : IsRun(longer, was[k], k)
  BY <1>3, RunGoesOn
<1>7. Len(is) \in Nat /\ DOMAIN is = 1..Len(is)
  BY <1>5
<1>8. c.call # "start" => n \in 1..n /\ was[n].finished = 0
  BY <1>3
<1> HIDE DEF was, is, n
<1>9. CASE c.call = "start"
  <2>1. Len(is) = n + 1 /\ n + 1 # 0 /\ Cardinality(Starts(longer, m + 1)) = Len(is)
    BY <1>3, <1>4, <1>5, <1>9
  <2>2. is[n + 1].id = n + 1 /\ is[n + 1].started = m + 1 /\ is[n + 1].finished = 0
    BY <1>5, <1>9
  <2> HIDE DEF longer, m
  <2>3. m + 1 \in 1..(m + 1)
    BY <1>2
  <2>4. IsRun(longer, is[n + 1], n + 1)
    BY <1>2, <1>4, <1>9, <2>2, <2>3 DEF IsRun
  <2>5. \A k \in 1..(n + 1) : k \in 1..n \/ k = n + 1
    BY <1>3
  <2>6. \A k \in DOMAIN is : IsRun(longer, is[k], k)
    BY <1>5, <1>6, <1>7, <1>9, <2>1, <2>4, <2>5
  <2>7. PollsBetween(longer, is[n + 1].started, m + 2)
    <3>1. is[n + 1].started = m + 1
      BY <2>2
    <3>2. \A j \in ((m + 1) + 1)..((m + 2) - 1) : FALSE
      BY <1>2
    <3>3. PollsBetween(longer, m + 1, m + 2)
      BY <3>2, Zenon DEF PollsBetween
    <3> QED
      BY <3>1, <3>3
  <2>8. Len(longer) + 1 = m + 2
    BY <1>2
  <2> QED
    BY <1>2, <2>1, <2>6, <2>7, <2>8 DEF RunsAreCalls, is, longer
<1>10. CASE c.call = "finish"
  <2>1. Len(is) = n /\ Cardinality(Starts(longer, m + 1)) = Len(is) /\ n \in 1..n /\ was[n].finished = 0
    BY <1>3, <1>4, <1>5, <1>8, <1>10
  <2>2. is[n].id = was[n].id /\ is[n].started = was[n].started /\ is[n].finished = m + 1
    BY <1>3, <1>5, <1>10, <2>1
  <2>3. PollsBetween(h, was[n].started, m + 1) /\ was[n].started \in 1..m /\ IsRun(longer, was[n], n)
    BY <1>2, <1>3, <1>6, <2>1 DEF IsRun
  <2> HIDE DEF longer, m
  <2>4. PollsBetween(longer, was[n].started, m + 1)
    <3>1. \A j \in (was[n].started + 1)..((m + 1) - 1) : j \in 1..m
      BY <1>2, <2>3
    <3> QED
      BY <1>2, <2>3, <3>1 DEF PollsBetween
  <2>5. was[n].started < m + 1 /\ m + 1 \in 1..(m + 1) /\ m + 1 # 0
    BY <1>2, <2>3
  <2>6. IsRun(longer, is[n], n)
    BY <1>2, <1>10, <2>2, <2>3, <2>4, <2>5 DEF IsRun
  <2>7. \A k \in DOMAIN is : IsRun(longer, is[k], k)
    <3>1. \A k \in 1..n : k # n => is[k] = was[k]
      BY <1>5, <1>10
    <3> QED
      BY <1>6, <1>7, <2>1, <2>6, <3>1
  <2> QED
    BY <1>2, <2>1, <2>2, <2>5, <2>7 DEF RunsAreCalls, is, longer
<1>11. CASE c.call = "poll"
  <2>1. is = was /\ Cardinality(Starts(longer, m + 1)) = Len(is) /\ n \in 1..n /\ was[n].finished = 0
    BY <1>3, <1>4, <1>5, <1>8, <1>11 DEF n
  <2>2. PollsBetween(h, was[n].started, m + 1) /\ was[n].started \in 1..m
    BY <1>2, <1>3, <2>1 DEF IsRun
  <2> HIDE DEF longer, m
  <2>3. PollsBetween(longer, was[n].started, (m + 1) + 1)
    <3>1. \A j \in (was[n].started + 1)..(((m + 1) + 1) - 1) : j = m + 1 \/ (j \in 1..m /\ j \in (was[n].started + 1)..((m + 1) - 1))
      BY <1>2, <2>2
    <3> QED
      BY <1>2, <1>11, <2>2, <3>1 DEF PollsBetween
  <2>4. \A k \in DOMAIN is : IsRun(longer, is[k], k)
    BY <1>3, <1>6, <2>1
  <2> QED
    BY <1>2, <2>1, <2>3, <2>4 DEF RunsAreCalls, is, longer, n
<1> QED
  BY <1>9, <1>10, <1>11

\* The start of a run is the one with as many starts up to it.
StartOf(h, n) ==
  CHOOSE i \in DOMAIN h : Cardinality({j \in 1..i : h[j].call = "start"}) = n /\ h[i].call = "start"

LEMMA StartIs ==
  ASSUME NEW C, NEW h \in Seq(C), NEW r \in RunRecords, NEW n, IsRun(h, r, n)
  PROVE  StartOf(h, n) = r.started
<1> DEFINE m == Len(h)
           I == Starts(h, m)
<1>1. m \in Nat /\ DOMAIN h = 1..m
  OBVIOUS
<1>2. r.started \in 1..m /\ h[r.started].call = "start" /\ Cardinality(Starts(h, r.started)) = n
  BY <1>1 DEF IsRun
<1> HIDE DEF m
<1>3. I \in SUBSET (1..m) /\ \A i \in 1..m : i \in I <=> h[i].call = "start"
  BY DEF Starts
<1>4. \A i \in 1..m : Rank(I, i) = Cardinality(Starts(h, i))
  <2> SUFFICES ASSUME NEW i \in 1..m PROVE {j \in I : j <= i} = Starts(h, i)
    BY DEF Rank
  <2>1. \A j \in 1..m : j \in 1..i <=> j <= i
    BY <1>1
  <2>2. \A j \in 1..i : j \in 1..m
    BY <1>1
  <2> QED
    BY <1>3, <2>1, <2>2 DEF Starts
<1> HIDE DEF I
<1>5. /\ \A i \in I : Rank(I, i) \in Nat
      /\ \A i, j \in I : i < j => Rank(I, i) < Rank(I, j)
  <2>1. /\ Cardinality(I) \in Nat /\ \A i \in I : Rank(I, i) \in 1..Cardinality(I)
        /\ \A i, j \in I : i < j => Rank(I, i) < Rank(I, j)
    BY <1>1, <1>3, RanksGrow
  <2> QED
    BY <2>1
<1>6. ASSUME NEW i \in 1..m, Cardinality({j \in 1..i : h[j].call = "start"}) = n, h[i].call = "start"
      PROVE  i = r.started
  <2>1. Rank(I, i) = n /\ Rank(I, r.started) = n /\ i \in I /\ r.started \in I
    BY <1>2, <1>3, <1>4, <1>6 DEF Starts
  <2>2. ~(i < r.started) /\ ~(r.started < i)
    <3>1. n \in Nat
      BY <1>5, <2>1
    <3>2. i < r.started => n < n
      BY <1>5, <2>1
    <3>3. r.started < i => n < n
      BY <1>5, <2>1
    <3> QED
      BY <3>1, <3>2, <3>3
  <2> QED
    BY <1>1, <1>2, <2>2
<1>7. Cardinality({j \in 1..r.started : h[j].call = "start"}) = n
  BY <1>2 DEF Starts
<1> QED
  BY <1>1, <1>2, <1>6, <1>7 DEF StartOf

\* The calls come at the times 1, 2, ..., the rows of a poll at the time of the poll.
InTime(h) ==
  \A i \in DOMAIN h : /\ h[i].time = i
                      /\ h[i].call = "poll" => \A j \in DOMAIN h[i].rows : h[i].rows[j].time = i

LEMMA TimesOfSamples ==
  ASSUME NEW C, NEW R, HaveBatches(C, R), NEW h \in Seq(C), InTime(h)
  PROVE  \A i \in DOMAIN SamplesOf(h) :
           SamplesOf(h)[i].time \in 1..Len(h) /\ h[SamplesOf(h)[i].time].call = "poll"
<1> DEFINE samples == SamplesOf(h)
<1>1. AreSamples(samples, h, R)
  BY SamplesAre
<1> HIDE DEF samples
<1>2. ASSUME NEW i \in DOMAIN samples
      PROVE  samples[i].time \in DOMAIN h /\ h[samples[i].time].call = "poll"
  <2>1. PICK k \in DOMAIN h : h[k].call = "poll" /\ \E j \in DOMAIN h[k].rows : samples[i] = h[k].rows[j]
    BY <1>1 DEF AreSamples
  <2>2. samples[i].time = k
    BY <2>1 DEF InTime
  <2> QED
    BY <2>1, <2>2
<1>3. DOMAIN h = 1..Len(h)
  OBVIOUS
<1> QED
  BY <1>2, <1>3 DEF samples

\* The end of a run's window at time now.
EndOf(r, now) == IF r.finished # 0 THEN r.finished ELSE now

\* A poll of the run: nothing but polls since its start.
OwnPoll(h, r, t) == t > r.started /\ \A j \in (r.started + 1)..t : h[j].call = "poll"

\* A poll is in the window of a run when it is the run's own.
LEMMA PollsOfRun ==
  ASSUME NEW C, Timed(C), NEW h \in Seq(C), RunsAreCalls(h), NEW n \in DOMAIN Runs(h),
         NEW t \in 1..Len(h), h[t].call = "poll"
  PROVE  LET r == Runs(h)[n]
             own == t > r.started /\ \A j \in (r.started + 1)..t : h[j].call = "poll"
             in == r.started <= t /\ t <= EndOf(r, Len(h) + 1) IN
         /\ r \in RunRecords /\ IsRun(h, r, n) /\ r.started \in 1..Len(h)
         /\ own => in
         /\ n = Len(Runs(h)) \/ r.finished # 0 => (own <=> in)
<1> DEFINE runs == Runs(h)
           r == runs[n]
           m == Len(h)
<1>1. m \in Nat /\ DOMAIN h = 1..m /\ t \in 1..m
  OBVIOUS
<1>2. runs \in Seq(RunRecords)
  <2>1. RunsByCall(h)
    BY RunsOfCalls
  <2>2. PICK g : g \in [0..Len(h) -> Seq(RunRecords)] /\ runs = g[Len(h)]
    BY <2>1 DEF RunsByCall
  <2>3. Len(h) \in 0..Len(h)
    BY <1>1
  <2> QED
    BY <2>2, <2>3
<1>3. r \in RunRecords /\ IsRun(h, r, n)
  BY <1>2 DEF RunsAreCalls
<1>4. n = Len(runs) /\ r.finished = 0 => PollsBetween(h, r.started, m + 1)
  <2>1. n \in 1..Len(runs)
    BY <1>2
  <2>2. runs # <<>>
    BY <2>1
  <2> QED
    BY <2>2 DEF RunsAreCalls
<1> HIDE DEF runs, r, m
<1>5. r.started \in Nat /\ r.finished \in Nat
  BY <1>3 DEF RunRecords
<1>6. /\ r.started \in 1..m /\ h[r.started].call = "start"
      /\ r.finished # 0 => /\ r.finished \in 1..m /\ h[r.finished].call = "finish"
                           /\ r.started < r.finished /\ PollsBetween(h, r.started, r.finished)
  BY <1>1, <1>3 DEF IsRun
<1>7. t # r.started /\ t # r.finished /\ t \in Nat
  BY <1>1, <1>6
<1>8. ASSUME t > r.started, \A j \in (r.started + 1)..t : h[j].call = "poll"
      PROVE  r.started <= t /\ t <= EndOf(r, m + 1)
  <2>1. CASE r.finished # 0
    <3>1. ~(r.finished <= t)
      <4>1. r.finished <= t => r.finished \in (r.started + 1)..t
        BY <1>5, <1>6, <1>7, <2>1
      <4>2. h[r.finished].call # "poll"
        BY <1>6, <2>1
      <4> QED
        BY <1>8, <4>1, <4>2
    <3> QED
      BY <1>5, <1>7, <1>8, <2>1, <3>1 DEF EndOf
  <2>2. CASE r.finished = 0
    BY <1>1, <1>5, <1>7, <1>8, <2>2 DEF EndOf
  <2> QED
    BY <2>1, <2>2
<1>9. ASSUME n = Len(runs) \/ r.finished # 0, r.started <= t, t <= EndOf(r, m + 1)
      PROVE  t > r.started /\ \A j \in (r.started + 1)..t : h[j].call = "poll"
  <2>1. t > r.started
    BY <1>5, <1>7, <1>9
  <2>2. CASE r.finished # 0
    <3>1. t < r.finished
      BY <1>5, <1>7, <1>9, <2>2 DEF EndOf
    <3>2. \A j \in (r.started + 1)..t : j \in (r.started + 1)..(r.finished - 1)
      BY <1>5, <1>7, <3>1
    <3> QED
      BY <1>6, <2>1, <2>2, <3>2 DEF PollsBetween
  <2>3. CASE r.finished = 0
    <3>1. \A j \in (r.started + 1)..t : j \in (r.started + 1)..((m + 1) - 1)
      BY <1>1, <1>5, <1>7
    <3> QED
      BY <1>4, <1>9, <2>1, <2>3, <3>1 DEF PollsBetween
  <2> QED
    BY <2>2, <2>3
<1> QED
  BY <1>3, <1>6, <1>8, <1>9 DEF runs, r, m

-----------------------------------------------------------------------------
(***************************************************************************)
(* Queries, on the histories of module HistoryInputs.                      *)
(***************************************************************************)
RunRows == Samples({1, 2}, {"online", "offline"}, {"up", "unknown"})

RunCalls ==
  [call : {"start", "finish"}, time : Nat] \cup [call : {"poll"}, time : Nat, rows : Seq(RunRows)]

RunsInv ==
  kind = "runs" => value \in Seq(RunCalls) /\ InTime(value) /\ RunsAreCalls(value)

LEMMA RunCallsAre == Timed(RunCalls) /\ HaveBatches(RunCalls, RunRows)
<1> HIDE DEF RunRows
<1> QED
  BY DEF Timed, HaveBatches, RunCalls

\* The rows that match a query.
MatchOf(rows, q, now) == {i \in DOMAIN rows : MatchSample(rows[i], q, now)}

LEMMA MatchingIs ==
  ASSUME NEW h, NEW q, NEW now
  PROVE  Matching(h, q, now) = Elements(SamplesOf(h), MatchOf(SamplesOf(h), ApplyRunWindow(Runs(h), q, now), now))
<1> DEFINE w == ApplyRunWindow(Runs(h), q, now)
<1>1. Matching(h, q, now) = Elements(SamplesOf(h), {i \in DOMAIN SamplesOf(h) : MatchSample(SamplesOf(h)[i], w, now)})
  BY DEF Matching, Only
<1> HIDE DEF w
<1> QED
  BY <1>1 DEF MatchOf, w

RunQuery(n, latest) ==
  [run |-> n, latest |-> latest, from |-> 0, to |-> 0, status |-> None, limit |-> 0]

RunAsked(runs, n, latest) == IF latest THEN Len(runs) ELSE n

InWindow(r, t, now) == r.started <= t /\ t <= EndOf(r, now)

\* A query of a run is one of its window.
LEMMA WindowIs ==
  ASSUME NEW runs \in Seq(RunRecords), NEW n \in DOMAIN runs, NEW latest \in BOOLEAN,
         NEW now \in Nat \ {0}, NEW x, x.time \in Nat,
         \A k \in DOMAIN runs : runs[k].started # 0
  PROVE  MatchSample(x, ApplyRunWindow(runs, RunQuery(n, latest), now), now)
           <=> InWindow(runs[RunAsked(runs, n, latest)], x.time, now)
<1> DEFINE q == [run |-> n, latest |-> latest, from |-> 0, to |-> 0, status |-> None, limit |-> 0]
           id == IF latest THEN Len(runs) ELSE n
           r == runs[id]
           to == EndOf(r, now)
           w == [q EXCEPT !.from = r.started, !.to = to, !.limit = IF @ = 0 THEN MaxLimit ELSE @]
<1>1. n \in Nat /\ n # 0 /\ id \in DOMAIN runs
  OBVIOUS
<1>2. q.run # 0 /\ q.latest = latest
  BY <1>1
<1>3. ApplyRunWindow(runs, q, now) = w
  BY <1>2 DEF ApplyRunWindow, EndOf
<1>4. r.started \in Nat /\ r.started # 0 /\ to \in Nat /\ to # 0
  <2>1. r \in RunRecords
    BY <1>1
  <2> HIDE DEF r
  <2>2. r.started \in Nat /\ r.finished \in Nat
    BY <2>1 DEF RunRecords
  <2>3. r.started # 0
    BY <1>1 DEF r
  <2> QED
    BY <2>2, <2>3 DEF EndOf
<1> HIDE DEF r, to
<1>5. w.from = r.started /\ w.to = to /\ w.status = None
  OBVIOUS
<1> HIDE DEF w
<1>6. MatchSample(x, w, now) <=> r.started <= x.time /\ x.time <= to
  <2> DEFINE sw == SampleWindow(w, now)
  <2>1. sw.from = r.started /\ sw.to = to
    BY <1>4, <1>5 DEF SampleWindow
  <2>2. MatchSample(x, w, now) <=> sw.from <= x.time /\ x.time <= sw.to
    BY <1>5 DEF MatchSample
  <2> HIDE DEF sw
  <2> QED
    BY <2>1, <2>2
<1> QED
  BY <1>3, <1>6 DEF r, to, RunQuery, RunAsked, InWindow

\* What is known of the samples and of the runs of such a history.
LEMMA HistoryFacts ==
  ASSUME RunsInv, kind = "runs"
  PROVE  /\ Runs(value) \in Seq(RunRecords) /\ SamplesOf(value) \in Seq(RunRows)
         /\ \A i \in DOMAIN SamplesOf(value) :
              SamplesOf(value)[i].time \in 1..Len(value) /\ value[SamplesOf(value)[i].time].call = "poll"
         /\ Len(value) \in Nat /\ Now = Len(value) + 1 /\ Now \in Nat \ {0}
<1> DEFINE m == Len(value)
           samples == SamplesOf(value)
<1>1. value \in Seq(RunCalls) /\ InTime(value)
  BY DEF RunsInv
<1>2. m \in Nat /\ Now = m + 1 /\ Now \in Nat \ {0}
  BY <1>1 DEF Now
<1>3. Runs(value) \in Seq(RunRecords)
  <2>1. RunsByCall(value)
    BY <1>1, RunCallsAre, RunsOfCalls
  <2>2. PICK g : g \in [0..m -> Seq(RunRecords)] /\ Runs(value) = g[m]
    BY <2>1 DEF RunsByCall
  <2>3. m \in 0..m
    BY <1>2
  <2> QED
    BY <2>2, <2>3
<1>4. samples \in Seq(RunRows)
  <2>1. AreSamples(samples, value, RunRows)
    BY <1>1, RunCallsAre, SamplesAre
  <2> QED
    BY <2>1 DEF AreSamples
<1>5. \A i \in DOMAIN samples : samples[i].time \in 1..m /\ value[samples[i].time].call = "poll"
  BY <1>1, RunCallsAre, TimesOfSamples
<1> QED
  BY <1>2, <1>3, <1>4, <1>5

\* The samples of a run are those of its own polls.
OwnSamples(n) == {i \in DOMAIN SamplesOf(value) : OwnPoll(value, Runs(value)[n], SamplesOf(value)[i].time)}

LEMMA SamplesOfRunAre ==
  ASSUME RunsInv, kind = "runs", NEW n \in DOMAIN Runs(value)
  PROVE  /\ SamplesOfRun(n) = Elements(SamplesOf(value), OwnSamples(n))
         /\ Runs(value)[n] \in RunRecords /\ IsRun(value, Runs(value)[n], n)
<1> DEFINE samples == SamplesOf(value)
           r == Runs(value)[n]
           start == CHOOSE i \in DOMAIN value : Cardinality({j \in 1..i : value[j].call = "start"}) = n
                                                /\ value[i].call = "start"
<1>1. value \in Seq(RunCalls) /\ RunsAreCalls(value)
  BY DEF RunsInv
<1>2. r \in RunRecords /\ IsRun(value, r, n)
  BY <1>1, HistoryFacts DEF RunsAreCalls
<1> HIDE DEF r
<1>3. start = r.started
  <2>1. start = StartOf(value, n)
    BY DEF StartOf
  <2> HIDE DEF start
  <2> QED
    BY <1>1, <1>2, <2>1, StartIs
<1>4. SamplesOfRun(n) = Elements(samples, {i \in DOMAIN samples : /\ samples[i].time > start
                               /\ \A j \in (start + 1)..(samples[i].time) : value[j].call = "poll"})
  BY DEF SamplesOfRun, Only
<1> HIDE DEF start, samples
<1>5. SamplesOfRun(n) = Elements(samples, {i \in DOMAIN samples : OwnPoll(value, r, samples[i].time)})
  BY <1>3, <1>4 DEF OwnPoll
<1> QED
  BY <1>2, <1>5 DEF OwnSamples, r, samples

\* The window of a run holds what its own polls stored (ApplyRunWindow).
THEOREM RunWindowsInv ==
  RunsInv => RunWindowIsExact
<1> SUFFICES ASSUME RunsInv, kind = "runs", NEW n \in DOMAIN Runs(value), NEW latest \in BOOLEAN
             PROVE  LET q == [run |-> n, latest |-> latest, from |-> 0, to |-> 0, status |-> None, limit |-> 0]
                        id == IF latest THEN Len(Runs(value)) ELSE n
                        seen == Matching(value, q, Now) IN
                    IF id = Len(Runs(value)) \/ Runs(value)[id].finished # 0
                    THEN seen = SamplesOfRun(id)
                    ELSE /\ \A i \in DOMAIN SamplesOfRun(id) : SamplesOfRun(id)[i] \in ToSet(seen)
                         /\ \A i \in DOMAIN SamplesOf(value) :
                              SamplesOf(value)[i].time > Runs(value)[id].started => SamplesOf(value)[i] \in ToSet(seen)
  BY DEF RunWindowIsExact
<1> DEFINE runs == Runs(value)
           q == [run |-> n, latest |-> latest, from |-> 0, to |-> 0, status |-> None, limit |-> 0]
           id == IF latest THEN Len(runs) ELSE n
           r == runs[id]
           seen == Matching(value, q, Now)
           samples == SamplesOf(value)
           m == Len(value)
           own(t) == OwnPoll(value, r, t)
           in(t) == InWindow(r, t, Now)
           Own == {i \in DOMAIN samples : own(samples[i].time)}
           In == {i \in DOMAIN samples : in(samples[i].time)}
<1>1. value \in Seq(RunCalls) /\ InTime(value) /\ RunsAreCalls(value)
  BY DEF RunsInv
<1>2. m \in Nat /\ Now = m + 1 /\ Now \in Nat \ {0}
  BY HistoryFacts
<1>3. runs \in Seq(RunRecords)
  BY HistoryFacts
<1>4. id \in DOMAIN runs
  BY <1>3
<1>5. samples \in Seq(RunRows) /\ \A i \in DOMAIN samples : samples[i].time \in 1..m /\ value[samples[i].time].call = "poll"
  BY HistoryFacts
<1> HIDE DEF samples
<1>6. /\ r \in RunRecords /\ IsRun(value, r, id)
      /\ \A t \in 1..m : value[t].call = "poll" =>
           /\ own(t) => in(t)
           /\ id = Len(runs) \/ r.finished # 0 => (own(t) <=> in(t))
  <2>1. r \in RunRecords /\ IsRun(value, r, id)
    BY <1>1, <1>3, <1>4 DEF RunsAreCalls
  <2>2. ASSUME NEW t \in 1..m, value[t].call = "poll"
        PROVE  /\ own(t) => in(t)
               /\ id = Len(runs) \/ r.finished # 0 => (own(t) <=> in(t))
    BY <1>1, <1>2, <1>4, <2>2, RunCallsAre, PollsOfRun DEF OwnPoll, InWindow
  <2> QED
    BY <2>1, <2>2
<1>7. SamplesOfRun(id) = Elements(samples, Own)
  BY <1>4, SamplesOfRunAre DEF OwnSamples, samples
<1>9. seen = Elements(samples, In)
  <2>1. \A k \in DOMAIN runs : runs[k].started # 0
    BY <1>1 DEF RunsAreCalls, IsRun
  <2>2. ASSUME NEW i \in DOMAIN samples
        PROVE  MatchSample(samples[i], ApplyRunWindow(runs, q, Now), Now) <=> in(samples[i].time)
    <3>1. samples[i].time \in Nat
      BY <1>5
    <3>2. q = RunQuery(n, latest) /\ runs[RunAsked(runs, n, latest)] = r /\ n \in DOMAIN runs
      BY DEF RunQuery, RunAsked
    <3> HIDE DEF runs, q, r
    <3>3. MatchSample(samples[i], ApplyRunWindow(runs, q, Now), Now) <=> InWindow(r, samples[i].time, Now)
      BY <1>2, <1>3, <2>1, <3>1, <3>2, WindowIs
    <3> QED
      BY <3>3 DEF InWindow
  <2>3. MatchOf(samples, ApplyRunWindow(runs, q, Now), Now) = In
    BY <2>2 DEF MatchOf
  <2>4. seen = Elements(samples, MatchOf(samples, ApplyRunWindow(runs, q, Now), Now))
    BY MatchingIs DEF samples
  <2> QED
    BY <2>3, <2>4
<1> HIDE DEF runs, r, seen, own, in
<1>10. CASE id = Len(runs) \/ r.finished # 0
  <2>1. Own = In
    BY <1>5, <1>6, <1>10
  <2>2. seen = SamplesOfRun(id)
    BY <1>7, <1>9, <2>1
  <2> QED
    BY <1>10, <2>2 DEF runs, r, seen
<1>11. CASE ~(id = Len(runs) \/ r.finished # 0)
  <2>1. Own \in SUBSET In /\ In \in SUBSET DOMAIN samples
    BY <1>5, <1>6
  <2>2. r.finished = 0 /\ r.started \in Nat
    BY <1>6, <1>11 DEF RunRecords
  <2>3. \A i \in DOMAIN samples : samples[i].time > r.started => i \in In
    BY <1>2, <1>5, <2>2 DEF in, InWindow, EndOf
  <2> HIDE DEF Own, In
  <2>4. /\ seen \in Seq(RunRows)
        /\ \A i \in In : \E k \in DOMAIN seen : seen[k] = samples[i]
    BY <1>5, <1>9, <2>1, ElementsHave
  <2>5. \A i \in In : samples[i] \in ToSet(seen)
    BY <2>4 DEF ToSet
  <2>6. \A i \in DOMAIN samples : samples[i].time > r.started => samples[i] \in ToSet(seen)
    BY <2>3, <2>5
  <2> DEFINE some == SamplesOfRun(id)
  <2>7. \A k \in DOMAIN some : \E i \in Own : some[k] = samples[i]
    <3>1. Own \in SUBSET DOMAIN samples
      BY <2>1
    <3> QED
      BY <1>5, <1>7, <3>1, ElementsHave
  <2> HIDE DEF some
  <2>8. \A k \in DOMAIN some : some[k] \in ToSet(seen)
    BY <2>1, <2>5, <2>7
  <2> QED
    BY <1>11, <2>6, <2>8 DEF runs, r, seen, samples, some
<1> QED
  BY <1>10, <1>11

\* The latest finished run is the last one that was finished.
LEMMA LatestIs ==
  ASSUME NEW runs \in Seq(RunRecords)
  PROVE  LET I == {n \in DOMAIN runs : runs[n].finished # 0} IN
         /\ I = {} => LatestFinishedRun(runs) = NoRun
         /\ I # {} => Max(I) \in I /\ LatestFinishedRun(runs) = runs[Max(I)]
<1> DEFINE I == {n \in DOMAIN runs : runs[n].finished # 0}
           m == Len(runs)
           picked == Elements(runs, I)
<1>1. m \in Nat /\ I \in SUBSET (1..m) /\ I \in SUBSET DOMAIN runs
  OBVIOUS
<1>2. LatestFinishedRun(runs) = IF picked = <<>> THEN NoRun ELSE picked[Len(picked)]
  BY DEF LatestFinishedRun, Only
<1> HIDE DEF I, picked, m
<1>3. /\ picked \in Seq(RunRecords) /\ Len(picked) = Cardinality(I) /\ Cardinality(I) \in Nat
      /\ \A i \in I : Rank(I, i) \in 1..Cardinality(I) /\ picked[Rank(I, i)] = runs[i]
  BY <1>1, ElementsAre DEF picked
<1>4. CASE I = {}
  <2>1. Len(picked) = 0
    BY <1>3, <1>4, FS_EmptySet
  <2>2. picked = <<>>
    BY <1>3, <2>1
  <2> QED
    BY <1>2, <1>4, <2>2 DEF I
<1>5. CASE I # {}
  <2>1. Max(I) \in I /\ \A i \in I : i <= Max(I)
    BY <1>1, <1>5, GreatestOfSome
  <2>2. {j \in I : j <= Max(I)} = I
    BY <2>1
  <2>3. Rank(I, Max(I)) = Cardinality(I)
    BY <2>2 DEF Rank
  <2>4. picked # <<>> /\ picked[Len(picked)] = runs[Max(I)]
    <3>1. Cardinality(I) \in 1..Cardinality(I) /\ picked[Cardinality(I)] = runs[Max(I)]
      BY <1>3, <2>1, <2>3
    <3>2. Len(picked) # 0
      BY <1>3, <3>1
    <3> QED
      BY <1>3, <3>1, <3>2
  <2> QED
    BY <1>2, <1>5, <2>1, <2>4 DEF I
<1> QED
  BY <1>4, <1>5

\* What a run's window shows at positions is what its samples do.
LEMMA PositionsOfRun ==
  ASSUME RunsInv, kind = "runs", NEW n \in DOMAIN Runs(value), Runs(value)[n].finished # 0, NEW s
  PROVE  PositionsIn(SamplesOf(value), s, Runs(value)[n]) = Positions(SamplesOfRun(n), s)
<1> DEFINE samples == SamplesOf(value)
           r == Runs(value)[n]
           own == SamplesOfRun(n)
           I == OwnSamples(n)
<1>1. /\ samples \in Seq(RunRows)
      /\ \A i \in DOMAIN samples : samples[i].time \in 1..Len(value) /\ value[samples[i].time].call = "poll"
  BY HistoryFacts
<1>2. own = Elements(samples, I) /\ r \in RunRecords /\ IsRun(value, r, n)
  BY SamplesOfRunAre
<1>3. I \in SUBSET DOMAIN samples /\ \A i \in DOMAIN samples : i \in I <=> OwnPoll(value, r, samples[i].time)
  BY DEF OwnSamples
<1>4. ASSUME NEW i \in DOMAIN samples
      PROVE  InLatestRun(samples[i].time, r) <=> i \in I
  <2>1. value \in Seq(RunCalls) /\ RunsAreCalls(value)
    BY DEF RunsInv
  <2>2. samples[i].time \in 1..Len(value) /\ value[samples[i].time].call = "poll"
    BY <1>1
  <2>3. n \in Nat \ {0}
    BY HistoryFacts
  <2> HIDE DEF samples, I
  <2>4. OwnPoll(value, r, samples[i].time) <=> r.started <= samples[i].time /\ samples[i].time <= EndOf(r, Len(value) + 1)
    BY <2>1, <2>2, RunCallsAre, PollsOfRun DEF OwnPoll
  <2>5. r.id = n
    BY <1>2 DEF IsRun
  <2> QED
    BY <1>3, <2>3, <2>4, <2>5 DEF InLatestRun, EndOf
<1> HIDE DEF samples, own, I, r
<1>5. /\ \A k \in DOMAIN own : \E i \in I : own[k] = samples[i]
      /\ \A i \in I : \E k \in DOMAIN own : own[k] = samples[i]
  BY <1>1, <1>2, <1>3, ElementsHave
<1>6. ASSUME NEW p \in PositionsIn(samples, s, r) PROVE p \in Positions(own, s)
  <2>1. PICK i \in DOMAIN samples : samples[i].serial = s /\ InLatestRun(samples[i].time, r) /\ p = samples[i].pos
    BY DEF PositionsIn
  <2>2. PICK k \in DOMAIN own : own[k] = samples[i]
    BY <1>4, <1>5, <2>1
  <2> QED
    BY <2>1, <2>2 DEF Positions
<1>7. ASSUME NEW p \in Positions(own, s) PROVE p \in PositionsIn(samples, s, r)
  <2>1. PICK k \in DOMAIN own : own[k].serial = s /\ p = own[k].pos
    BY DEF Positions
  <2>2. PICK i \in I : own[k] = samples[i]
    BY <1>5
  <2>3. i \in DOMAIN samples /\ InLatestRun(samples[i].time, r)
    BY <1>3, <1>4
  <2> QED
    BY <2>1, <2>2, <2>3 DEF PositionsIn
<1>8. PositionsIn(samples, s, r) = Positions(own, s)
  BY <1>6, <1>7
<1> QED
  BY <1>8 DEF samples, own, r

\* The report of duplicates, in both stores, of the history and of the latest finished run
\* (BuildDuplicateSerials, Timescale.ListDuplicateSerials).
THEOREM DuplicatesInv ==
  RunsInv => DuplicatesAreThose
<1> SUFFICES ASSUME RunsInv, kind = "runs" PROVE DuplicatesAreThose
  BY DEF DuplicatesAreThose
<1> DEFINE samples == SamplesOf(value)
           runs == Runs(value)
           latest == LatestFinishedRun(runs)
           finished == {n \in DOMAIN runs : runs[n].finished # 0}
           several(rows) == {s \in Serials : Cardinality({rows[i].pos : i \in {j \in DOMAIN rows :
                                                           rows[j].serial = s}}) > 1}
<1>1. samples \in Seq(RunRows) /\ runs \in Seq(RunRecords) /\ \A r \in RunRows : r.serial \in Serials \cup {Blank}
  <2>1. \A r \in RunRows : r.serial \in Serials \cup {Blank}
    BY DEF RunRows, Samples
  <2> QED
    BY <2>1, HistoryFacts
<1>2. \A rows : several(rows) = {s \in Serials : Cardinality(Positions(rows, s)) > 1}
  BY DEF Positions
<1>3. /\ TimescaleDuplicates(value, "history") = BuildDuplicateSerials(value, "history")
      /\ {d.serial : d \in TimescaleDuplicates(value, "history")} = several(samples)
  BY <1>1, <1>2, DuplicatesOfHistory
<1>4. /\ {<<d.serial, d.current>> : d \in TimescaleDuplicates(value, "current")}
           = {<<d.serial, d.current>> : d \in BuildDuplicateSerials(value, "current")}
      /\ {d.serial : d \in TimescaleDuplicates(value, "current")}
           = {s \in Serials : Cardinality(PositionsIn(samples, s, latest)) > 1}
  BY <1>1, DuplicatesOfRun
<1>5. /\ finished = {} => latest = NoRun
      /\ finished # {} => Max(finished) \in finished /\ latest = runs[Max(finished)]
  BY <1>1, LatestIs
<1> HIDE DEF latest
<1>6. finished = {} => {s \in Serials : Cardinality(PositionsIn(samples, s, latest)) > 1} = {}
  <2> SUFFICES ASSUME finished = {}, NEW s \in Serials PROVE ~(Cardinality(PositionsIn(samples, s, latest)) > 1)
    OBVIOUS
  <2>1. latest.id = 0
    BY <1>5 DEF NoRun
  <2>2. PositionsIn(samples, s, latest) = {}
    BY <2>1 DEF PositionsIn, InLatestRun
  <2>3. Cardinality(PositionsIn(samples, s, latest)) = 0
    BY <2>2, FS_EmptySet
  <2> QED
    BY <2>3
<1>7. ASSUME finished # {}
      PROVE  {s \in Serials : Cardinality(PositionsIn(samples, s, latest)) > 1} = several(SamplesOfRun(Max(finished)))
  <2>1. Max(finished) \in DOMAIN runs /\ runs[Max(finished)].finished # 0 /\ latest = runs[Max(finished)]
    BY <1>5, <1>7
  <2> HIDE DEF finished
  <2>2. ASSUME NEW s \in Serials
        PROVE  PositionsIn(samples, s, latest) = Positions(SamplesOfRun(Max(finished)), s)
    BY <2>1, PositionsOfRun
  <2> HIDE DEF several
  <2>3. several(SamplesOfRun(Max(finished))) = {s \in Serials : Cardinality(Positions(SamplesOfRun(Max(finished)), s)) > 1}
    BY <1>2
  <2> QED
    BY <2>2, <2>3
<1>8. {d.serial : d \in TimescaleDuplicates(value, "current")}
        = IF finished = {} THEN {} ELSE several(SamplesOfRun(Max(finished)))
  <2> HIDE DEF finished, several
  <2> QED
    BY <1>4, <1>6, <1>7
<1> QED
  BY <1>3, <1>4, <1>8 DEF DuplicatesAreThose

\* Rows counted by status sum up to the rows.
Buckets(counts) == UNION {{k} \X (1..counts[k]) : k \in DOMAIN counts}

LEMMA BucketsSumUp ==
  ASSUME NEW R, NEW rows \in Seq(R), NEW counts,
         counts = [k \in {rows[i].status : i \in DOMAIN rows} |->
                     Cardinality({i \in DOMAIN rows : rows[i].status = k})]
  PROVE  Cardinality(Buckets(counts)) = Len(rows)
<1> DEFINE m == Len(rows)
           I(k) == {i \in 1..m : rows[i].status = k}
           keys == {rows[i].status : i \in 1..m}
           all == UNION {{k} \X (1..counts[k]) : k \in DOMAIN counts}
           f == [i \in 1..m |-> <<rows[i].status, Rank(I(rows[i].status), i)>>]
<1>1. m \in Nat /\ DOMAIN rows = 1..m
  OBVIOUS
<1>2. DOMAIN counts = keys /\ \A k \in keys : counts[k] = Cardinality(I(k))
  BY <1>1
<1>3. ASSUME NEW k
      PROVE  /\ Ranked(I(k)) \in [1..Cardinality(I(k)) -> I(k)]
             /\ \A i \in I(k) : Rank(I(k), i) \in 1..Cardinality(I(k)) /\ Ranked(I(k))[Rank(I(k), i)] = i
             /\ \A j \in 1..Cardinality(I(k)) : Rank(I(k), Ranked(I(k))[j]) = j
  <2>1. I(k) \in SUBSET (1..m)
    OBVIOUS
  <2> HIDE DEF I, m
  <2> QED
    BY <1>1, <2>1, RankedIs
<1>4. \A k, i : i \in I(k) <=> i \in 1..m /\ rows[i].status = k
  OBVIOUS
<1>5. \A i \in 1..m : rows[i].status \in keys
  OBVIOUS
<1>6. \A k \in keys : k \in DOMAIN counts
  BY <1>2
<1>7. \A p : p \in all <=> \E k \in keys : \E j \in 1..Cardinality(I(k)) : p = <<k, j>>
  <2> HIDE DEF I, keys
  <2>1. \A p : p \in all <=> \E k \in DOMAIN counts : p \in {k} \X (1..counts[k])
    OBVIOUS
  <2>2. ASSUME NEW k, NEW S, NEW p PROVE p \in {k} \X S <=> \E j \in S : p = <<k, j>>
    <3>1. p \in {k} \X S => \E j \in S : p = <<k, j>>
      <4> SUFFICES ASSUME p \in {k} \X S PROVE p[2] \in S /\ p = <<k, p[2]>>
        OBVIOUS
      <4> QED
        OBVIOUS
    <3> QED
      BY <3>1
  <2> HIDE DEF all
  <2>3. ASSUME NEW p, p \in all PROVE \E k \in keys : \E j \in 1..Cardinality(I(k)) : p = <<k, j>>
    <3>1. PICK k \in keys : p \in {k} \X (1..counts[k])
      BY <1>2, <2>1, <2>3
    <3> DEFINE S == 1..counts[k]
    <3>2. p \in {k} \X S
      BY <3>1
    <3> HIDE DEF S
    <3>3. \E j \in S : p = <<k, j>>
      BY <2>2, <3>2
    <3> QED
      BY <1>2, <3>3 DEF S
  <2>4. ASSUME NEW k \in keys, NEW j \in 1..Cardinality(I(k)) PROVE <<k, j>> \in all
    <3>1. j \in 1..counts[k]
      BY <1>2
    <3>2. <<k, j>> \in {k} \X (1..counts[k])
      BY <3>1
    <3> QED
      BY <1>2, <2>1, <3>2
  <2> QED
    BY <2>3, <2>4
<1> HIDE DEF m, I, keys, all
<1>8. f \in Surjection(1..m, all)
  <2>1. ASSUME NEW i \in 1..m PROVE f[i] \in all
    BY <1>3, <1>4, <1>5, <1>7
  <2>2. ASSUME NEW p \in all PROVE \E i \in 1..m : f[i] = p
    <3>1. PICK k \in keys : \E j \in 1..Cardinality(I(k)) : p = <<k, j>>
      BY <1>7
    <3>2. PICK j \in 1..Cardinality(I(k)) : p = <<k, j>>
      BY <3>1
    <3>3. Ranked(I(k))[j] \in I(k) /\ Rank(I(k), Ranked(I(k))[j]) = j
      BY <1>3
    <3> DEFINE i == Ranked(I(k))[j]
    <3>4. i \in 1..m /\ rows[i].status = k
      BY <1>4, <3>3
    <3>5. f[i] = <<k, j>>
      BY <3>3, <3>4
    <3> HIDE DEF f, i
    <3> QED
      BY <3>2, <3>4, <3>5
  <2>3. f = [i \in 1..m |-> f[i]]
    OBVIOUS
  <2> HIDE DEF f
  <2> QED
    BY <2>1, <2>2, <2>3 DEF Surjection
<1>9. f \in Injection(1..m, all)
  <2>1. ASSUME NEW i \in 1..m, NEW j \in 1..m, f[i] = f[j] PROVE i = j
    <3> DEFINE k == rows[i].status
    <3>1. rows[j].status = k /\ Rank(I(k), i) = Rank(I(k), j) /\ i \in I(k) /\ j \in I(k)
      BY <1>4, <2>1
    <3> HIDE DEF k
    <3> QED
      BY <1>3, <3>1
  <2> HIDE DEF f
  <2> QED
    BY <1>8, <2>1 DEF Surjection, Injection, IsInjective
<1>10. Cardinality(all) = m
  <2>1. IsFiniteSet(1..m) /\ Cardinality(1..m) = m
    BY <1>1, FS_Interval
  <2> HIDE DEF f
  <2> QED
    BY <1>8, <1>9, <2>1, FS_Surjection
<1> QED
  BY <1>10 DEF all, m, Buckets

\* The first of the rows, and their times.
Times(rows) == [i \in DOMAIN rows |-> rows[i].time]

LEMMA FirstTimes ==
  ASSUME NEW R, \A r \in R : r.time \in Nat, NEW rows \in Seq(R), NEW n \in Nat
  PROVE  LET l == IF n < Len(rows) THEN n ELSE Len(rows) IN
         /\ Times(First(n, rows)) \in Seq(Nat) /\ Len(Times(First(n, rows))) = l
         /\ \A i \in 1..l : Times(First(n, rows))[i] = rows[i].time
<1> DEFINE l == IF n < Len(rows) THEN n ELSE Len(rows)
           part == SubSeq(rows, 1, l)
<1>1. l \in Nat /\ l <= Len(rows) /\ Len(rows) \in Nat
  OBVIOUS
<1>2. First(n, rows) = part
  BY DEF First
<1> HIDE DEF l
<1>3. part \in Seq(R) /\ Len(part) = l /\ \A i \in 1..l : part[i] = rows[i]
  BY <1>1
<1> HIDE DEF part
<1>4. DOMAIN part = 1..l /\ \A i \in 1..l : part[i].time \in Nat
  BY <1>1, <1>3
<1>5. Times(part) = [i \in 1..l |-> part[i].time]
  BY <1>4 DEF Times
<1>6. /\ Times(part) \in Seq(Nat) /\ Len(Times(part)) = l
      /\ \A i \in 1..l : Times(part)[i] = part[i].time
  BY <1>1, <1>4, <1>5
<1> QED
  BY <1>2, <1>3, <1>6 DEF l

IsQuery(q) ==
  /\ q = [run |-> q.run, latest |-> q.latest, from |-> q.from, to |-> q.to, status |-> q.status, limit |-> q.limit]
  /\ q.limit \in Nat

\* The limit of a query is no part of what it matches.
LEMMA LimitsApart ==
  ASSUME NEW runs, NEW now, NEW q, IsQuery(q), NEW all \in Nat \ {0}
  PROVE  LET w == ApplyRunWindow(runs, q, now)
             v == ApplyRunWindow(runs, [q EXCEPT !.limit = all], now) IN
         /\ w.limit \in {q.limit, MaxLimit} /\ v.limit = all
         /\ \A x : MatchSample(x, v, now) <=> MatchSample(x, w, now)
<1> DEFINE p == [q EXCEPT !.limit = all]
           w == ApplyRunWindow(runs, q, now)
           v == ApplyRunWindow(runs, p, now)
           r == runs[IF q.latest THEN Len(runs) ELSE q.run]
           to == IF r.finished # 0 THEN r.finished ELSE now
<1>1. /\ p.run = q.run /\ p.latest = q.latest /\ p.from = q.from /\ p.to = q.to /\ p.status = q.status /\ p.limit = all
      /\ p = [run |-> p.run, latest |-> p.latest, from |-> p.from, to |-> p.to, status |-> p.status, limit |-> p.limit]
      /\ q = [run |-> q.run, latest |-> q.latest, from |-> q.from, to |-> q.to, status |-> q.status, limit |-> q.limit]
  BY DEF IsQuery
<1> HIDE DEF p
<1>2. /\ w.limit \in {q.limit, MaxLimit} /\ v.limit = all
      /\ w.from = v.from /\ w.to = v.to /\ w.status = v.status
  <2>1. CASE q.run = 0 /\ ~q.latest
    <3>1. w = q /\ v = p
      BY <1>1, <2>1 DEF ApplyRunWindow
    <3> HIDE DEF w, v
    <3> QED
      BY <1>1, <3>1
  <2>2. CASE ~(q.run = 0 /\ ~q.latest)
    <3> DEFINE a == [q EXCEPT !.from = r.started, !.to = to, !.limit = IF @ = 0 THEN MaxLimit ELSE @]
               b == [p EXCEPT !.from = r.started, !.to = to, !.limit = IF @ = 0 THEN MaxLimit ELSE @]
    <3>1. w = a /\ v = b
      BY <1>1, <2>2 DEF ApplyRunWindow
    <3> HIDE DEF w, v, r, to
    <3>2. a.from = r.started /\ a.to = to /\ a.status = q.status /\ a.limit \in {q.limit, MaxLimit}
      BY <1>1
    <3>3. b.from = r.started /\ b.to = to /\ b.status = p.status /\ b.limit = IF p.limit = 0 THEN MaxLimit ELSE p.limit
      BY <1>1
    <3> HIDE DEF a, b
    <3> QED
      BY <1>1, <3>1, <3>2, <3>3
  <2> QED
    BY <2>1, <2>2
<1> HIDE DEF w, v
<1>3. SampleWindow(v, now) = SampleWindow(w, now)
  BY <1>2 DEF SampleWindow
<1>4. \A x : MatchSample(x, v, now) <=> MatchSample(x, w, now)
  BY <1>2, <1>3 DEF MatchSample
<1> QED
  BY <1>2, <1>4 DEF w, v, p

\* What is cut from a list of times is its beginning.
LEMMA FirstOfTimes ==
  ASSUME NEW list \in Seq(Nat), NEW whole \in Seq(Nat), Len(list) <= Len(whole),
         \A i \in 1..Len(list) : list[i] = whole[i]
  PROVE  list = First(Len(list), whole)
<1> DEFINE l == Len(list)
           cut == SubSeq(whole, 1, l)
<1>1. l \in Nat /\ Len(whole) \in Nat
  OBVIOUS
<1>2. First(l, whole) = cut
  BY <1>1 DEF First
<1>3. cut \in Seq(Nat) /\ Len(cut) = l /\ \A i \in 1..l : cut[i] = whole[i]
  BY <1>1
<1> HIDE DEF cut
<1>4. list = cut
  BY <1>3, SameElements
<1> QED
  BY <1>2, <1>4

LEMMA QueriesAreQueries == \A q \in Queries : IsQuery(q)
<1> DEFINE run == 0..Len(Runs(value))
           status == {None, "online"}
           end == {0, Len(value)}
           limit == {0, 1, MaxLimit + 1}
           some == {1, MaxLimit + 1}
<1>1. limit \in SUBSET Nat /\ some \in SUBSET Nat
  BY LimitsAssumption
<1>2. Queries = [run : run, latest : BOOLEAN, from : {0}, to : {0}, status : {None}, limit : limit]
                  \cup [run : {0}, latest : {FALSE}, from : {0, 2}, to : end, status : status, limit : some]
  BY DEF Queries
<1> HIDE DEF run, status, end, limit, some
<1>3. ASSUME NEW q \in [run : run, latest : BOOLEAN, from : {0}, to : {0}, status : {None}, limit : limit]
      PROVE  IsQuery(q)
  BY <1>1 DEF IsQuery
<1>4. ASSUME NEW q \in [run : {0}, latest : {FALSE}, from : {0, 2}, to : end, status : status, limit : some]
      PROVE  IsQuery(q)
  BY <1>1 DEF IsQuery
<1> QED
  BY <1>2, <1>3, <1>4

\* A list is as much of the rows that the counts count as its limit lets through, the
\* newest, in both stores (ListSamples, ListSampleCounts).
THEOREM ListsInv ==
  RunsInv => ListsMatchCounts
<1> SUFFICES ASSUME RunsInv, kind = "runs", NEW q \in Queries
             PROVE  LET counts == SampleCounts(value, q, Now)
                        total == Cardinality(UNION {{k} \X (1..counts[k]) : k \in DOMAIN counts})
                        times(rows) == [i \in DOMAIN rows |-> rows[i].time]
                        list == times(TimescaleList(value, q, Now))
                        all == Len(SamplesOf(value)) + 1
                        whole == times(MemoryList(value, [q EXCEPT !.limit = all], Now)) IN
                    /\ total = Len(whole)
                    /\ list = First(Len(list), whole)
                    /\ Len(list) < total => Len(list) \in {DefaultLimit, q.limit, MaxLimit}
                    /\ times(MemoryList(value, q, Now)) # list => q.limit > MaxLimit
  BY DEF ListsMatchCounts
<1> DEFINE samples == SamplesOf(value)
           all == Len(samples) + 1
           p == [q EXCEPT !.limit = all]
           w == ApplyRunWindow(Runs(value), q, Now)
           v == ApplyRunWindow(Runs(value), p, Now)
           rows == Matching(value, q, Now)
           rev == Reverse(rows)
           m == Len(rows)
           lim == SampleLimit(w)
           mem == IF w.limit = 0 THEN DefaultLimit ELSE w.limit
           counts == SampleCounts(value, q, Now)
           total == Cardinality(Buckets(counts))
           list == Times(TimescaleList(value, q, Now))
           memory == Times(MemoryList(value, q, Now))
           whole == Times(MemoryList(value, p, Now))
<1>1. samples \in Seq(RunRows) /\ \A r \in RunRows : r.time \in Nat
  BY HistoryFacts DEF RunRows, Samples
<1>2. all \in Nat \ {0} /\ IsQuery(q) /\ q.limit \in Nat
  BY <1>1, QueriesAreQueries DEF IsQuery
<1>3. /\ w.limit \in {q.limit, MaxLimit} /\ v.limit = all
      /\ \A x : MatchSample(x, v, Now) <=> MatchSample(x, w, Now)
  BY <1>2, LimitsApart
<1>4. DefaultLimit \in Nat /\ MaxLimit \in Nat
  BY LimitsAssumption
<1> HIDE DEF samples, w, v, p, all
<1>5. rows = Elements(samples, MatchOf(samples, w, Now)) /\ Matching(value, p, Now) = Elements(samples, MatchOf(samples, v, Now))
  BY MatchingIs DEF samples, w, v
<1>6. MatchOf(samples, v, Now) = MatchOf(samples, w, Now)
  BY <1>3 DEF MatchOf
<1>7. rows \in Seq(RunRows) /\ m \in Nat /\ m < all
  <2> DEFINE I == MatchOf(samples, w, Now)
             n == Len(samples)
  <2>1. n \in Nat /\ DOMAIN samples = 1..n /\ all = n + 1
    BY <1>1 DEF all
  <2>2. I \in SUBSET DOMAIN samples
    BY DEF MatchOf
  <2> HIDE DEF I
  <2>3. rows \in Seq(RunRows) /\ m = Cardinality(I) /\ Cardinality(I) \in Nat
    BY <1>1, <1>5, <2>2, ElementsAre DEF I
  <2> HIDE DEF n
  <2>4. IsFiniteSet(1..n) /\ Cardinality(1..n) = n
    BY <2>1, FS_Interval
  <2>5. Cardinality(I) <= n
    BY <2>1, <2>2, <2>4, FS_Subset
  <2> QED
    BY <2>1, <2>3, <2>5
<1>8. /\ TimescaleList(value, q, Now) = First(lim, rev) /\ MemoryList(value, q, Now) = First(mem, rev)
      /\ MemoryList(value, p, Now) = First(all, rev)
  <2>1. TimescaleList(value, q, Now) = First(lim, rev) /\ MemoryList(value, q, Now) = First(mem, rev)
    BY DEF TimescaleList, MemoryList, w
  <2>2. MemoryList(value, p, Now) = First(IF v.limit = 0 THEN DefaultLimit ELSE v.limit, Reverse(Matching(value, p, Now)))
    BY DEF MemoryList, v
  <2>3. Matching(value, p, Now) = rows /\ (IF v.limit = 0 THEN DefaultLimit ELSE v.limit) = all
    BY <1>2, <1>3, <1>5, <1>6
  <2> HIDE DEF rows
  <2> QED
    BY <2>1, <2>2, <2>3
<1>9. total = m
  <2>1. counts = [k \in {rows[i].status : i \in DOMAIN rows} |-> Cardinality({i \in DOMAIN rows : rows[i].status = k})]
    BY DEF SampleCounts
  <2> HIDE DEF counts, rows
  <2>2. Cardinality(Buckets(counts)) = Len(rows)
    BY ONLY <1>7, <2>1, BucketsSumUp
  <2> QED
    BY <2>2
<1> HIDE DEF rows
<1>10. rev \in Seq(RunRows) /\ Len(rev) = m
  <2>1. \A i \in 1..m : (m - i) + 1 \in 1..m
    BY <1>7
  <2>2. rev = [i \in 1..m |-> rows[(m - i) + 1]]
    BY DEF Reverse
  <2> HIDE DEF rev
  <2> QED
    BY <1>7, <2>1, <2>2
<1>11. /\ lim \in Nat /\ mem \in Nat /\ all \in Nat
       /\ lim \in {DefaultLimit, q.limit, MaxLimit}
       /\ ~(q.limit > MaxLimit) => mem = lim
  BY <1>2, <1>3, <1>4 DEF SampleLimit
<1> HIDE DEF rev, lim, mem, m
<1>12. /\ list \in Seq(Nat) /\ Len(list) = (IF lim < m THEN lim ELSE m)
       /\ \A i \in 1..Len(list) : list[i] = rev[i].time
  <2> DEFINE n == IF lim < m THEN lim ELSE m
             cut == Times(First(lim, rev))
  <2>1. cut \in Seq(Nat) /\ Len(cut) = n /\ \A i \in 1..n : cut[i] = rev[i].time
    BY <1>1, <1>10, <1>11, FirstTimes
  <2>2. list = cut
    BY <1>8
  <2> HIDE DEF cut, list, n
  <2>3. list \in Seq(Nat) /\ Len(list) = n /\ \A i \in 1..Len(list) : list[i] = rev[i].time
    BY <2>1, <2>2
  <2> QED
    BY <2>3 DEF n
<1>13. /\ whole \in Seq(Nat) /\ Len(whole) = m
       /\ \A i \in 1..m : whole[i] = rev[i].time
  <2>1. (IF all < m THEN all ELSE m) = m
    BY <1>7, <1>11
  <2> QED
    BY <1>1, <1>8, <1>10, <1>11, <2>1, FirstTimes
<1>14. mem = lim => memory = list
  BY <1>8
<1> HIDE DEF list, whole, memory, total
<1>15. list = First(Len(list), whole)
  <2>1. Len(list) <= Len(whole) /\ \A i \in 1..Len(list) : i \in 1..m
    BY <1>7, <1>11, <1>12, <1>13
  <2> QED
    BY <1>12, <1>13, <2>1, FirstOfTimes
<1>16. /\ total = Len(whole)
       /\ Len(list) < total => Len(list) \in {DefaultLimit, q.limit, MaxLimit}
       /\ memory # list => q.limit > MaxLimit
  BY <1>7, <1>9, <1>11, <1>12, <1>13, <1>14
<1> QED
  BY <1>15, <1>16 DEF list, whole, memory, total, counts, Buckets, Times, p, all, samples

-----------------------------------------------------------------------------
(***************************************************************************)
(* The histories of module HistoryInputs are such histories.               *)
(***************************************************************************)
LEMMA FinitePorts ==
  \A t \in PortTables : t \in Tables({"up", "unknown"})
<1>1. IsFiniteSet({}) /\ IsFiniteSet({1}) /\ IsFiniteSet({3})
  BY FS_EmptySet, FS_Singleton
<1>2. NoPorts \in [{} -> {"up", "unknown"}]
  BY DEF NoPorts
<1>3. [p \in {1} |-> "up"] \in [{1} -> {"up", "unknown"}] /\ [p \in {3} |-> "up"] \in [{3} -> {"up", "unknown"}]
  OBVIOUS
<1> DEFINE L == {"up", "unknown"}
           Finite == {Q \in SUBSET (Nat \ {0}) : IsFiniteSet(Q)}
<1>4. {} \in Finite /\ {1} \in Finite /\ {3} \in Finite
  BY <1>1
<1> HIDE DEF L, Finite
<1>5. ASSUME NEW P \in Finite, NEW t \in [P -> L] PROVE t \in UNION {[Q -> L] : Q \in Finite}
  BY <1>5
<1>6. \A t \in PortTables : t = NoPorts \/ t = [p \in {1} |-> "up"] \/ t = [p \in {3} |-> "up"]
  BY Zenon DEF PortTables
<1>7. /\ NoPorts \in UNION {[Q -> L] : Q \in Finite}
      /\ [p \in {1} |-> "up"] \in UNION {[Q -> L] : Q \in Finite}
      /\ [p \in {3} |-> "up"] \in UNION {[Q -> L] : Q \in Finite}
  <2>1. /\ NoPorts \in [{} -> L] /\ [p \in {1} |-> "up"] \in [{1} -> L] /\ [p \in {3} |-> "up"] \in [{3} -> L]
    BY <1>2, <1>3, Zenon DEF L
  <2> QED
    BY <1>4, <1>5, <2>1, Zenon
<1> QED
  BY <1>6, <1>7, Zenon DEF Tables, L, Finite

HistoryInv == LogInv /\ UnauthInv /\ RunsInv

\* The time of the next call, and the row of an ONU whose serial number is blank.
LEMMA NextCall ==
  ASSUME NEW C, value \in Seq(C), kind \in {"none", "log", "runs", "unauth"}
  PROVE  Now = Len(value) + 1 /\ Now \in Nat \ {0}
<1>1. Len(value) \in Nat
  OBVIOUS
<1> QED
  BY <1>1 DEF Now

LEMMA RowsAreSamples ==
  ASSUME Now \in Nat \ {0}
  PROVE  /\ \A pos \in {1, 2} : \A r \in RowsAt(pos) : r \in RunRows /\ r.pos = pos /\ r.time = Now
         /\ BlankAt(1) \in RunRows /\ BlankAt(1).pos = 1 /\ BlankAt(1).time = Now
         /\ \A s \in Serials, pos \in {1, 2}, status \in {"online", "offline"} :
              PlainRow(s, pos, status) \in RunRows /\ PlainRow(s, pos, status).time = Now
<1>1. \A t \in PortTables : t \in Tables({"up", "unknown"})
  BY FinitePorts
<1>2. NoPorts \in PortTables /\ NoPorts \in Tables({"up", "unknown"})
  BY <1>1 DEF PortTables
<1> DEFINE tables == Tables({"up", "unknown"})
<1> HIDE DEF tables
<1>3. \A pos \in {1, 2} : \A r \in RowsAt(pos) : r \in RunRows /\ r.pos = pos /\ r.time = Now
  <2>1. PortTables \subseteq tables
    BY <1>1 DEF tables
  <2>2. RunRows = [time : Nat \ {0}, pos : {1, 2}, serial : Serials \cup {Blank}, status : {"online", "offline"},
                   expected : Nat, ports : tables]
    BY DEF RunRows, Samples, tables
  <2> QED
    BY <2>1, <2>2 DEF RowsAt
<1>4. ASSUME NEW s \in Serials \cup {Blank}, NEW pos \in {1, 2}, NEW status \in {"online", "offline"}
      PROVE  LET r == [time |-> Now, pos |-> pos, serial |-> s, status |-> status, expected |-> 0, ports |-> NoPorts] IN
             r \in RunRows /\ r.pos = pos /\ r.time = Now
  BY <1>2 DEF RunRows, Samples, tables
<1>5. BlankAt(1) \in RunRows /\ BlankAt(1).pos = 1 /\ BlankAt(1).time = Now
  BY <1>4 DEF BlankAt
<1>6. \A s \in Serials, pos \in {1, 2}, status \in {"online", "offline"} :
        PlainRow(s, pos, status) \in RunRows /\ PlainRow(s, pos, status).time = Now
  BY <1>4 DEF PlainRow
<1> QED
  BY <1>3, <1>5, <1>6

LEMMA LogStep ==
  ASSUME LogInv, kind = "none" => value = <<>>, Poll
  PROVE  value' \in Seq(LogCalls)
<1> DEFINE c(b) == [call |-> "poll", time |-> Now, rows |-> b]
<1>1. PICK b \in Batches : kind \in {"none", "log"} /\ value' = Append(value, c(b))
  BY Zenon DEF Poll, Grow
<1>2. value \in Seq(LogCalls)
  <2>1. CASE kind = "none"
    BY <2>1
  <2>2. CASE kind = "log"
    BY <2>2 DEF LogInv
  <2> QED
    BY <1>1, <2>1, <2>2
<1>3. Now \in Nat \ {0}
  BY <1>1, <1>2, NextCall
<1>4. b \in LogRows
  <2>1. ASSUME NEW r \in RunRows
        PROVE  <<r>> \in LogRows
    <3>1. <<r>> \in Seq(RunRows) /\ OnePerPosition(<<r>>)
      BY DEF OnePerPosition
    <3> QED
      BY <3>1 DEF LogRows, RunRows
  <2>2. ASSUME NEW r \in RunRows, NEW q \in RunRows, r.pos = 1, q.pos = 2
        PROVE  <<r, q>> \in LogRows
    <3> DEFINE rows == <<r, q>>
    <3>1. rows \in Seq(RunRows) /\ DOMAIN rows = {1, 2} /\ rows[1].pos = 1 /\ rows[2].pos = 2
      BY <2>2
    <3> HIDE DEF rows
    <3>2. OnePerPosition(rows)
      BY <3>1 DEF OnePerPosition
    <3> QED
      BY <3>1, <3>2 DEF LogRows, RunRows, rows
  <2>3. \/ \E r \in RowsAt(1) : b = <<r>>
        \/ \E r \in RowsAt(1) \cup {BlankAt(1)}, q \in RowsAt(2) : b = <<r, q>>
    <3> DEFINE A == {<<r>> : r \in RowsAt(1)}
               B == {<<r, q>> : r \in RowsAt(1) \cup {BlankAt(1)}, q \in RowsAt(2)}
    <3>1. b \in A => \E r \in RowsAt(1) : b = <<r>>
      OBVIOUS
    <3>2. b \in B => \E r \in RowsAt(1) \cup {BlankAt(1)}, q \in RowsAt(2) : b = <<r, q>>
      OBVIOUS
    <3>3. Batches = A \cup B
      BY DEF Batches
    <3> HIDE DEF A, B
    <3>4. b \in A \/ b \in B
      BY <1>1, <3>3
    <3> QED
      BY <3>1, <3>2, <3>4, Zenon
  <2>4. /\ \A r \in RowsAt(1) \cup {BlankAt(1)} : r \in RunRows /\ r.pos = 1
        /\ \A q \in RowsAt(2) : q \in RunRows /\ q.pos = 2
    BY <1>3, RowsAreSamples
  <2> QED
    BY <2>1, <2>2, <2>3, <2>4, Zenon
<1>5. c(b) \in LogCalls
  BY <1>3, <1>4 DEF LogCalls
<1> HIDE DEF c
<1> QED
  BY <1>1, <1>2, <1>5

LEMMA UnauthStep ==
  ASSUME UnauthInv, kind = "none" => value = <<>>, Discover
  PROVE  value' \in Seq(UnauthCalls)
<1>1. PICK c \in UnauthCalls : kind \in {"none", "unauth"} /\ value' = Append(value, c)
  <2>1. CASE \E found \in SUBSET Candidates :
               Grow("unauth", MaxPolls, [call |-> "unauth", status |-> "ok", serials |-> found])
    <3>1. PICK found \in SUBSET Candidates :
                 Grow("unauth", MaxPolls, [call |-> "unauth", status |-> "ok", serials |-> found])
      BY <2>1
    <3> DEFINE c == [call |-> "unauth", status |-> "ok", serials |-> found]
    <3>2. c \in UnauthCalls
      BY DEF UnauthCalls
    <3> QED
      BY <3>1, <3>2, Zenon DEF Grow
  <2>2. CASE \E status \in {"unsupported", "unavailable"} :
               Grow("unauth", MaxPolls, [call |-> "unauth", status |-> status, serials |-> {}])
    <3>1. PICK status \in {"unsupported", "unavailable"} :
                 Grow("unauth", MaxPolls, [call |-> "unauth", status |-> status, serials |-> {}])
      BY <2>2
    <3> DEFINE c == [call |-> "unauth", status |-> status, serials |-> {}]
    <3>2. c \in UnauthCalls
      BY DEF UnauthCalls
    <3> QED
      BY <3>1, <3>2, Zenon DEF Grow
  <2> QED
    BY <2>1, <2>2 DEF Discover
<1>2. value \in Seq(UnauthCalls)
  <2>1. CASE kind = "none"
    BY <2>1
  <2>2. CASE kind = "unauth"
    BY <2>2 DEF UnauthInv
  <2> QED
    BY <1>1, <2>1, <2>2
<1> QED
  BY <1>1, <1>2

\* The next call comes at its time.
LEMMA NextInTime ==
  ASSUME NEW C, NEW h \in Seq(C), InTime(h), NEW c \in C, c.time = Len(h) + 1,
         c.call = "poll" => \A j \in DOMAIN c.rows : c.rows[j].time = Len(h) + 1
  PROVE  InTime(Append(h, c))
<1> DEFINE n == Len(h)
           longer == Append(h, c)
<1>1. /\ n \in Nat /\ DOMAIN h = 1..n /\ DOMAIN longer = 1..(n + 1)
      /\ longer[n + 1] = c /\ \A i \in 1..n : longer[i] = h[i]
  OBVIOUS
<1>2. c.time = n + 1 /\ (c.call = "poll" => \A j \in DOMAIN c.rows : c.rows[j].time = n + 1)
  OBVIOUS
<1> HIDE DEF n, longer
<1>3. \A i \in 1..(n + 1) : i \in 1..n \/ i = n + 1
  BY <1>1
<1>4. \A i \in 1..n : /\ h[i].time = i
                      /\ h[i].call = "poll" => \A j \in DOMAIN h[i].rows : h[i].rows[j].time = i
  BY <1>1 DEF InTime
<1>5. ASSUME NEW i \in 1..(n + 1)
      PROVE  /\ longer[i].time = i
             /\ longer[i].call = "poll" => \A j \in DOMAIN longer[i].rows : longer[i].rows[j].time = i
  BY <1>1, <1>2, <1>3, <1>4, Zenon
<1>6. InTime(longer)
  BY <1>1, <1>5, Zenon DEF InTime
<1> QED
  BY <1>6 DEF longer

\* The runs of no call at all.
LEMMA NoRunsYet == Runs(<<>>) = <<>> /\ RunsAreCalls(<<>>) /\ InTime(<<>>)
<1>1. Timed(RunCalls) /\ <<>> \in Seq(RunCalls)
  BY RunCallsAre
<1>2. RunsByCall(<<>>)
  BY <1>1, RunsOfCalls
<1>3. Runs(<<>>) = <<>>
  <2>1. Len(<<>>) = 0
    OBVIOUS
  <2> QED
    BY <1>2, <2>1 DEF RunsByCall
<1>4. Starts(<<>>, 0) = {}
  BY DEF Starts
<1>5. Cardinality(Starts(<<>>, 0)) = 0
  BY <1>4, FS_EmptySet
<1>6. RunsAreCalls(<<>>)
  <2>1. Len(<<>>) = 0 /\ DOMAIN <<>> = {}
    OBVIOUS
  <2> QED
    BY <1>3, <1>5, <2>1 DEF RunsAreCalls
<1>7. InTime(<<>>)
  BY DEF InTime
<1> QED
  BY <1>3, <1>6, <1>7

\* What a call of a run does to the history of the runs before it.
LEMMA RunsOfAppend ==
  ASSUME RunsInv, kind \in {"none", "runs"}, kind = "none" => value = <<>>,
         NEW c \in RunCalls, c.time = Now,
         c.call = "poll" => \A j \in DOMAIN c.rows : c.rows[j].time = Now,
         \/ c.call = "start"
         \/ c.call \in {"poll", "finish"} /\ Runs(value) # <<>> /\ Last(Runs(value)).finished = 0
  PROVE  LET longer == Append(value, c) IN
         longer \in Seq(RunCalls) /\ InTime(longer) /\ RunsAreCalls(longer)
<1>1. value \in Seq(RunCalls) /\ InTime(value) /\ RunsAreCalls(value)
  <2>1. CASE kind = "none"
    BY <2>1, NoRunsYet
  <2>2. CASE kind = "runs"
    BY <2>2 DEF RunsInv
  <2> QED
    BY <2>1, <2>2
<1>2. Now = Len(value) + 1
  BY <1>1, NextCall
<1>3. InTime(Append(value, c))
  BY <1>1, <1>2, NextInTime
<1>4. \/ c.call = "start"
      \/ c.call \in {"poll", "finish"} /\ Runs(value) # <<>> /\ Runs(value)[Len(Runs(value))].finished = 0
  BY DEF Last
<1>5. RunsAreCalls(Append(value, c))
  BY <1>1, <1>2, <1>4, RunCallsAre, RunsGoOn
<1> QED
  BY <1>1, <1>3, <1>5

LEMMA RunsStep ==
  ASSUME RunsInv, kind = "none" => value = <<>>, PollOfRun \/ StartRun \/ FinishRun
  PROVE  value' \in Seq(RunCalls) /\ InTime(value') /\ RunsAreCalls(value')
<1>1. Now \in Nat \ {0} /\ kind \in {"none", "runs"}
  <2>1. kind \in {"none", "runs"}
    BY Zenon DEF PollOfRun, StartRun, FinishRun, Grow
  <2>2. value \in Seq(RunCalls)
    <3>1. CASE kind = "none"
      BY <3>1
    <3>2. CASE kind = "runs"
      BY <3>2 DEF RunsInv
    <3> QED
      BY <2>1, <3>1, <3>2
  <2> QED
    BY <2>1, <2>2, NextCall
<1>2. CASE PollOfRun
  <2> DEFINE c(b) == [call |-> "poll", time |-> Now, rows |-> b]
  <2>1. PICK b \in RunPolls : value' = Append(value, c(b))
    BY <1>2, Zenon DEF PollOfRun, Grow
  <2>2. b \in Seq(RunRows) /\ \A j \in DOMAIN b : b[j].time = Now
    <3>1. ASSUME NEW r \in RunRows, r.time = Now
          PROVE  <<r>> \in Seq(RunRows) /\ \A j \in DOMAIN <<r>> : <<r>>[j].time = Now
      BY <3>1
    <3>2. ASSUME NEW r \in RunRows, NEW q \in RunRows, r.time = Now, q.time = Now
          PROVE  <<r, q>> \in Seq(RunRows) /\ \A j \in DOMAIN <<r, q>> : <<r, q>>[j].time = Now
      <4> DEFINE rows == <<r, q>>
      <4>1. rows \in Seq(RunRows) /\ DOMAIN rows = {1, 2} /\ rows[1].time = Now /\ rows[2].time = Now
        BY <3>2
      <4> HIDE DEF rows
      <4>2. \A j \in DOMAIN rows : rows[j].time = Now
        BY <4>1
      <4> QED
        BY <4>1, <4>2 DEF rows
    <3>3. CASE b = <<BlankAt(1)>>
      BY <1>1, <3>1, <3>3, RowsAreSamples
    <3>4. CASE \E s \in Serials : b \in {<<PlainRow(s, 1, "online")>>, <<PlainRow(s, 2, "offline")>>,
                                         <<PlainRow(s, 1, "online"), PlainRow(s, 2, "online")>>}
      <4>1. PICK s \in Serials :
              \/ b = <<PlainRow(s, 1, "online")>>
              \/ b = <<PlainRow(s, 2, "offline")>>
              \/ b = <<PlainRow(s, 1, "online"), PlainRow(s, 2, "online")>>
        BY <3>4, Zenon
      <4>2. \A pos \in {1, 2}, status \in {"online", "offline"} :
              PlainRow(s, pos, status) \in RunRows /\ PlainRow(s, pos, status).time = Now
        BY <1>1, RowsAreSamples
      <4>3. /\ PlainRow(s, 1, "online") \in RunRows /\ PlainRow(s, 1, "online").time = Now
            /\ PlainRow(s, 2, "online") \in RunRows /\ PlainRow(s, 2, "online").time = Now
            /\ PlainRow(s, 2, "offline") \in RunRows /\ PlainRow(s, 2, "offline").time = Now
        BY <4>2
      <4> QED
        BY <3>1, <3>2, <4>1, <4>3, Zenon
    <3>5. b = <<BlankAt(1)>> \/ \E s \in Serials :
             b \in {<<PlainRow(s, 1, "online")>>, <<PlainRow(s, 2, "offline")>>,
                    <<PlainRow(s, 1, "online"), PlainRow(s, 2, "online")>>}
      <4> DEFINE P(s) == {<<PlainRow(s, 1, "online")>>, <<PlainRow(s, 2, "offline")>>,
                          <<PlainRow(s, 1, "online"), PlainRow(s, 2, "online")>>}
                 U == UNION {P(s) : s \in Serials}
                 blank == <<BlankAt(1)>>
      <4>1. RunPolls = {blank} \cup U
        BY DEF RunPolls
      <4> HIDE DEF P
      <4>2. b \in U => \E s \in Serials : b \in P(s)
        OBVIOUS
      <4> HIDE DEF U, blank
      <4>3. b = blank \/ b \in U
        BY <2>1, <4>1
      <4> QED
        BY <4>2, <4>3, Zenon DEF P, blank
    <3> QED
      BY <3>3, <3>4, <3>5
  <2>3. c(b) \in RunCalls /\ c(b).call = "poll" /\ c(b).time = Now /\ c(b).rows = b
    BY <1>1, <2>2 DEF RunCalls
  <2>4. Runs(value) # <<>> /\ Last(Runs(value)).finished = 0
    BY <1>2 DEF PollOfRun
  <2> HIDE DEF c
  <2> QED
    BY <1>1, <2>1, <2>2, <2>3, <2>4, RunsOfAppend
<1>3. CASE StartRun
  <2> DEFINE c == [call |-> "start", time |-> Now]
  <2>1. value' = Append(value, c)
    BY <1>3, Zenon DEF StartRun, Grow
  <2>2. c \in RunCalls /\ c.call = "start" /\ c.time = Now
    BY <1>1 DEF RunCalls
  <2> HIDE DEF c
  <2> QED
    BY <1>1, <2>1, <2>2, RunsOfAppend
<1>4. CASE FinishRun
  <2> DEFINE c == [call |-> "finish", time |-> Now]
  <2>1. value' = Append(value, c)
    BY <1>4, Zenon DEF FinishRun, Grow
  <2>2. c \in RunCalls /\ c.call = "finish" /\ c.time = Now
    BY <1>1 DEF RunCalls
  <2>3. Runs(value) # <<>> /\ Last(Runs(value)).finished = 0
    BY <1>4 DEF FinishRun
  <2> HIDE DEF c
  <2> QED
    BY <1>1, <2>1, <2>2, <2>3, RunsOfAppend
<1> QED
  BY <1>2, <1>3, <1>4

\* A call makes a longer history of its kind.
LEMMA HistoryStep ==
  ASSUME HistoryInv, kind = "none" => value = <<>>, HistoryNext
  PROVE  HistoryInv'
<1>1. LogInv /\ UnauthInv /\ RunsInv
  BY DEF HistoryInv
<1>2. CASE Poll
  <2>1. kind' = "log"
    BY <1>2, Zenon DEF Poll, Grow
  <2>2. value' \in Seq(LogCalls)
    BY <1>1, <1>2, LogStep
  <2> QED
    BY <2>1, <2>2 DEF HistoryInv, LogInv, UnauthInv, RunsInv
<1>3. CASE PollOfRun \/ StartRun \/ FinishRun
  <2>1. kind' = "runs"
    BY <1>3, Zenon DEF PollOfRun, StartRun, FinishRun, Grow
  <2>2. value' \in Seq(RunCalls) /\ InTime(value') /\ RunsAreCalls(value')
    BY <1>1, <1>3, RunsStep
  <2> QED
    BY <2>1, <2>2 DEF HistoryInv, LogInv, UnauthInv, RunsInv
<1>4. CASE Discover
  <2>1. kind' = "unauth"
    BY <1>4, Zenon DEF Discover, Grow
  <2>2. value' \in Seq(UnauthCalls)
    BY <1>1, <1>4, UnauthStep
  <2> QED
    BY <2>1, <2>2 DEF HistoryInv, LogInv, UnauthInv, RunsInv
<1> QED
  BY <1>2, <1>3, <1>4 DEF HistoryNext
=============================================================================
