------------------------- MODULE Algorithms_proofs --------------------------
(***************************************************************************)
(* The pure algorithms, of inputs of every size: the indexes of the PONs,  *)
(* the pages of a list, who is served by which OLT, the configuration, the *)
(* stacks that Reconcile builds, and the uplinks; and from them the        *)
(* invariants of module MCAlgorithms.                                      *)
(***************************************************************************)
EXTENDS MCAlgorithms, Stores_proofs

-----------------------------------------------------------------------------
(***************************************************************************)
(* Indexes of PONs, and the boards of an OLT.                              *)
(***************************************************************************)
\* Euclidean division by the stride of a slot.
LEMMA SlotAndPon ==
  ASSUME NEW b \in Boards, NEW p \in Pons
  PROVE  /\ (b * 256 + p) \div 256 = b
         /\ (b * 256 + p) % 256 = p
  BY SMT DEF Boards, Pons, MaxBoardID, MaxPonID

\* What GenerateBoardPonOID and ponIfIndex encode, decodeOnuIDIfIndex decodes: an
\* unconfigured ONU is attributed to the PON whose index its row has.
THEOREM SuffixDecodes ==
  \A b \in Boards, p \in Pons : DecodeOnuIDIfIndex(OnuIDSuffix(b, p)) = <<b, p>>
<1> SUFFICES ASSUME NEW b \in Boards, NEW p \in Pons
             PROVE  DecodeOnuIDIfIndex(OnuIDSuffix(b, p)) = <<b, p>>
  OBVIOUS
<1> DEFINE rest == OnuIDSuffix(b, p) - OnuIDIfIndexBase
<1>1. rest = b * 256 + p /\ OnuIDSuffix(b, p) >= OnuIDIfIndexBase
  BY SMT DEF OnuIDSuffix, OnuIDIfIndexBase, OnuIDSlotStride, Boards, Pons, MaxBoardID, MaxPonID
<1>2. rest \div OnuIDSlotStride = b /\ rest % OnuIDSlotStride = p
  BY <1>1, SlotAndPon DEF OnuIDSlotStride
<1> QED
  BY <1>1, <1>2 DEF DecodeOnuIDIfIndex

\* An index that decodes to a PON is the index of that PON, so no row of another
\* interface is taken for one of a PON (decodeOnuIDIfIndex).
THEOREM DecodedIsSuffix ==
  \A i \in Int : DecodeOnuIDIfIndex(i) # NoPort =>
    \E b \in Boards, p \in Pons : DecodeOnuIDIfIndex(i) = <<b, p>> /\ i = OnuIDSuffix(b, p)
<1> SUFFICES ASSUME NEW i \in Int, DecodeOnuIDIfIndex(i) # NoPort
             PROVE  \E b \in Boards, p \in Pons :
                      DecodeOnuIDIfIndex(i) = <<b, p>> /\ i = OnuIDSuffix(b, p)
  OBVIOUS
<1> DEFINE b == (i - OnuIDIfIndexBase) \div OnuIDSlotStride
           p == (i - OnuIDIfIndexBase) % OnuIDSlotStride
<1>1. b \in Boards /\ p \in Pons /\ DecodeOnuIDIfIndex(i) = <<b, p>>
  BY DEF DecodeOnuIDIfIndex
<1>2. i = OnuIDSuffix(b, p)
  BY SMT DEF OnuIDSuffix, OnuIDIfIndexBase, OnuIDSlotStride
<1> QED
  BY <1>1, <1>2

\* Two PONs of a chassis share an index of neither table, so a walk below one delivers
\* no row of the other (GenerateBoardPonOID).
THEOREM SuffixesAreUnique ==
  \A b, c \in Boards : \A p, q \in Pons :
    OnuIDSuffix(b, p) = OnuIDSuffix(c, q) \/ OnuTypeSuffix(b, p) = OnuTypeSuffix(c, q)
      => b = c /\ p = q
  BY SMT DEF OnuIDSuffix, OnuTypeSuffix, OnuIDIfIndexBase, OnuIDSlotStride, OnuTypeIfIndexBase,
             OnuTypeSlotStride, OnuTypeIncrement, Boards, Pons, MaxBoardID, MaxPonID

\* What validateBoardSpecs accepts, parseBoardSpecs neither skips nor overrides: the
\* topology has exactly the boards of the text, each with the count beside it or the
\* default.
THEOREM SpecsAreAsWritten ==
  ASSUME NEW text \in Seq(Seq(Int)), text # <<>>, text # << <<>> >>,
         ValidateBoardSpecs(text), NEW d \in Int
  PROVE  /\ DOMAIN ParseBoardSpecs(text, d) = {Slot(text[i]) : i \in DOMAIN text}
         /\ \A i \in DOMAIN text :
              ParseBoardSpecs(text, d)[Slot(text[i])] =
                IF Len(text[i]) = 2 THEN text[i][2] ELSE PonCount(d)
<1> DEFINE valid == {i \in DOMAIN text : Slot(text[i]) \in Boards}
           last(b) == CHOOSE i \in valid : /\ Slot(text[i]) = b
                                           /\ \A j \in valid : Slot(text[j]) = b => j <= i
           count(part) == IF Len(part) = 2 /\ part[2] \in Pons THEN part[2] ELSE PonCount(d)
<1>1. \A i \in DOMAIN text :
        /\ Slot(text[i]) \in Boards
        /\ Len(text[i]) = 2 => text[i][2] \in Pons
        /\ \A j \in DOMAIN text : Slot(text[i]) = Slot(text[j]) => i = j
  BY DEF ValidateBoardSpecs
<1>2. valid = DOMAIN text /\ valid # {}
  <2>1. valid = DOMAIN text
    BY <1>1
  <2>2. 1 \in DOMAIN text
    BY text # <<>>
  <2> QED
    BY <2>1, <2>2
<1>3. ParseBoardSpecs(text, d) = [b \in {Slot(text[i]) : i \in valid} |-> count(text[last(b)])]
  BY <1>2, Zenon DEF ParseBoardSpecs
<1>4. ASSUME NEW i \in DOMAIN text
      PROVE  last(Slot(text[i])) = i
  <2>1. i \in valid /\ \A j \in valid : Slot(text[j]) = Slot(text[i]) => j <= i
    BY <1>1, <1>2, i \in Nat
  <2>2. \A k \in valid : Slot(text[k]) = Slot(text[i]) => k = i
    BY <1>1, <1>2
  <2> QED
    BY <2>1, <2>2
<1>5. \A i \in DOMAIN text : count(text[i]) = IF Len(text[i]) = 2 THEN text[i][2] ELSE PonCount(d)
  BY <1>1
<1> HIDE DEF last, count
<1>6. DOMAIN ParseBoardSpecs(text, d) = {Slot(text[i]) : i \in DOMAIN text}
  BY <1>2, <1>3
<1>7. ASSUME NEW i \in DOMAIN text
      PROVE  ParseBoardSpecs(text, d)[Slot(text[i])] = count(text[i])
  BY <1>2, <1>3, <1>4
<1> QED
  BY <1>5, <1>6, <1>7

-----------------------------------------------------------------------------
(***************************************************************************)
(* Pages.  Page k of a list is a piece of it that begins where the pages   *)
(* before end.                                                             *)
(***************************************************************************)
\* Two pieces of a list that meet.
LEMMA PiecesMeet ==
  ASSUME NEW A, NEW list \in Seq(A), NEW i \in 0..Len(list), NEW j \in 0..Len(list), i <= j
  PROVE  SubSeq(list, 1, i) \o SubSeq(list, i + 1, j) = SubSeq(list, 1, j)
<1> DEFINE a == SubSeq(list, 1, i)
           b == SubSeq(list, i + 1, j)
           c == SubSeq(list, 1, j)
<1>1. a \in Seq(A) /\ Len(a) = i /\ \A k \in 1..i : a[k] = list[k]
  OBVIOUS
<1>2. b \in Seq(A) /\ Len(b) = j - i /\ \A k \in 1..(j - i) : b[k] = list[i + k]
  OBVIOUS
<1>3. c \in Seq(A) /\ Len(c) = j /\ \A k \in 1..j : c[k] = list[k]
  OBVIOUS
<1> HIDE DEF a, b, c
<1>4. a \o b \in Seq(A) /\ Len(a \o b) = j
  BY <1>1, <1>2
<1>5. \A k \in 1..j : (a \o b)[k] = list[k]
  <2> SUFFICES ASSUME NEW k \in 1..j PROVE (a \o b)[k] = list[k]
    OBVIOUS
  <2>1. CASE k <= i
    BY <1>1, <1>2, <2>1
  <2>2. CASE k > i
    <3>1. (a \o b)[k] = b[k - i] /\ k - i \in 1..(j - i) /\ i + (k - i) = k
      BY <1>1, <1>2, <2>2
    <3>2. b[k - i] = list[i + (k - i)]
      BY <1>2, <3>1
    <3> QED BY <3>1, <3>2, Zenon
  <2>3. k <= i \/ k > i
    OBVIOUS
  <2> QED BY <2>1, <2>2, <2>3, Zenon
<1>6. a \o b = c
  <2>1. Len(a \o b) = Len(c) /\ \A k \in 1..Len(a \o b) : (a \o b)[k] = c[k]
    BY <1>3, <1>4, <1>5
  <2> QED
    BY <1>3, <1>4, <2>1, SameElements
<1> QED
  BY <1>6 DEF a, b, c

\* Pieces that follow each other from the first to the last element are the list.
LEMMA FlattenPieces ==
  ASSUME NEW A, NEW list \in Seq(A), NEW seqs \in Seq(Seq(A)), seqs # <<>>,
         NEW cut \in [0..Len(seqs) -> 0..Len(list)],
         cut[0] = 0, cut[Len(seqs)] = Len(list),
         \A i \in 1..Len(seqs) : /\ cut[i - 1] <= cut[i]
                                 /\ seqs[i] = SubSeq(list, cut[i - 1] + 1, cut[i])
  PROVE  FlattenSeq(seqs) = list
<1> DEFINE n == Len(seqs)
           g == [i \in 1..n |-> SubSeq(list, 1, cut[i])]
           h == CHOOSE f : IsFlatten(seqs, f)
<1>1. n \in Nat \ {0}
  OBVIOUS
<1>2. FlattenSeq(seqs) = h[n]
  BY <1>1 DEF FlattenSeq, IsFlatten
<1>3. \A i \in 1..n : g[i] = IF i = 1 THEN seqs[i] ELSE g[i - 1] \o seqs[i]
  <2> SUFFICES ASSUME NEW i \in 1..n
               PROVE  g[i] = IF i = 1 THEN seqs[i] ELSE g[i - 1] \o seqs[i]
    OBVIOUS
  <2>1. CASE i = 1
    <3>1. i - 1 = 0 /\ cut[i - 1] = 0 /\ cut[i - 1] + 1 = 1
      BY <2>1
    <3> QED BY <2>1, <3>1
  <2>2. CASE i # 1
    <3>1. i - 1 \in 1..n
      BY <2>2
    <3>2. cut[i - 1] \in 0..Len(list) /\ cut[i] \in 0..Len(list) /\ cut[i - 1] <= cut[i]
      <4>1. i - 1 \in 0..Len(seqs) /\ i \in 0..Len(seqs)
        BY <1>1
      <4> QED BY <4>1
    <3>3. SubSeq(list, 1, cut[i - 1]) \o SubSeq(list, cut[i - 1] + 1, cut[i]) = SubSeq(list, 1, cut[i])
      BY <3>2, PiecesMeet
    <3> QED BY <2>2, <3>1, <3>3
  <2> QED BY <2>1, <2>2
<1>4. IsFlatten(seqs, g)
  <2> HIDE DEF g
  <2>1. g = [i \in 1..n |-> g[i]]
    BY DEF g
  <2> QED BY <1>3, <2>1, Zenon DEF IsFlatten
<1>5. IsFlatten(seqs, h)
  BY <1>4
<1> HIDE DEF h
<1>6. \A i \in 1..n : h[i] = IF i = 1 THEN seqs[i] ELSE h[i - 1] \o seqs[i]
  BY <1>5 DEF IsFlatten
<1> HIDE DEF n, g
<1> DEFINE S == {i \in Nat : i + 1 \in 1..n => h[i + 1] = g[i + 1]}
<1>7. 0 \in S
  BY <1>3, <1>6
<1>8. ASSUME NEW i \in Nat, i + 1 \in 1..n => h[i + 1] = g[i + 1], i + 2 \in 1..n
      PROVE  h[i + 2] = g[i + 2]
  <2>1. i + 1 \in 1..n /\ i + 2 # 1 /\ (i + 2) - 1 = i + 1
    BY <1>1, <1>8
  <2> QED BY <1>3, <1>6, <1>8, <2>1
<1>9. \A i \in Nat : i \in S
  <2>1. \A i \in Nat : i \in S => i + 1 \in S
    <3>1. \A i \in Nat : (i + 1) + 1 = i + 2
      OBVIOUS
    <3>2. ASSUME NEW i \in Nat, i \in S PROVE i + 1 \in S
      <4>1. i + 1 \in 1..n => h[i + 1] = g[i + 1]
        BY <3>2
      <4>2. i + 2 \in 1..n => h[i + 2] = g[i + 2]
        BY <4>1, <1>8
      <4>3. (i + 1) + 1 \in 1..n => h[(i + 1) + 1] = g[(i + 1) + 1]
        BY <4>2, <3>1, Zenon
      <4> QED BY <4>3
    <3> QED BY <3>2
  <2> HIDE DEF S
  <2> QED BY <1>7, <2>1, Induction
<1>10. h[n] = g[n]
  <2>1. n - 1 \in Nat /\ (n - 1) + 1 = n /\ n \in 1..n
    BY <1>1
  <2>2. n - 1 \in S
    BY <1>9, <2>1
  <2> QED BY <2>1, <2>2
<1>11. g[n] = list
  <2>1. n \in 1..n /\ cut[n] = Len(list)
    BY <1>1 DEF n
  <2> QED BY <2>1 DEF g
<1> QED BY <1>2, <1>10, <1>11

\* Enough pages for n rows, and not one too many.
LEMMA Ceiling ==
  ASSUME NEW n \in Nat \ {0}, NEW l \in Nat \ {0}
  PROVE  LET c == (n + l - 1) \div l IN c \in Nat \ {0} /\ c * l >= n /\ (c - 1) * l < n
<1> DEFINE x == n + l - 1
           c == x \div l
           r == x % l
<1>1. x \in Nat /\ c \in Int /\ r \in 0..(l - 1) /\ x = l * c + r
  BY SMT
<1>2. c * l = l * c /\ (c - 1) * l = c * l - l
  BY <1>1, SMT
<1> HIDE DEF c, r
<1>3. c * l >= n /\ (c - 1) * l < n
  BY <1>1, <1>2
<1>4. c > 0
  <2>1. c <= 0 => l * c <= 0
    BY <1>1, SMT
  <2> QED
    BY <1>1, <2>1
<1> QED
  BY <1>1, <1>3, <1>4 DEF c

LEMMA Products ==
  ASSUME NEW k \in Nat \ {0}, NEW l \in Nat \ {0}
  PROVE  /\ (k - 1) * l \in Nat /\ k * l \in Nat /\ k * l = (k - 1) * l + l
         /\ \A c \in Nat : /\ k <= c => k * l <= c * l
                           /\ \A m \in Nat : m <= l => c * m <= c * l
  BY SMT

\* The rows of a page that is there.
LEMMA PageOfList ==
  ASSUME NEW A, NEW list \in Seq(A), NEW k \in Nat \ {0}, NEW l \in Nat \ {0}
  PROVE  LET n == Len(list)
             start == (k - 1) * l
             end == IF start + l > n THEN n ELSE start + l IN
         /\ ~Page(list, k, l).panic
         /\ start >= n => Page(list, k, l).rows = <<>>
         /\ start < n => /\ Page(list, k, l).rows = SubSeq(list, start + 1, end)
                         /\ Page(list, k, l).rows # <<>>
                         /\ Len(Page(list, k, l).rows) <= l
<1> DEFINE n == Len(list)
           start == (k - 1) * l
           end == IF start + l > n THEN n ELSE start + l
<1> SUFFICES /\ ~Page(list, k, l).panic
             /\ start >= n => Page(list, k, l).rows = <<>>
             /\ start < n => /\ Page(list, k, l).rows = SubSeq(list, start + 1, end)
                             /\ Page(list, k, l).rows # <<>>
                             /\ Len(Page(list, k, l).rows) <= l
  OBVIOUS
<1>1. start \in Nat /\ n \in Nat
  BY Products
<1> DEFINE cut == SubSeq(list, start + 1, end)
<1>2. Page(list, k, l) = IF start >= n THEN [panic |-> FALSE, rows |-> <<>>]
                         ELSE IF start < 0 \/ end < start THEN [panic |-> TRUE, rows |-> <<>>]
                         ELSE [panic |-> FALSE, rows |-> cut]
  BY DEF Page
<1>3. start < n => end \in 0..n /\ end > start /\ end - start <= l
  BY <1>1
<1>4. start < n => cut # <<>> /\ Len(cut) <= l
  <2> SUFFICES ASSUME start < n PROVE cut # <<>> /\ Len(cut) <= l
    OBVIOUS
  <2> HIDE DEF start, end
  <2>1. Len(cut) = end - start /\ end - start > 0
    BY <1>1, <1>3
  <2> HIDE DEF cut
  <2>2. cut = <<>> => Len(cut) = 0
    OBVIOUS
  <2> QED
    BY <1>1, <1>3, <2>1, <2>2
<1> HIDE DEF start, n, end, cut
<1>5. CASE start >= n
  <2>1. Page(list, k, l) = [panic |-> FALSE, rows |-> <<>>]
    BY <1>2, <1>5
  <2>2. ~(start < n)
    BY <1>1, <1>5
  <2> QED
    BY <2>1, <2>2
<1>6. CASE start < n
  <2>1. ~(start >= n) /\ ~(start < 0 \/ end < start)
    BY <1>1, <1>3, <1>6
  <2>2. Page(list, k, l) = [panic |-> FALSE, rows |-> cut]
    BY <1>2, <2>1
  <2>3. ~Page(list, k, l).panic /\ Page(list, k, l).rows = cut
    BY <2>2
  <2> QED
    BY <1>4, <1>6, <2>1, <2>3 DEF cut
<1> QED
  BY <1>1, <1>5, <1>6

\* What the handler asks for when it answers with rows.
LEMMA AnsweredPage ==
  ASSUME NEW A, NEW list \in Seq(A), NEW p \in Int, NEW l \in Int,
         ~Page(list, p, l).panic, Page(list, p, l).rows # <<>>
  PROVE  p >= 1 /\ l >= 1 /\ Len(list) >= 1
<1> DEFINE n == Len(list)
           start == (p - 1) * l
           end == IF start + l > n THEN n ELSE start + l
           cut == SubSeq(list, start + 1, end)
<1>1. start \in Int /\ n \in Nat
  OBVIOUS
<1>2. Page(list, p, l) = IF start >= n THEN [panic |-> FALSE, rows |-> <<>>]
                         ELSE IF start < 0 \/ end < start THEN [panic |-> TRUE, rows |-> <<>>]
                         ELSE [panic |-> FALSE, rows |-> cut]
  BY DEF Page
<1>3. start \in Nat /\ end > start /\ start < n
  <2> HIDE DEF start, end, cut
  <2>1. ~(start >= n) /\ ~(start < 0 \/ end < start)
    BY <1>2
  <2>2. Page(list, p, l).rows = cut
    BY <1>2, <2>1
  <2>3. end # start
    <3> SUFFICES ASSUME end = start PROVE cut = <<>>
      BY <2>2
    <3> QED
      BY <1>1, <2>1 DEF cut
  <2> QED
    BY <1>1, <2>1, <2>3 DEF end
<1>4. l >= 1
  BY <1>1, <1>3
<1>5. p >= 1
  <2>1. p - 1 < 0 => (p - 1) * l < 0
    BY <1>4, SMT
  <2> QED
    BY <1>3, <2>1
<1> QED
  BY <1>1, <1>3, <1>4, <1>5

Asked == Int \cup {NoNumber}

\* The pages of every list, whatever page is asked for and of whatever size: as many as
\* the answer counts, they are the list; the page after them is not found (Paginate, New).
THEOREM PagesAreTheList ==
  ASSUME NEW A, NEW list \in Seq(A), NEW asked \in Asked, NEW size \in Asked
  PROVE  PagesPartition(list, asked, size)
<1> SUFFICES ASSUME Paginate(list, asked, size).status = "ok"
             PROVE  PagesPartition(list, asked, size)
  BY DEF PagesPartition
<1> DEFINE n == Len(list)
           l == LimitOf(size)
           limit == IF l > MaxPageSize THEN MaxPageSize ELSE l
           count == (n + limit - 1) \div limit
           page(k) == Paginate(list, k, size)
           rows(k) == IF page(k).status = "ok" THEN page(k).rows ELSE <<>>
           cut == [k \in 0..count |-> IF k * l < n THEN k * l ELSE n]
           seqs == [k \in 1..count |-> rows(k)]
<1>1. PageOf(asked) \in Int /\ l \in Int
  BY PageSizes DEF PageOf, LimitOf, Asked
<1>2. /\ ~Page(list, PageOf(asked), l).panic /\ Page(list, PageOf(asked), l).rows # <<>>
      /\ Paginate(list, asked, size).meta = Pages(PageOf(asked), l, n)
  BY DEF Paginate
<1>3. PageOf(asked) >= 1 /\ l >= 1 /\ n \in Nat \ {0} /\ l \in Nat \ {0}
  <2>1. PageOf(asked) >= 1 /\ l >= 1 /\ n >= 1
    BY <1>1, <1>2, AnsweredPage
  <2> QED
    BY <1>1, <2>1
<1>4. limit \in Nat \ {0} /\ limit <= l /\ (l <= MaxPageSize => limit = l)
  BY <1>3, PageSizes
<1>5. Pages(PageOf(asked), l, n).count = count /\ Pages(PageOf(asked), l, n).limit = limit
  BY <1>3 DEF Pages
<1> HIDE DEF l, n, limit
<1>6. count \in Nat \ {0} /\ count * limit >= n /\ (count - 1) * limit < n
  BY <1>3, <1>4, Ceiling
<1> HIDE DEF count
<1>7. count * l >= n
  BY <1>3, <1>4, <1>6, Products
<1>8. ASSUME NEW k \in Nat \ {0}
      PROVE  LET start == (k - 1) * l
                 end == IF start + l > n THEN n ELSE start + l IN
             /\ start >= n => page(k).status = "not found" /\ rows(k) = <<>>
             /\ start < n => /\ page(k).status = "ok" /\ rows(k) = SubSeq(list, start + 1, end)
                             /\ Len(rows(k)) <= l
  <2> DEFINE start == (k - 1) * l
             end == IF start + l > n THEN n ELSE start + l
             part == Page(list, k, l)
  <2> SUFFICES /\ start >= n => page(k).status = "not found" /\ rows(k) = <<>>
               /\ start < n => /\ page(k).status = "ok" /\ rows(k) = SubSeq(list, start + 1, end)
                               /\ Len(rows(k)) <= l
    OBVIOUS
  <2>1. PageOf(k) = k
    BY PageSizes DEF PageOf
  <2>2. /\ ~part.panic
        /\ start >= n => part.rows = <<>>
        /\ start < n => /\ part.rows = SubSeq(list, start + 1, end)
                        /\ part.rows # <<>> /\ Len(part.rows) <= l
    BY <1>3, PageOfList DEF n
  <2> HIDE DEF part, start, end
  <2>3. part.rows = <<>> => page(k).status = "not found"
    BY <2>1, <2>2 DEF Paginate, l, part
  <2>4. part.rows # <<>> => page(k).status = "ok" /\ page(k).rows = part.rows
    BY <2>1, <2>2 DEF Paginate, l, part
  <2> HIDE DEF page
  <2> QED
    BY <2>2, <2>3, <2>4
<1> HIDE DEF page, rows
<1>9. FlattenSeq(seqs) = list
  <2>1. cut \in [0..count -> 0..n] /\ cut[0] = 0 /\ cut[count] = n
    <3>1. \A k \in 0..count : (IF k * l < n THEN k * l ELSE n) \in 0..n
      <4>1. \A k \in 0..count : k * l \in Nat
        BY <1>3, <1>6
      <4> QED
        BY <1>3, <4>1
    <3>2. 0 * l = 0 /\ 0 \in 0..count /\ count \in 0..count /\ ~(count * l < n)
      BY <1>3, <1>6, <1>7
    <3> QED
      BY <1>3, <3>1, <3>2
  <2>2. ASSUME NEW k \in 1..count
        PROVE  /\ cut[k - 1] <= cut[k]
               /\ rows(k) = SubSeq(list, cut[k - 1] + 1, cut[k])
    <3> DEFINE start == (k - 1) * l
    <3>1. k \in Nat \ {0} /\ k \in 0..count /\ k - 1 \in 0..count
      BY <1>6
    <3>2. start \in Nat /\ k * l = start + l
      BY <1>3, <3>1, Products
    <3>3. cut[k - 1] = (IF start < n THEN start ELSE n) /\ cut[k] = IF k * l < n THEN k * l ELSE n
      BY <3>1
    <3> HIDE DEF cut
    <3>4. CASE start >= n
      <4>1. cut[k - 1] = n /\ cut[k] = n
        BY <1>3, <3>2, <3>3, <3>4
      <4>2. rows(k) = <<>>
        BY <1>8, <3>1, <3>4
      <4>3. SubSeq(list, n + 1, n) = <<>>
        BY <1>3 DEF n
      <4> QED
        BY <1>3, <4>1, <4>2, <4>3
    <3>5. CASE start < n
      <4> DEFINE end == IF start + l > n THEN n ELSE start + l
      <4>1. rows(k) = SubSeq(list, start + 1, end)
        BY <1>8, <3>1, <3>5
      <4>2. cut[k - 1] = start /\ cut[k] = end /\ start <= end
        BY <1>3, <3>2, <3>3, <3>5
      <4> QED
        BY <4>1, <4>2
    <3> QED
      BY <1>3, <3>2, <3>4, <3>5
  <2>3. ASSUME NEW k \in 1..count PROVE rows(k) \in Seq(A)
    <3>1. cut[k - 1] \in 0..n /\ cut[k] \in 0..n
      <4>1. k - 1 \in 0..count /\ k \in 0..count
        BY <1>6
      <4> QED
        BY <2>1, <4>1
    <3>2. \A a, b \in 0..n : SubSeq(list, a + 1, b) \in Seq(A)
      BY DEF n
    <3> HIDE DEF cut
    <3> QED
      BY <2>2, <3>1, <3>2
  <2>4. seqs \in Seq(Seq(A)) /\ Len(seqs) = count /\ seqs # <<>>
    BY <1>6, <2>3
  <2>5. \A k \in 1..count : seqs[k] = rows(k)
    OBVIOUS
  <2> HIDE DEF cut, seqs
  <2> QED
    BY <2>1, <2>2, <2>4, <2>5, FlattenPieces DEF n
<1>10. page(count + 1).status = "not found"
  <2>1. count + 1 \in Nat \ {0} /\ (count + 1) - 1 = count
    BY <1>6
  <2> QED
    BY <1>7, <1>8, <2>1
<1>11. l <= MaxPageSize => \A k \in 1..count : page(k).status = "ok" /\ Len(rows(k)) <= limit
  <2> SUFFICES ASSUME l <= MaxPageSize, NEW k \in 1..count
               PROVE  page(k).status = "ok" /\ Len(rows(k)) <= limit
    OBVIOUS
  <2>1. k \in Nat \ {0} /\ k - 1 <= count - 1 /\ limit = l
    BY <1>4, <1>6
  <2>2. (k - 1) * l < n
    <3>1. (k - 1) * l <= (count - 1) * l
      BY <1>3, <1>6, <2>1, SMT
    <3>2. (k - 1) * l \in Nat /\ (count - 1) * l \in Nat
      BY <1>3, <1>6, <2>1, Products
    <3> QED
      BY <1>3, <1>6, <2>1, <3>1, <3>2
  <2> QED
    BY <1>8, <2>1, <2>2
<1> QED
  BY <1>2, <1>3, <1>5, <1>9, <1>10, <1>11 DEF PagesPartition, page, rows, l

-----------------------------------------------------------------------------
(***************************************************************************)
(* Users.                                                                  *)
(***************************************************************************)
\* Users whose identifiers are numbers.
AreUsers(U) == \A u \in U : u.user \in Int

LEMMA FirstOf ==
  ASSUME NEW A, NEW s \in Seq(A)
  PROVE  /\ s # <<>> => 1 \in DOMAIN s
         /\ s = <<>> => DOMAIN s = {}
         /\ \A i \in DOMAIN s : s[i] \in A
  OBVIOUS

\* The registry has the users that were listed, under their keys; who is no administrator
\* has an identifier that no OLT without an owner has.
LEMMA RegisteredUsers ==
  ASSUME NEW U, AreUsers(U), NEW users \in Seq(U), BuildUserRegistry(users).ok
  PROVE  LET registered == BuildUserRegistry(users).users IN
         /\ DOMAIN registered = {users[i].key : i \in DOMAIN users}
         /\ \A k \in DOMAIN registered :
              ~registered[k].admin => registered[k].user \in Int /\ registered[k].user >= 1
<1> DEFINE keys == {users[i].key : i \in DOMAIN users}
           of(k) == users[CHOOSE i \in DOMAIN users : users[i].key = k]
           registered == [k \in keys |-> [user |-> of(k).user, admin |-> of(k).role = "admin"]]
<1>1. /\ BuildUserRegistry(users) = [ok |-> TRUE, users |-> registered]
      /\ \A i \in DOMAIN users : ValidUser(users[i])
  BY DEF BuildUserRegistry, Failed
<1>2. BuildUserRegistry(users).users = registered
  <2> HIDE DEF registered
  <2> QED
    BY <1>1
<1>3. ASSUME NEW k \in keys PROVE of(k).role # "admin" => of(k).user \in Int /\ of(k).user >= 1
  <2> DEFINE i == CHOOSE j \in DOMAIN users : users[j].key = k
  <2>1. i \in DOMAIN users
    OBVIOUS
  <2> HIDE DEF i
  <2>2. users[i] \in U
    BY <2>1, FirstOf
  <2>3. users[i].user \in Int /\ (users[i].role # "admin" => users[i].user >= 1)
    BY <1>1, <2>1, <2>2 DEF ValidUser, AreUsers
  <2> QED
    BY <2>3 DEF i
<1> HIDE DEF of
<1>4. \A k \in keys : ~registered[k].admin => registered[k].user \in Int /\ registered[k].user >= 1
  <2> SUFFICES ASSUME NEW k \in keys, ~registered[k].admin
               PROVE  registered[k].user \in Int /\ registered[k].user >= 1
    OBVIOUS
  <2>1. registered[k] = [user |-> of(k).user, admin |-> of(k).role = "admin"]
    OBVIOUS
  <2>2. registered[k].user = of(k).user /\ (registered[k].admin <=> of(k).role = "admin")
    BY <2>1
  <2> QED
    BY <1>3, <2>2
<1> QED
  BY <1>2, <1>4

\* Whatever users are configured, whoever asks, with whatever key and for whatever OLT of
\* whatever registry is served by the OLTs that are theirs and by those alone (identifiers
\* of OLTs are not empty: BuildOLTRegistry).
THEOREM EveryoneServedByOwn ==
  ASSUME NEW U, AreUsers(U), NEW users \in Seq(U), BuildUserRegistry(users).ok,
         NEW legacy, NEW key, NEW default, NEW id, NEW reg, "" \notin DOMAIN reg.entries
  PROVE  ServedRightly(users, legacy, key, reg, default, id)
<1> DEFINE registered == BuildUserRegistry(users).users
           caller == Authenticator(registered, legacy, key)
           served == ResolveOLT(reg, default, id, caller)
<1>1. /\ DOMAIN registered = {users[i].key : i \in DOMAIN users}
      /\ \A k \in DOMAIN registered :
           ~registered[k].admin => registered[k].user \in Int /\ registered[k].user >= 1
  BY RegisteredUsers
<1>2. users # <<>> <=> DOMAIN registered # {}
  <2>1. (users # <<>> => 1 \in DOMAIN users) /\ (users = <<>> => DOMAIN users = {})
    BY FirstOf
  <2> QED
    BY <1>1, <2>1
<1> HIDE DEF registered
<1>3. CASE users # <<>>
  <2>1. caller = IF key \in DOMAIN registered
                 THEN [ok |-> TRUE, scoped |-> TRUE, who |-> registered[key]] ELSE [ok |-> FALSE]
    BY <1>2, <1>3 DEF Authenticator, Failed
  <2> HIDE DEF caller
  <2>2. (caller.ok <=> key \in DOMAIN registered)
    BY <2>1
  <2>3. caller.ok => key \in DOMAIN registered /\ caller.scoped /\ caller.who = registered[key]
    BY <2>1, <2>2
  <2>4. caller.ok <=> \E i \in DOMAIN users : users[i].key = key
    BY <1>1, <2>2
  <2> QED
    <3>1. ASSUME caller.ok
          PROVE  /\ id # "" => served \subseteq {id}
                 /\ \A j \in DOMAIN reg.entries :
                      IF caller.who.admin THEN j = id => served = {id}
                      ELSE j \in served => /\ reg.entries[j].user >= 1
                                           /\ reg.entries[j].user = caller.who.user
      BY <1>1, <2>3, <3>1 DEF ResolveOLT, Owns
    <3> QED
      BY <1>3, <2>3, <2>4, <3>1 DEF ServedRightly, caller, registered
<1>4. CASE users = <<>>
  <2>1. caller = IF legacy # "" /\ key # legacy THEN [ok |-> FALSE] ELSE [ok |-> TRUE, scoped |-> FALSE]
    BY <1>2, <1>4 DEF Authenticator, Failed
  <2> HIDE DEF caller
  <2>2. caller.ok <=> (legacy = "" \/ key = legacy)
    BY <2>1
  <2>3. caller.ok => ~caller.scoped
    BY <2>1
  <2> QED
    <3>1. ASSUME caller.ok
          PROVE  /\ id # "" => served \subseteq {id}
                 /\ \A j \in DOMAIN reg.entries : j = id => served = {id}
      BY <2>3, <3>1 DEF ResolveOLT, Owns
    <3> QED
      BY <1>4, <2>2, <2>3, <3>1 DEF ServedRightly, caller, registered
<1> QED
  BY <1>3, <1>4

-----------------------------------------------------------------------------
(***************************************************************************)
(* Configuration.                                                          *)
(***************************************************************************)
\* A text that was split at commas and colons, and what a configuration is made of.
Text == Seq(Seq(Int)) \ {<<>>}

IsEntry(e) == e.boards \in Text /\ e.pons \in Int

IsSource(source) ==
  /\ Len(source.olts) \in Nat /\ DOMAIN source.olts = 1..Len(source.olts)
  /\ \A i \in DOMAIN source.olts : IsEntry(source.olts[i])

IsEnvironment(env) == IsEntry(env) /\ IsSource(env.inline) /\ IsSource(env.file)

\* A text that is accepted is a topology of boards that exist, and has every PON.
LEMMA BoardsWritten ==
  ASSUME NEW text \in Text, ValidateBoardSpecs(text), NEW pons \in Int
  PROVE  LET specs == ParseBoardSpecs(text, pons) IN
         /\ {<<b, specs[b]>> : b \in DOMAIN specs} = Written(text, pons)
         /\ DOMAIN BoardPonMap(specs).map = Ports(specs)
<1> DEFINE specs == ParseBoardSpecs(text, pons)
<1>1. /\ {<<b, specs[b]>> : b \in DOMAIN specs} = Written(text, pons)
      /\ DOMAIN specs \subseteq Boards /\ DOMAIN specs # {}
  <2>1. CASE text = << <<>> >>
    <3>1. \A i \in DOMAIN text : Slot(text[i]) \notin Boards
      BY <2>1 DEF Slot, NotANumber, Boards, MaxBoardID
    <3>2. specs = [b \in DefaultBoards |-> PonCount(pons)]
      BY <3>1 DEF ParseBoardSpecs
    <3>3. Written(text, pons) = {<<b, PonCount(pons)>> : b \in DefaultBoards}
      BY <2>1 DEF Written
    <3>4. DefaultBoards \subseteq Boards /\ DefaultBoards # {}
      BY DEF DefaultBoards, Boards, MaxBoardID
    <3> HIDE DEF specs
    <3> QED
      BY <3>2, <3>3, <3>4
  <2>2. CASE text # << <<>> >>
    <3>1. text \in Seq(Seq(Int)) /\ text # <<>> /\ 1 \in DOMAIN text
      BY DEF Text
    <3>2. /\ DOMAIN specs = {Slot(text[i]) : i \in DOMAIN text}
          /\ \A i \in DOMAIN text :
               specs[Slot(text[i])] = IF Len(text[i]) = 2 THEN text[i][2] ELSE PonCount(pons)
      BY <2>2, <3>1, SpecsAreAsWritten
    <3>3. \A i \in DOMAIN text : Slot(text[i]) \in Boards
      BY <2>2 DEF ValidateBoardSpecs
    <3>4. \A i \in DOMAIN text : Slot(text[i]) = text[i][1]
      <4>1. NotANumber \notin Boards
        BY DEF NotANumber, Boards, MaxBoardID
      <4> QED
        BY <3>3, <4>1 DEF Slot
    <3>5. Written(text, pons) =
            {<<text[i][1], IF Len(text[i]) = 2 THEN text[i][2] ELSE PonCount(pons)>> : i \in DOMAIN text}
      BY <2>2 DEF Written
    <3> HIDE DEF specs
    <3>6. {<<b, specs[b]>> : b \in DOMAIN specs} =
            {<<Slot(text[i]), specs[Slot(text[i])]>> : i \in DOMAIN text}
      BY <3>2
    <3>7. {<<Slot(text[i]), specs[Slot(text[i])]>> : i \in DOMAIN text} = Written(text, pons)
      BY <3>2, <3>4, <3>5
    <3> QED
      BY <3>1, <3>2, <3>3, <3>6, <3>7
  <2> QED
    BY <2>1, <2>2
<1> HIDE DEF specs
<1>2. OrDefault(specs) = specs
  BY <1>1 DEF OrDefault
<1>3. DOMAIN BoardPonMap(specs).map = Ports(specs)
  <2> DEFINE map == [k \in Ports(specs) |->
                       [onuID |-> OnuIDSuffix(k[1], k[2]), onuType |-> OnuTypeSuffix(k[1], k[2])]]
  <2>1. BoardPonMap(specs) = [ok |-> TRUE, map |-> map]
    BY <1>1, <1>2 DEF BoardPonMap
  <2>2. DOMAIN map = Ports(specs)
    OBVIOUS
  <2> HIDE DEF map
  <2> QED
    BY <2>1, <2>2
<1> QED
  BY <1>1, <1>3 DEF specs

\* Different elements of a sequence are as many as it is long.
LEMMA AllDifferent ==
  ASSUME NEW n \in Nat, NEW f, \A i, j \in 1..n : f[i] = f[j] => i = j
  PROVE  Cardinality({f[i] : i \in 1..n}) = n
<1> DEFINE S == {f[i] : i \in 1..n}
           g == [i \in 1..n |-> f[i]]
<1>1. g \in [1..n -> S] /\ (\A i, j \in 1..n : g[i] = g[j] => i = j)
      /\ \A s \in S : \E i \in 1..n : g[i] = s
  OBVIOUS
<1>2. g \in Bijection(1..n, S)
  <2> HIDE DEF g, S
  <2> QED
    BY <1>1 DEF Bijection, Injection, Surjection, IsInjective
<1>3. ExistsBijection(1..n, S)
  BY <1>2 DEF ExistsBijection
<1> QED
  BY <1>3, FS_CountingElements

\* An OLT of a configuration: what became of entry i of the list, or of the settings.
IsWritten(o, text, pons) ==
  /\ {<<b, o.specs[b]>> : b \in DOMAIN o.specs} = Written(text, pons)
  /\ DOMAIN o.map = Ports(o.specs)

LEMMA AcceptedEntry ==
  ASSUME NEW e, NEW max, OltFromJSON(e, max).ok
  PROVE  ValidateBoardSpecs(e.boards) /\ OltFromJSON(e, max) = [ok |-> TRUE, olt |-> OltOf(e, max)]
<1>1. ~Failed.ok
  BY DEF Failed
<1>2. OltFromJSON(e, max) = IF CompleteEntry(e) /\ ValidateBoardSpecs(e.boards)
                           THEN [ok |-> TRUE, olt |-> OltOf(e, max)] ELSE Failed
  BY DEF OltFromJSON
<1>3. CompleteEntry(e) /\ ValidateBoardSpecs(e.boards)
  BY <1>1, <1>2
<1> QED
  BY <1>2, <1>3

LEMMA EntryWritten ==
  ASSUME NEW e, IsEntry(e), NEW max, OltFromJSON(e, max).ok
  PROVE  IsWritten(OltFromJSON(e, max).olt, e.boards, e.pons)
<1> DEFINE specs == ParseBoardSpecs(e.boards, e.pons)
           map == BoardPonMap(specs).map
           olt == OltOf(e, max)
<1>1. ValidateBoardSpecs(e.boards) /\ OltFromJSON(e, max) = [ok |-> TRUE, olt |-> olt]
  BY AcceptedEntry
<1>2. OltFromJSON(e, max).olt = olt
  BY <1>1
<1>3. olt.specs = specs /\ olt.map = map
  BY DEF OltOf
<1>4. e.boards \in Text /\ e.pons \in Int
  BY DEF IsEntry
<1>5. /\ {<<b, specs[b]>> : b \in DOMAIN specs} = Written(e.boards, e.pons)
      /\ DOMAIN map = Ports(specs)
  BY <1>1, <1>4, BoardsWritten
<1> HIDE DEF specs, map, olt
<1> QED
  BY <1>2, <1>3, <1>5 DEF IsWritten

\* A registry that is built is made of the OLTs that were accepted.
IsBuilt(config, list, legacy) ==
  /\ Len(config.olts) \in Nat /\ DOMAIN config.olts = 1..Len(config.olts)
  /\ \A i \in DOMAIN config.olts :
       \/ list.kind = "unset" /\ config.olts[i] = legacy
       \/ /\ list.kind # "unset" /\ i \in DOMAIN list.olts
          /\ OltFromJSON(list.olts[i], legacy.max).ok
          /\ config.olts[i] = OltFromJSON(list.olts[i], legacy.max).olt
  /\ \A i, j \in DOMAIN config.olts : config.olts[i].id = config.olts[j].id => i = j
  /\ \E i \in DOMAIN config.olts : config.olts[i].id = config.default

LEMMA BuiltRegistry ==
  ASSUME NEW list, IsSource(list), NEW default, NEW legacy,
         BuildOLTRegistry(list, default, legacy).ok
  PROVE  IsBuilt(BuildOLTRegistry(list, default, legacy), list, legacy)
<1> DEFINE olts == IF list.kind = "unset"
                   THEN <<[ok |-> legacy.host # "" /\ legacy.community # "", olt |-> legacy]>>
                   ELSE [i \in DOMAIN list.olts |-> OltFromJSON(list.olts[i], legacy.max)]
           chosen == IF default = "" THEN olts[1].olt.id ELSE default
           built == [i \in DOMAIN olts |-> olts[i].olt]
           config == BuildOLTRegistry(list, default, legacy)
<1>1. /\ \A i \in DOMAIN olts : olts[i].ok
      /\ \A i, j \in DOMAIN olts : olts[i].olt.id = olts[j].olt.id => i = j
      /\ \E i \in DOMAIN olts : olts[i].olt.id = chosen
      /\ config = [ok |-> TRUE, olts |-> built, default |-> chosen]
  BY DEF BuildOLTRegistry, Failed
<1>2. \E n \in Nat : DOMAIN olts = 1..n
  <2>1. CASE list.kind = "unset"
    BY <2>1
  <2>2. CASE list.kind # "unset"
    <3>1. DOMAIN list.olts = 1..Len(list.olts) /\ Len(list.olts) \in Nat
      BY DEF IsSource
    <3> QED
      BY <2>2, <3>1
  <2> QED
    BY <2>1, <2>2
<1>3. \A i \in DOMAIN olts :
        IF list.kind = "unset" THEN olts[i].olt = legacy
        ELSE i \in DOMAIN list.olts /\ olts[i] = OltFromJSON(list.olts[i], legacy.max)
  <2>1. CASE list.kind = "unset"
    <3> DEFINE only == [ok |-> legacy.host # "" /\ legacy.community # "", olt |-> legacy]
    <3>1. only.olt = legacy
      OBVIOUS
    <3>2. olts = <<only>>
      BY <2>1
    <3> HIDE DEF only, olts
    <3>3. \A i \in DOMAIN olts : olts[i] = only
      BY <3>2
    <3> QED
      BY <2>1, <3>1, <3>3
  <2>2. CASE list.kind # "unset"
    BY <2>2
  <2> QED
    BY <2>1, <2>2
<1> HIDE DEF olts, chosen
<1>4. config.olts = built /\ config.default = chosen
  <2> HIDE DEF built, config
  <2> QED
    BY <1>1
<1>5. DOMAIN built = DOMAIN olts /\ \A i \in DOMAIN olts : built[i] = olts[i].olt
  OBVIOUS
<1>6. built = [i \in DOMAIN olts |-> built[i]]
  OBVIOUS
<1> HIDE DEF built
<1>7. Len(built) \in Nat /\ DOMAIN built = 1..Len(built)
  <2>1. PICK n \in Nat : DOMAIN olts = 1..n
    BY <1>2
  <2>2. Len(built) = n
    BY <1>6, <2>1
  <2> QED
    BY <1>5, <2>1, <2>2
<1> HIDE DEF config
<1> QED
  BY <1>1, <1>3, <1>4, <1>5, <1>7 DEF config, IsBuilt

\* Every configuration that is accepted is the one that was written: for any text, any
\* list of OLTs and any settings (LoadConfig, BuildOLTRegistry).
THEOREM ConfigsAreAsWritten ==
  ASSUME NEW env, IsEnvironment(env)
  PROVE  ConfigAsWritten(env)
<1> SUFFICES ASSUME LoadConfig(env).ok
             PROVE  AsWritten(LoadConfig(env), ResolveOLTS(env.inline, env.file).list, env)
  BY DEF ConfigAsWritten
<1> DEFINE specs == ParseBoardSpecs(env.boards, env.pons)
           id == IF env.default = "" THEN "default" ELSE env.default
           map == BoardPonMap(specs).map
           legacy == [id |-> id, user |-> 0, host |-> env.host, community |-> env.community,
                      walk |-> FALSE, port |-> DefaultPort, max |-> env.max, specs |-> specs, map |-> map]
           source == ResolveOLTS(env.inline, env.file)
           list == source.list
           config == BuildOLTRegistry(list, env.default, legacy)
           text(i) == IF list.kind = "unset" THEN env.boards ELSE list.olts[i].boards
           pons(i) == IF list.kind = "unset" THEN env.pons ELSE list.olts[i].pons
<1>1. /\ env.boards \in Text /\ env.pons \in Int
      /\ IsSource(env.inline) /\ IsSource(env.file)
  BY DEF IsEnvironment, IsEntry
<1>2. ~Failed.ok
  BY DEF Failed
<1>3. ValidateBoardSpecs(env.boards) /\ source.ok /\ LoadConfig(env) = config /\ config.ok
  <2>1. LoadConfig(env) = IF ~ValidateBoardSpecs(env.boards) \/ ~source.ok \/ (env.poll /\ ~env.store)
                          THEN Failed ELSE config
    BY DEF LoadConfig
  <2> HIDE DEF source, config
  <2> QED
    BY <1>2, <2>1
<1>4. IsSource(list)
  <2>1. source = IF env.inline.kind = "list" THEN [ok |-> TRUE, list |-> env.inline]
                 ELSE IF env.file.kind \in {"unset", "list"} THEN [ok |-> TRUE, list |-> env.file]
                 ELSE Failed
    BY <1>1 DEF ResolveOLTS
  <2> HIDE DEF source
  <2>2. CASE env.inline.kind = "list"
    BY <1>1, <2>1, <2>2
  <2>3. CASE env.inline.kind # "list"
    BY <1>1, <1>2, <1>3, <2>1, <2>3
  <2> QED
    BY <2>2, <2>3
<1>5. IsWritten(legacy, env.boards, env.pons)
  <2>1. /\ {<<b, specs[b]>> : b \in DOMAIN specs} = Written(env.boards, env.pons)
        /\ DOMAIN map = Ports(specs)
    BY <1>1, <1>3, BoardsWritten
  <2> HIDE DEF specs, map, id
  <2>2. legacy.specs = specs /\ legacy.map = map
    OBVIOUS
  <2> HIDE DEF legacy
  <2> QED
    BY <2>1, <2>2 DEF IsWritten
<1> DEFINE olts == config.olts
<1> HIDE DEF legacy, list
<1>6. IsBuilt(config, list, legacy)
  BY <1>1, <1>3, <1>4, BuiltRegistry
<1> HIDE DEF config, olts
<1>7. ASSUME NEW i \in DOMAIN olts
      PROVE  IsWritten(olts[i], text(i), pons(i))
  <2>1. CASE list.kind = "unset"
    BY <1>5, <1>6, <2>1 DEF IsBuilt, olts
  <2>2. CASE list.kind # "unset"
    <3>1. /\ i \in DOMAIN list.olts /\ OltFromJSON(list.olts[i], legacy.max).ok
          /\ olts[i] = OltFromJSON(list.olts[i], legacy.max).olt
      BY <1>6, <2>2 DEF IsBuilt, olts
    <3>3. IsEntry(list.olts[i])
      BY <1>4, <3>1 DEF IsSource
    <3>4. text(i) = list.olts[i].boards /\ pons(i) = list.olts[i].pons
      BY <2>2
    <3> QED
      BY <3>1, <3>3, <3>4, EntryWritten
  <2> QED
    BY <2>1, <2>2
<1>8. Cardinality({olts[i].id : i \in DOMAIN olts}) = Len(olts)
  <2> DEFINE n == Len(olts)
             ids == [i \in 1..n |-> olts[i].id]
  <2>1. \A i \in 1..n : ids[i] = olts[i].id
    OBVIOUS
  <2>2. n \in Nat /\ DOMAIN olts = 1..n /\ \A i, j \in 1..n : ids[i] = ids[j] => i = j
    BY <1>6, <2>1 DEF IsBuilt, olts
  <2> HIDE DEF n, ids
  <2>3. Cardinality({ids[i] : i \in 1..n}) = n
    BY <2>2, AllDifferent
  <2>4. {ids[i] : i \in 1..n} = {olts[i].id : i \in 1..n}
    BY <2>1
  <2> QED
    BY <2>2, <2>3, <2>4 DEF n
<1>9. \E i \in DOMAIN olts : olts[i].id = config.default
  BY <1>6 DEF IsBuilt, olts
<1>10. \A i \in DOMAIN olts :
         /\ {<<b, olts[i].specs[b]>> : b \in DOMAIN olts[i].specs} = Written(text(i), pons(i))
         /\ DOMAIN olts[i].map = Ports(olts[i].specs)
  BY <1>7 DEF IsWritten
<1>11. AsWritten(config, list, env)
  BY <1>8, <1>9, <1>10 DEF AsWritten, olts
<1> QED
  BY <1>3, <1>11 DEF source, list

-----------------------------------------------------------------------------
(***************************************************************************)
(* The stacks.  Connections are numbered as they are opened, and what is   *)
(* neither closed nor used by a stack has never been opened.               *)
(***************************************************************************)
\* An OLT as a configuration has it (ConfigsAreAsWritten).
IsOlt(o) ==
  /\ o = [id |-> o.id, user |-> o.user, host |-> o.host, community |-> o.community, walk |-> o.walk,
          port |-> o.port, max |-> o.max, specs |-> o.specs, map |-> o.map]
  /\ DOMAIN o.specs # {} /\ DOMAIN o.specs \subseteq Boards
  /\ \A b \in DOMAIN o.specs : o.specs[b] \in Pons
  /\ o.map = BoardPonMap(o.specs).map

IsCall(call) ==
  /\ Len(call.olts) \in Nat /\ DOMAIN call.olts = 1..Len(call.olts)
  /\ \A i \in DOMAIN call.olts : IsOlt(call.olts[i])
  /\ \A i, j \in DOMAIN call.olts : call.olts[i].id = call.olts[j].id => i = j

\* A stack is that of its OLT.
IsEntryOf(e, id) ==
  /\ e = [olt |-> e.olt, pool |-> e.pool, stack |-> e.stack, boardPons |-> e.boardPons,
          user |-> e.user, prefix |-> e.prefix]
  /\ IsOlt(e.olt) /\ e.olt.id = id
  /\ e.stack.host = e.olt.host /\ e.stack.map = e.olt.map /\ e.boardPons = e.olt.specs

\* Every connection that was opened is closed or used by one stack.
ConnectionsInv(reg) ==
  /\ reg.opened \in Nat /\ reg.closed \subseteq 1..reg.opened
  /\ \A id \in DOMAIN reg.entries : reg.entries[id].pool \in (1..reg.opened) \ reg.closed
  /\ \A id, jd \in DOMAIN reg.entries : reg.entries[id].pool = reg.entries[jd].pool => id = jd
  /\ \A p \in (1..reg.opened) \ reg.closed : \E id \in DOMAIN reg.entries : reg.entries[id].pool = p

IsRegistry(reg) ==
  /\ reg = [entries |-> reg.entries, opened |-> reg.opened, closed |-> reg.closed]
  /\ reg.entries = [id \in DOMAIN reg.entries |-> reg.entries[id]]
  /\ \A id \in DOMAIN reg.entries : IsEntryOf(reg.entries[id], id)
  /\ ConnectionsInv(reg)

\* Outside of ids nothing changed.
SameBut(ids, reg, was) ==
  /\ DOMAIN reg.entries \ ids = DOMAIN was.entries \ ids
  /\ \A j \in DOMAIN reg.entries \ ids : reg.entries[j] = was.entries[j]

LEMMA Removed ==
  ASSUME NEW reg, IsRegistry(reg), NEW ids, ids \subseteq DOMAIN reg.entries
  PROVE  LET r == RemoveOLTs(reg, ids) IN
         /\ IsRegistry(r) /\ SameBut(ids, r, reg)
         /\ DOMAIN r.entries = DOMAIN reg.entries \ ids
<1> DEFINE entries == [j \in DOMAIN reg.entries \ ids |-> reg.entries[j]]
           closed == reg.closed \cup {reg.entries[id].pool : id \in ids}
           r == RemoveOLTs(reg, ids)
<1>1. r.entries = entries /\ r.opened = reg.opened /\ r.closed = closed
      /\ r = [entries |-> r.entries, opened |-> r.opened, closed |-> r.closed]
  <2>1. r = [entries |-> entries, opened |-> reg.opened, closed |-> closed]
    <3>1. reg = [entries |-> reg.entries, opened |-> reg.opened, closed |-> reg.closed]
      BY DEF IsRegistry
    <3>2. r = [reg EXCEPT !.entries = entries, !.closed = closed]
      BY DEF RemoveOLTs
    <3> HIDE DEF r, entries, closed
    <3> QED
      BY <3>1, <3>2
  <2> HIDE DEF r, entries, closed
  <2> QED
    BY <2>1
<1>2. /\ DOMAIN entries = DOMAIN reg.entries \ ids
      /\ \A j \in DOMAIN entries : entries[j] = reg.entries[j]
      /\ entries = [j \in DOMAIN entries |-> entries[j]]
  OBVIOUS
<1> HIDE DEF r, entries
<1>3. ConnectionsInv(r)
  BY <1>1, <1>2 DEF ConnectionsInv, IsRegistry
<1>4. IsRegistry(r)
  <2>1. \A id \in DOMAIN r.entries : IsEntryOf(r.entries[id], id)
    BY <1>1, <1>2 DEF IsRegistry
  <2>2. r.entries = [id \in DOMAIN r.entries |-> r.entries[id]]
    BY <1>1, <1>2
  <2> QED
    BY <1>1, <1>3, <2>1, <2>2 DEF IsRegistry
<1> QED
  BY <1>1, <1>2, <1>4 DEF SameBut, r

LEMMA Added ==
  ASSUME NEW reg, IsRegistry(reg), NEW o, IsOlt(o), o.id \notin DOMAIN reg.entries,
         NEW failing, NEW default
  PROVE  LET r == AddOLT(reg, o, failing, default) IN
         /\ IsRegistry(r) /\ SameBut({o.id}, r, reg)
         /\ IF o.id \in failing THEN o.id \notin DOMAIN r.entries
            ELSE /\ o.id \in DOMAIN r.entries
                 /\ r.entries[o.id].olt = o /\ r.entries[o.id].user = o.user
<1>1. CASE o.id \in failing
  BY <1>1 DEF AddOLT, SameBut
<1>2. CASE o.id \notin failing
  <2> DEFINE e == [olt |-> o, pool |-> reg.opened + 1, stack |-> o, boardPons |-> o.specs,
                   user |-> o.user, prefix |-> IF o.id = default THEN "" ELSE o.id]
             entries == [j \in DOMAIN reg.entries \cup {o.id} |-> IF j # o.id THEN reg.entries[j] ELSE e]
             r == AddOLT(reg, o, failing, default)
  <2>1. r.entries = entries /\ r.opened = reg.opened + 1 /\ r.closed = reg.closed
        /\ r = [entries |-> r.entries, opened |-> r.opened, closed |-> r.closed]
    <3>1. r = [entries |-> entries, opened |-> reg.opened + 1, closed |-> reg.closed]
      <4>1. reg = [entries |-> reg.entries, opened |-> reg.opened, closed |-> reg.closed]
        BY DEF IsRegistry
      <4> QED
        BY <1>2, <4>1 DEF AddOLT
    <3> HIDE DEF r, entries
    <3> QED
      BY <3>1
  <2>2. /\ e.olt = o /\ e.pool = reg.opened + 1 /\ e.stack = o /\ e.boardPons = o.specs /\ e.user = o.user
        /\ e = [olt |-> e.olt, pool |-> e.pool, stack |-> e.stack, boardPons |-> e.boardPons,
                user |-> e.user, prefix |-> e.prefix]
    OBVIOUS
  <2> HIDE DEF e
  <2>3. /\ DOMAIN entries = DOMAIN reg.entries \cup {o.id}
        /\ entries[o.id] = e /\ (\A j \in DOMAIN reg.entries : entries[j] = reg.entries[j])
        /\ entries = [j \in DOMAIN entries |-> entries[j]]
    OBVIOUS
  <2> HIDE DEF r, entries
  <2>4. IsEntryOf(e, o.id)
    BY <2>2 DEF IsEntryOf
  <2>5. ConnectionsInv(r)
    <3>1. ConnectionsInv(reg)
      BY DEF IsRegistry
    <3>2. \A p \in 1..r.opened : p \in 1..reg.opened \/ p = reg.opened + 1
      BY <2>1, <3>1 DEF ConnectionsInv
    <3>3. reg.opened + 1 \in 1..r.opened /\ reg.opened + 1 \notin 1..reg.opened
          /\ 1..reg.opened \subseteq 1..r.opened /\ r.opened \in Nat
      BY <2>1, <3>1 DEF ConnectionsInv
    <3>4. \A id \in DOMAIN entries : entries[id].pool \in (1..r.opened) \ r.closed
      BY <2>1, <2>2, <2>3, <3>1, <3>3 DEF ConnectionsInv
    <3>5. \A id, jd \in DOMAIN entries : entries[id].pool = entries[jd].pool => id = jd
      BY <2>1, <2>2, <2>3, <3>1, <3>3 DEF ConnectionsInv
    <3>6. \A p \in (1..r.opened) \ r.closed : \E id \in DOMAIN entries : entries[id].pool = p
      BY <2>1, <2>2, <2>3, <3>1, <3>2 DEF ConnectionsInv
    <3>7. r.closed \subseteq 1..r.opened
      BY <2>1, <3>1, <3>3 DEF ConnectionsInv
    <3> QED
      BY <2>1, <3>3, <3>4, <3>5, <3>6, <3>7 DEF ConnectionsInv
  <2>6. IsRegistry(r)
    BY <2>1, <2>3, <2>4, <2>5 DEF IsRegistry
  <2>7. SameBut({o.id}, r, reg)
    BY <2>1, <2>3 DEF SameBut
  <2> QED
    BY <1>2, <2>1, <2>2, <2>3, <2>6, <2>7 DEF r
<1> QED
  BY <1>1, <1>2

\* What became of an OLT of the list.
Converged(before, reg, o, failing) ==
  \/ o.id \in failing \ DOMAIN reg.entries
  \/ /\ o.id \in DOMAIN reg.entries
     /\ reg.entries[o.id].olt = o /\ reg.entries[o.id].user = o.user
     /\ o.id \in DOMAIN before.entries
          /\ OltChangeKey(before.entries[o.id].olt) = OltChangeKey(o)
          => reg.entries[o.id].pool = before.entries[o.id].pool

LEMMA ConvergeStep ==
  ASSUME NEW reg, IsRegistry(reg), NEW o, IsOlt(o), NEW failing, NEW default
  PROVE  LET r == Converge(reg, o, failing, default) IN
         IsRegistry(r) /\ SameBut({o.id}, r, reg) /\ Converged(reg, r, o, failing)
<1> DEFINE r == Converge(reg, o, failing, default)
<1>1. CASE o.id \notin DOMAIN reg.entries
  <2>1. r = AddOLT(reg, o, failing, default)
    BY <1>1 DEF Converge
  <2> HIDE DEF r
  <2> QED
    BY <1>1, <2>1, Added DEF Converged, r
<1>2. CASE o.id \in DOMAIN reg.entries /\ OltChangeKey(reg.entries[o.id].olt) # OltChangeKey(o)
  <2> DEFINE without == RemoveOLTs(reg, {o.id})
  <2>1. r = AddOLT(without, o, failing, default)
    BY <1>2 DEF Converge
  <2>2. IsRegistry(without) /\ SameBut({o.id}, without, reg)
        /\ DOMAIN without.entries = DOMAIN reg.entries \ {o.id}
    BY <1>2, Removed
  <2> HIDE DEF r, without
  <2>3. /\ IsRegistry(r) /\ SameBut({o.id}, r, without)
        /\ IF o.id \in failing THEN o.id \notin DOMAIN r.entries
           ELSE /\ o.id \in DOMAIN r.entries
                /\ r.entries[o.id].olt = o /\ r.entries[o.id].user = o.user
    BY <2>1, <2>2, Added
  <2>4. SameBut({o.id}, r, reg)
    BY <2>2, <2>3 DEF SameBut
  <2>5. Converged(reg, r, o, failing)
    BY <1>2, <2>3 DEF Converged
  <2> QED
    BY <2>3, <2>4, <2>5 DEF r
<1>3. CASE o.id \in DOMAIN reg.entries /\ OltChangeKey(reg.entries[o.id].olt) = OltChangeKey(o)
  <2> DEFINE was == reg.entries[o.id]
             e == [was EXCEPT !.olt = o, !.user = o.user]
             entries == [reg.entries EXCEPT ![o.id] = e]
  <2>1. was = [olt |-> was.olt, pool |-> was.pool, stack |-> was.stack, boardPons |-> was.boardPons,
               user |-> was.user, prefix |-> was.prefix]
        /\ was.stack.host = was.olt.host /\ was.stack.map = was.olt.map /\ was.boardPons = was.olt.specs
        /\ IsOlt(was.olt)
    BY <1>3 DEF IsRegistry, IsEntryOf
  <2>2. was.olt.host = o.host /\ was.olt.specs = o.specs
    BY <1>3 DEF OltChangeKey
  <2>3. was.olt.map = o.map
    BY <2>1, <2>2 DEF IsOlt
  <2>4. /\ e.olt = o /\ e.pool = was.pool /\ e.stack = was.stack
        /\ e.boardPons = was.boardPons /\ e.user = o.user
        /\ e = [olt |-> e.olt, pool |-> e.pool, stack |-> e.stack, boardPons |-> e.boardPons,
                user |-> e.user, prefix |-> e.prefix]
    <3>1. e = [olt |-> o, pool |-> was.pool, stack |-> was.stack, boardPons |-> was.boardPons,
               user |-> o.user, prefix |-> was.prefix]
      <4> HIDE DEF was
      <4>1. was = [olt |-> was.olt, pool |-> was.pool, stack |-> was.stack, boardPons |-> was.boardPons,
                   user |-> was.user, prefix |-> was.prefix]
        BY <2>1
      <4> DEFINE user == o.user
      <4>2. e = [was EXCEPT !.olt = o, !.user = user]
        OBVIOUS
      <4> HIDE DEF e, user
      <4>3. e = [olt |-> o, pool |-> was.pool, stack |-> was.stack, boardPons |-> was.boardPons,
                 user |-> user, prefix |-> was.prefix]
        BY <4>1, <4>2
      <4> QED
        BY <4>3 DEF user
    <3> HIDE DEF e, was
    <3> QED
      BY <3>1
  <2> HIDE DEF e
  <2>5. /\ r.entries = entries /\ r.opened = reg.opened /\ r.closed = reg.closed
        /\ r = [entries |-> r.entries, opened |-> r.opened, closed |-> r.closed]
    <3>1. r = [reg EXCEPT !.entries = entries]
      BY <1>3 DEF Converge, e, was
    <3>2. reg = [entries |-> reg.entries, opened |-> reg.opened, closed |-> reg.closed]
      BY DEF IsRegistry
    <3> HIDE DEF r, entries
    <3>3. r = [entries |-> entries, opened |-> reg.opened, closed |-> reg.closed]
      BY <3>1, <3>2
    <3> QED
      BY <3>3
  <2>6. /\ DOMAIN entries = DOMAIN reg.entries
        /\ entries[o.id] = e /\ (\A j \in DOMAIN reg.entries \ {o.id} : entries[j] = reg.entries[j])
        /\ entries = [j \in DOMAIN entries |-> entries[j]]
    BY <1>3
  <2> HIDE DEF r, entries
  <2>7. IsEntryOf(e, o.id)
    BY <2>1, <2>2, <2>3, <2>4 DEF IsEntryOf
  <2>8. \A j \in DOMAIN entries : entries[j].pool = reg.entries[j].pool
    BY <2>4, <2>6 DEF was
  <2>9. ConnectionsInv(r)
    <3>1. ConnectionsInv(reg)
      BY DEF IsRegistry
    <3> QED
      BY <2>5, <2>6, <2>8, <3>1 DEF ConnectionsInv
  <2>10. IsRegistry(r)
    <3>1. \A id \in DOMAIN r.entries : IsEntryOf(r.entries[id], id)
      BY <2>5, <2>6, <2>7 DEF IsRegistry
    <3>2. r.entries = [id \in DOMAIN r.entries |-> r.entries[id]]
      BY <2>5, <2>6, Zenon
    <3> QED
      BY <2>5, <2>9, <3>1, <3>2 DEF IsRegistry
  <2>11. SameBut({o.id}, r, reg)
    BY <2>5, <2>6 DEF SameBut
  <2>12. Converged(reg, r, o, failing)
    BY <1>3, <2>4, <2>5, <2>6 DEF Converged, was
  <2> QED
    BY <2>10, <2>11, <2>12 DEF r
<1> QED
  BY <1>1, <1>2, <1>3

\* f holds the stacks after each OLT of the list.
IsDone(f, m, reg, olts, failing, default) ==
  f = [n \in 0..m |->
         IF n = 0 THEN RemoveOLTs(reg, DOMAIN reg.entries \ {olts[i].id : i \in DOMAIN olts})
         ELSE Converge(f[n - 1], olts[n], failing, default)]

LEMMA DoneExists ==
  ASSUME NEW m \in Nat, NEW reg, NEW olts, NEW failing, NEW default
  PROVE  \E f : IsDone(f, m, reg, olts, failing, default)
<1> DEFINE S == {n \in Nat : \E f : IsDone(f, n, reg, olts, failing, default)}
           first == RemoveOLTs(reg, DOMAIN reg.entries \ {olts[i].id : i \in DOMAIN olts})
<1>1. 0 \in S
  <2> DEFINE f == [n \in 0..0 |-> first]
  <2>1. f = [n \in 0..0 |-> IF n = 0 THEN first ELSE Converge(f[n - 1], olts[n], failing, default)]
    OBVIOUS
  <2>2. IsDone(f, 0, reg, olts, failing, default)
    BY <2>1 DEF IsDone
  <2> QED
    BY <2>2
<1>2. ASSUME NEW n \in Nat, NEW f, IsDone(f, n, reg, olts, failing, default)
      PROVE  \E g : IsDone(g, n + 1, reg, olts, failing, default)
  <2> DEFINE next(h, i) == Converge(h[i - 1], olts[i], failing, default)
             g == [i \in 0..(n + 1) |-> IF i = n + 1 THEN next(f, n + 1) ELSE f[i]]
  <2>1. DOMAIN f = 0..n /\ \A i \in 0..n : f[i] = IF i = 0 THEN first ELSE next(f, i)
    BY <1>2, Zenon DEF IsDone
  <2>2. \A i \in 0..n : g[i] = f[i]
    OBVIOUS
  <2>3. n + 1 # 0 /\ n + 1 - 1 = n /\ n \in 0..n
    OBVIOUS
  <2>4. g[n + 1] = next(g, n + 1)
    BY <2>2, <2>3
  <2>5. \A i \in 1..n : i - 1 \in 0..n
    OBVIOUS
  <2>7. g = [i \in 0..(n + 1) |-> g[i]]
    OBVIOUS
  <2> HIDE DEF g, next, first
  <2>6. ASSUME NEW i \in 0..(n + 1)
        PROVE  g[i] = IF i = 0 THEN first ELSE next(g, i)
    <3>1. CASE i = n + 1
      BY <2>3, <2>4, <3>1
    <3>2. CASE i = 0
      BY <2>1, <2>2, <2>3, <3>2
    <3>3. CASE i \in 1..n
      <4>1. g[i] = f[i] /\ f[i] = next(f, i) /\ i # 0
        BY <2>1, <2>2, <3>3
      <4>2. g[i - 1] = f[i - 1]
        BY <2>2, <2>5, <3>3
      <4>3. next(g, i) = next(f, i)
        BY <4>2, Zenon DEF next
      <4> QED
        BY <4>1, <4>3
    <3> QED
      BY <3>1, <3>2, <3>3
  <2>8. IsDone(g, n + 1, reg, olts, failing, default)
    BY <2>6, <2>7, Zenon DEF IsDone, next, first
  <2> QED
    BY <2>8
<1>3. \A n \in Nat : n \in S
  <2>1. \A n \in Nat : n \in S => n + 1 \in S
    BY <1>2
  <2> HIDE DEF S
  <2> QED
    BY <1>1, <2>1, Induction
<1> QED
  BY <1>3

\* After n OLTs of the list.
ReconciledUpTo(n, before, reg, call) ==
  /\ IsRegistry(reg)
  /\ DOMAIN reg.entries \subseteq {call.olts[i].id : i \in DOMAIN call.olts}
  /\ \A i \in 1..n : Converged(before, reg, call.olts[i], call.failing)
  /\ \A i \in DOMAIN call.olts \ (1..n) :
       LET id == call.olts[i].id IN
       /\ id \in DOMAIN reg.entries <=> id \in DOMAIN before.entries
       /\ id \in DOMAIN reg.entries => reg.entries[id] = before.entries[id]

LEMMA ReconcileNext ==
  ASSUME NEW call, IsCall(call), NEW before, NEW reg, NEW default,
         NEW n \in Nat, n + 1 \in DOMAIN call.olts, ReconciledUpTo(n, before, reg, call)
  PROVE  ReconciledUpTo(n + 1, before, Converge(reg, call.olts[n + 1], call.failing, default), call)
<1> DEFINE o == call.olts[n + 1]
           r == Converge(reg, o, call.failing, default)
<1>1. IsRegistry(reg) /\ IsOlt(o)
  BY DEF ReconciledUpTo, IsCall
<1>2. IsRegistry(r) /\ SameBut({o.id}, r, reg) /\ Converged(reg, r, o, call.failing)
  BY <1>1, ConvergeStep
<1> HIDE DEF r
<1>3. \A i \in DOMAIN call.olts : i # n + 1 => call.olts[i].id # o.id
  BY DEF IsCall
<1>4. DOMAIN r.entries \subseteq {call.olts[i].id : i \in DOMAIN call.olts}
  <2>1. DOMAIN r.entries \subseteq DOMAIN reg.entries \cup {o.id}
    BY <1>2 DEF SameBut
  <2> QED
    BY <2>1 DEF ReconciledUpTo
<1>5. n + 1 \notin 1..n /\ 1..(n + 1) = (1..n) \cup {n + 1} /\ 1..n \subseteq DOMAIN call.olts
  BY DEF IsCall
<1>6. ASSUME NEW i \in 1..(n + 1) PROVE Converged(before, r, call.olts[i], call.failing)
  <2>1. CASE i = n + 1
    <3>1. /\ o.id \in DOMAIN reg.entries <=> o.id \in DOMAIN before.entries
          /\ o.id \in DOMAIN reg.entries => reg.entries[o.id] = before.entries[o.id]
      BY <1>5 DEF ReconciledUpTo
    <3> QED
      BY <1>2, <2>1, <3>1 DEF Converged
  <2>2. CASE i # n + 1
    <3>1. i \in 1..n /\ call.olts[i].id # o.id
      BY <1>3, <1>5, <2>2
    <3>2. Converged(before, reg, call.olts[i], call.failing)
      BY <3>1 DEF ReconciledUpTo
    <3> QED
      BY <1>2, <3>1, <3>2 DEF SameBut, Converged
  <2> QED
    BY <2>1, <2>2
<1>7. ASSUME NEW i \in DOMAIN call.olts \ (1..(n + 1))
      PROVE  LET id == call.olts[i].id IN
             /\ id \in DOMAIN r.entries <=> id \in DOMAIN before.entries
             /\ id \in DOMAIN r.entries => r.entries[id] = before.entries[id]
  <2>1. i # n + 1 /\ i \in DOMAIN call.olts \ (1..n)
    BY <1>5
  <2>2. call.olts[i].id # o.id
    BY <1>3, <2>1
  <2> QED
    BY <1>2, <2>1, <2>2 DEF SameBut, ReconciledUpTo
<1> QED
  BY <1>2, <1>4, <1>6, <1>7 DEF ReconciledUpTo, r

LEMMA ReconcileAll ==
  ASSUME NEW call, IsCall(call), NEW before, IsRegistry(before), NEW default
  PROVE  ReconciledUpTo(Len(call.olts), before,
                        Reconcile(before, call.olts, call.failing, default), call)
<1> DEFINE m == Len(call.olts)
           f == CHOOSE h : IsDone(h, m, before, call.olts, call.failing, default)
           gone == DOMAIN before.entries \ {call.olts[i].id : i \in DOMAIN call.olts}
           S == {n \in Nat : n <= m => ReconciledUpTo(n, before, f[n], call)}
<1>1. m \in Nat /\ DOMAIN call.olts = 1..m
  BY DEF IsCall
<1>2. Reconcile(before, call.olts, call.failing, default) = f[m]
  BY DEF Reconcile, IsDone
<1>3. IsDone(f, m, before, call.olts, call.failing, default)
  BY <1>1, DoneExists
<1> HIDE DEF f, m
<1>4. f[0] = RemoveOLTs(before, gone)
  <2>1. 0 \in 0..m
    BY <1>1
  <2> QED
    BY <1>3, <2>1 DEF IsDone
<1>5. 0 \in S
  <2> HIDE DEF gone
  <2>1. IsRegistry(f[0]) /\ SameBut(gone, f[0], before) /\ DOMAIN f[0].entries = DOMAIN before.entries \ gone
    BY <1>4, Removed DEF gone
  <2>2. DOMAIN f[0].entries \subseteq {call.olts[i].id : i \in DOMAIN call.olts}
    BY <2>1 DEF gone
  <2>3. \A i \in DOMAIN call.olts : call.olts[i].id \notin gone
    BY DEF gone
  <2>4. \A i \in DOMAIN call.olts :
          LET id == call.olts[i].id IN
          /\ id \in DOMAIN f[0].entries <=> id \in DOMAIN before.entries
          /\ id \in DOMAIN f[0].entries => f[0].entries[id] = before.entries[id]
    BY <2>1, <2>3 DEF SameBut
  <2>5. ReconciledUpTo(0, before, f[0], call)
    BY <2>1, <2>2, <2>4 DEF ReconciledUpTo
  <2> QED
    BY <2>5
<1>6. ASSUME NEW n \in Nat, n \in S PROVE n + 1 \in S
  <2> SUFFICES ASSUME n + 1 <= m PROVE ReconciledUpTo(n + 1, before, f[n + 1], call)
    OBVIOUS
  <2>1. n <= m /\ n + 1 \in DOMAIN call.olts /\ n + 1 \in 0..m /\ n + 1 # 0 /\ n + 1 - 1 = n
    BY <1>1
  <2>2. f[n + 1] = Converge(f[n], call.olts[n + 1], call.failing, default)
    <3> DEFINE next(i) == Converge(f[i - 1], call.olts[i], call.failing, default)
    <3>1. \A i \in 0..m : f[i] = IF i = 0 THEN RemoveOLTs(before, gone) ELSE next(i)
      BY <1>3, Zenon DEF IsDone
    <3>2. next(n + 1) = Converge(f[n], call.olts[n + 1], call.failing, default)
      BY <2>1
    <3> HIDE DEF next
    <3> QED
      BY <2>1, <3>1, <3>2
  <2>3. ReconciledUpTo(n, before, f[n], call)
    BY <1>6, <2>1
  <2> QED
    BY <2>1, <2>2, <2>3, ReconcileNext
<1>7. \A n \in Nat : n \in S
  <2> HIDE DEF S
  <2> QED
    BY <1>5, <1>6, Induction
<1>8. ReconciledUpTo(m, before, f[m], call)
  BY <1>1, <1>7
<1> QED
  BY <1>2, <1>8 DEF m

\* The fold over the calls, for every set of them.
IsStacks(f, n, calls) ==
  f = [s \in SUBSET (1..n) |->
         IF s = {} THEN NoStacks
         ELSE Reconcile(f[s \ {Max(s)}], calls[Max(s)].olts, calls[Max(s)].failing, "a")]

LEMMA StacksExist ==
  ASSUME NEW n \in Nat, NEW calls PROVE \E f : IsStacks(f, n, calls)
<1> DEFINE S == {m \in Nat : \E f : IsStacks(f, m, calls)}
           next(h, i, s) == Reconcile(h[s], calls[i].olts, calls[i].failing, "a")
<1>1. 0 \in S
  <2> DEFINE f == [s \in SUBSET (1..0) |-> NoStacks]
  <2>1. \A s \in SUBSET (1..0) : s = {}
    OBVIOUS
  <2>2. f = [s \in SUBSET (1..0) |-> IF s = {} THEN NoStacks ELSE next(f, Max(s), s \ {Max(s)})]
    BY <2>1
  <2>3. IsStacks(f, 0, calls)
    BY <2>2 DEF IsStacks
  <2> QED
    BY <2>3
<1>2. ASSUME NEW m \in Nat, NEW f, IsStacks(f, m, calls)
      PROVE  \E g : IsStacks(g, m + 1, calls)
  <2> DEFINE g == [s \in SUBSET (1..(m + 1)) |->
                     IF m + 1 \in s THEN next(f, m + 1, s \ {m + 1}) ELSE f[s]]
  <2>1. \A s \in SUBSET (1..m) : f[s] = IF s = {} THEN NoStacks ELSE next(f, Max(s), s \ {Max(s)})
    BY <1>2, Zenon DEF IsStacks
  <2>2. \A s \in SUBSET (1..m) : g[s] = f[s]
    <3> SUFFICES ASSUME NEW s \in SUBSET (1..m) PROVE g[s] = f[s]
      OBVIOUS
    <3>1. m + 1 \notin s /\ s \in SUBSET (1..(m + 1))
      OBVIOUS
    <3> QED
      BY <3>1, Zenon
  <2>3. \A s \in SUBSET (1..(m + 1)) : m + 1 \in s => g[s] = next(f, m + 1, s \ {m + 1})
    OBVIOUS
  <2>4. g = [s \in SUBSET (1..(m + 1)) |-> g[s]]
    OBVIOUS
  <2>5. \A s \in SUBSET (1..(m + 1)) : s \ {m + 1} \in SUBSET (1..m)
    OBVIOUS
  <2>6. \A h1, h2, i, s : h1[s] = h2[s] => next(h1, i, s) = next(h2, i, s)
    BY Zenon
  <2> HIDE DEF g, next
  <2>7. ASSUME NEW s \in SUBSET (1..(m + 1))
        PROVE  g[s] = IF s = {} THEN NoStacks ELSE next(g, Max(s), s \ {Max(s)})
    <3>1. CASE m + 1 \in s
      <4>1. Max(s) = m + 1
        <5>1. m + 1 \in Nat /\ s # {}
          BY <3>1
        <5>2. Max(s) \in s /\ m + 1 <= Max(s)
          BY <3>1, <5>1, GreatestOfSome
        <5>3. Max(s) \in 1..(m + 1)
          BY <5>2
        <5> QED
          BY <5>2, <5>3
      <4>2. g[s \ {m + 1}] = f[s \ {m + 1}]
        BY <2>2, <2>5
      <4>3. next(g, m + 1, s \ {m + 1}) = next(f, m + 1, s \ {m + 1})
        BY <2>6, <4>2
      <4> QED
        BY <2>3, <3>1, <4>1, <4>3
    <3>2. CASE m + 1 \notin s
      <4>1. s \in SUBSET (1..m)
        BY <3>2
      <4>2. g[s] = IF s = {} THEN NoStacks ELSE next(f, Max(s), s \ {Max(s)})
        BY <2>1, <2>2, <4>1
      <4>3. CASE s = {}
        BY <4>2, <4>3
      <4>4. CASE s # {}
        <5>1. s \ {Max(s)} \in SUBSET (1..m)
          BY <4>1
        <5>2. g[s \ {Max(s)}] = f[s \ {Max(s)}]
          BY <2>2, <5>1
        <5>3. next(g, Max(s), s \ {Max(s)}) = next(f, Max(s), s \ {Max(s)})
          BY <2>6, <5>2
        <5> QED
          BY <4>2, <4>4, <5>3
      <4> QED
        BY <4>3, <4>4
    <3> QED
      BY <3>1, <3>2
  <2>8. IsStacks(g, m + 1, calls)
    BY <2>4, <2>7, Zenon DEF IsStacks, next
  <2> QED
    BY <2>8
<1>3. \A m \in Nat : m \in S
  <2>1. \A m \in Nat : m \in S => m + 1 \in S
    BY <1>2
  <2> HIDE DEF S
  <2> QED
    BY <1>1, <2>1, Induction
<1> QED
  BY <1>3

\* The stacks after each call.
LEMMA StacksInOrder ==
  ASSUME NEW calls, Len(calls) \in Nat, DOMAIN calls = 1..Len(calls)
  PROVE  \E g : /\ Stacks(calls) = g[Len(calls)] /\ g[0] = NoStacks
                /\ \A k \in 1..Len(calls) :
                     g[k] = Reconcile(g[k - 1], calls[k].olts, calls[k].failing, "a")
<1> DEFINE n == Len(calls)
           f == CHOOSE h : IsStacks(h, n, calls)
           g == [k \in 0..n |-> f[1..k]]
           next(r, k) == Reconcile(r, calls[k].olts, calls[k].failing, "a")
<1>1. Stacks(calls) = f[1..n]
  BY DEF Stacks, FoldLeft, MapThenFoldSet, IsStacks
<1>2. IsStacks(f, n, calls)
  BY StacksExist
<1> HIDE DEF f
<1>3. \A s \in SUBSET (1..n) : f[s] = IF s = {} THEN NoStacks ELSE next(f[s \ {Max(s)}], Max(s))
  BY <1>2, Zenon DEF IsStacks
<1>6. n \in Nat
  OBVIOUS
<1> HIDE DEF next, n
<1>4. g[0] = NoStacks /\ g[n] = f[1..n]
  <2>1. 0 \in 0..n /\ n \in 0..n /\ 1..0 = {}
    BY <1>6
  <2> QED
    BY <1>3, <2>1
<1>5. ASSUME NEW k \in 1..n PROVE g[k] = next(g[k - 1], k)
  <2>1. k \in 0..n /\ k - 1 \in 0..n /\ 1..k \in SUBSET (1..n) /\ k \in 1..k
    BY <1>6
  <2>2. Max(1..k) = k /\ (1..k) \ {Max(1..k)} = 1..(k - 1)
    BY <1>6, GreatestOfInterval
  <2> QED
    BY <1>3, <2>1, <2>2
<1> QED
  BY <1>1, <1>4, <1>5 DEF next, n

\* The three sets of PONs of a stack are the ones its indexes are for.
LEMMA SamePons ==
  ASSUME NEW e, NEW id, IsEntryOf(e, id)
  PROVE  Admitted(e) = Indexed(e) /\ Polled(e) = Indexed(e)
<1> DEFINE specs == e.olt.specs
           map == [k \in Ports(specs) |-> [onuID |-> OnuIDSuffix(k[1], k[2]),
                                           onuType |-> OnuTypeSuffix(k[1], k[2])]]
<1>1. /\ e.boardPons = specs /\ e.stack.map = BoardPonMap(specs).map
      /\ DOMAIN specs # {} /\ DOMAIN specs \subseteq Boards
      /\ \A b \in DOMAIN specs : specs[b] \in Pons
  BY DEF IsEntryOf, IsOlt
<1> HIDE DEF specs
<1>2. OrDefault(specs) = specs
  BY <1>1 DEF OrDefault
<1>3. BoardPonMap(specs) = [ok |-> TRUE, map |-> map]
  BY <1>1, <1>2 DEF BoardPonMap
<1>4. DOMAIN map = Ports(specs)
  OBVIOUS
<1> HIDE DEF map
<1>5. Indexed(e) = Ports(specs)
  BY <1>1, <1>3, <1>4 DEF Indexed
<1>6. Ports(specs) = {k \in (DOMAIN specs) \X Pons : k[2] <= specs[k[1]]}
  BY <1>1 DEF Ports, PonCount
<1>7. Admitted(e) = {k \in (DOMAIN specs) \X Pons : k[2] <= specs[k[1]]}
  BY <1>1, <1>2 DEF Admitted
<1>8. Polled(e) = {k \in (DOMAIN specs) \X Pons : k[1] \in DOMAIN specs /\ k[2] <= specs[k[1]]}
  BY <1>1 DEF Polled, specs
<1>9. \A k \in (DOMAIN specs) \X Pons : k[1] \in DOMAIN specs
  OBVIOUS
<1> QED
  BY <1>5, <1>6, <1>7, <1>8, <1>9

\* As many connections are open as there are stacks.
LEMMA UsedConnections ==
  ASSUME NEW reg, ConnectionsInv(reg), IsFiniteSet(DOMAIN reg.entries)
  PROVE  LET used == {reg.entries[id].pool : id \in DOMAIN reg.entries} IN
         /\ used = (1..reg.opened) \ reg.closed
         /\ Cardinality(used) = Cardinality(DOMAIN reg.entries)
<1> DEFINE D == DOMAIN reg.entries
           used == {reg.entries[id].pool : id \in D}
           f == [id \in D |-> reg.entries[id].pool]
<1>1. used = (1..reg.opened) \ reg.closed
  BY DEF ConnectionsInv
<1>2. /\ f \in [D -> used] /\ \A i, j \in D : f[i] = f[j] => i = j
      /\ \A p \in used : \E i \in D : f[i] = p
  BY DEF ConnectionsInv
<1>3. f \in Bijection(D, used)
  <2> HIDE DEF f, D, used
  <2> QED
    BY <1>2 DEF Bijection, Injection, Surjection, IsInjective
<1>4. ExistsBijection(D, used)
  BY <1>3 DEF ExistsBijection
<1>5. Cardinality(used) = Cardinality(D)
  <2> HIDE DEF D, used
  <2> QED
    BY <1>4, FS_Bijection DEF D
<1> QED
  BY <1>1, <1>5

LEMMA CallFollowed ==
  ASSUME NEW call, IsCall(call), NEW before, IsRegistry(before), NEW default
  PROVE  LET reg == Reconcile(before, call.olts, call.failing, default) IN
         IsRegistry(reg) /\ FollowsConfig(before, reg, call)
<1> DEFINE reg == Reconcile(before, call.olts, call.failing, default)
           ids == {call.olts[i].id : i \in DOMAIN call.olts}
           used == {reg.entries[id].pool : id \in DOMAIN reg.entries}
<1>1. ReconciledUpTo(Len(call.olts), before, reg, call)
  BY ReconcileAll
<1>2. Len(call.olts) \in Nat /\ DOMAIN call.olts = 1..Len(call.olts)
      /\ \A i \in DOMAIN call.olts : IsOlt(call.olts[i])
  BY DEF IsCall
<1> HIDE DEF reg
<1>3. IsRegistry(reg) /\ DOMAIN reg.entries \subseteq ids
  BY <1>1 DEF ReconciledUpTo
<1>4. IsFiniteSet(DOMAIN reg.entries)
  <2>1. IsFiniteSet(1..Len(call.olts))
    BY <1>2, FS_Interval
  <2> DEFINE f == [i \in 1..Len(call.olts) |-> call.olts[i].id]
  <2>2. f \in Surjection(1..Len(call.olts), ids)
    BY <1>2 DEF Surjection
  <2>3. IsFiniteSet(ids)
    <3> HIDE DEF f, ids
    <3> QED
      BY <2>1, <2>2, FS_Surjection
  <2> QED
    BY <1>3, <2>3, FS_Subset
<1>5. ConnectionsInv(reg)
  BY <1>3 DEF IsRegistry
<1>6. used = (1..reg.opened) \ reg.closed /\ Cardinality(used) = Cardinality(DOMAIN reg.entries)
  BY <1>4, <1>5, UsedConnections
<1>7. used \cap reg.closed = {} /\ used \cup reg.closed = 1..reg.opened
  BY <1>5, <1>6 DEF ConnectionsInv
<1>8. CloseRegistry(reg).closed = 1..reg.opened
  <2>1. reg = [entries |-> reg.entries, opened |-> reg.opened, closed |-> reg.closed]
    BY <1>3 DEF IsRegistry
  <2>2. CloseRegistry(reg) = [reg EXCEPT !.entries = <<>>, !.closed = reg.closed \cup used]
    BY DEF CloseRegistry
  <2> HIDE DEF used
  <2>3. CloseRegistry(reg).closed = reg.closed \cup used
    BY <2>1, <2>2
  <2> QED
    BY <1>7, <2>3
<1>9. \A id \in DOMAIN reg.entries :
        Admitted(reg.entries[id]) = Indexed(reg.entries[id])
        /\ Polled(reg.entries[id]) = Indexed(reg.entries[id])
  BY <1>3, SamePons DEF IsRegistry
<1>10. ASSUME NEW i \in DOMAIN call.olts
       PROVE  LET o == call.olts[i] IN
       \/ o.id \in call.failing \ DOMAIN reg.entries
       \/ /\ o.id \in DOMAIN reg.entries
          /\ reg.entries[o.id].olt = o /\ reg.entries[o.id].user = o.user
          /\ <<reg.entries[o.id].stack.host, reg.entries[o.id].stack.map>> = <<o.host, o.map>>
          /\ o.id \in DOMAIN before.entries
               /\ before.entries[o.id].olt = [o EXCEPT !.max = before.entries[o.id].olt.max,
                                                       !.user = before.entries[o.id].olt.user]
               => reg.entries[o.id].pool = before.entries[o.id].pool
  <2> DEFINE o == call.olts[i]
             was == before.entries[o.id].olt
  <2>1. Converged(before, reg, o, call.failing)
    BY <1>1, <1>2 DEF ReconciledUpTo
  <2>2. IsOlt(o)
    BY <1>2
  <2> HIDE DEF o
  <2>3. ASSUME was = [o EXCEPT !.max = was.max, !.user = was.user]
        PROVE  OltChangeKey(was) = OltChangeKey(o)
    <3> DEFINE max == was.max
               user == was.user
    <3>1. o = [id |-> o.id, user |-> o.user, host |-> o.host, community |-> o.community,
               walk |-> o.walk, port |-> o.port, max |-> o.max, specs |-> o.specs, map |-> o.map]
      BY <2>2 DEF IsOlt
    <3>2. was = [o EXCEPT !.max = max, !.user = user]
      BY <2>3
    <3> HIDE DEF was, max, user
    <3>3. /\ was.host = o.host /\ was.port = o.port /\ was.community = o.community
          /\ was.walk = o.walk /\ was.specs = o.specs
      BY <3>1, <3>2
    <3> QED
      BY <3>3 DEF OltChangeKey
  <2>4. o.id \in DOMAIN reg.entries => IsEntryOf(reg.entries[o.id], o.id)
    BY <1>3 DEF IsRegistry
  <2>5. o.id \in DOMAIN reg.entries /\ reg.entries[o.id].olt = o =>
          reg.entries[o.id].stack.host = o.host /\ reg.entries[o.id].stack.map = o.map
    BY <2>4 DEF IsEntryOf
  <2>6. \/ o.id \in call.failing \ DOMAIN reg.entries
        \/ /\ o.id \in DOMAIN reg.entries
           /\ reg.entries[o.id].olt = o /\ reg.entries[o.id].user = o.user
           /\ o.id \in DOMAIN before.entries
                /\ OltChangeKey(was) = OltChangeKey(o)
                => reg.entries[o.id].pool = before.entries[o.id].pool
    BY <2>1 DEF Converged
  <2> QED
    BY <2>3, <2>5, <2>6 DEF o
<1>11. FollowsConfig(before, reg, call)
  BY <1>3, <1>6, <1>7, <1>8, <1>9, <1>10, Zenon DEF FollowsConfig
<1> QED
  BY <1>3, <1>11 DEF reg

LEMMA NoStacksIsRegistry == IsRegistry(NoStacks)
<1>1. NoStacks.entries = <<>> /\ NoStacks.opened = 0 /\ NoStacks.closed = {}
      /\ NoStacks = [entries |-> NoStacks.entries, opened |-> NoStacks.opened, closed |-> NoStacks.closed]
  BY DEF NoStacks
<1>2. DOMAIN NoStacks.entries = {}
  BY <1>1
<1>3. NoStacks.entries = [id \in DOMAIN NoStacks.entries |-> NoStacks.entries[id]]
  BY <1>1
<1>4. ConnectionsInv(NoStacks)
  BY <1>1, <1>2 DEF ConnectionsInv
<1> QED
  BY <1>1, <1>2, <1>3, <1>4 DEF IsRegistry

\* After any calls of Reconcile, of whatever configurations, the stacks follow the last
\* one and every connection is used by one stack or closed (Reconcile, addOLTLocked,
\* removeOLTLocked, Close).
THEOREM StacksFollowCalls ==
  ASSUME NEW C, NEW calls \in Seq(C), calls # <<>>, \A call \in C : IsCall(call)
  PROVE  FollowsConfig(Stacks(Front(calls)), Stacks(calls), Last(calls))
<1> DEFINE n == Len(calls)
           before == Front(calls)
           next(r, k) == Reconcile(r, calls[k].olts, calls[k].failing, "a")
<1>1. n \in Nat /\ n >= 1 /\ DOMAIN calls = 1..n /\ n - 1 \in Nat /\ \A k \in 1..n : IsCall(calls[k])
  OBVIOUS
<1>2. Len(before) = n - 1 /\ DOMAIN before = 1..(n - 1) /\ \A k \in 1..(n - 1) : before[k] = calls[k]
  <2> DEFINE m == n - 1
  <2>1. before = SubSeq(calls, 1, m)
    BY DEF Front
  <2>2. m \in Nat /\ m <= Len(calls) /\ 1..m \subseteq DOMAIN calls
    BY <1>1
  <2> HIDE DEF m, before, n
  <2>3. before \in Seq(C) /\ Len(before) = m /\ \A k \in 1..m : before[k] = calls[k]
    BY <2>1, <2>2
  <2> QED
    BY <2>3 DEF m
<1>3. Last(calls) = calls[n]
  BY DEF Last
<1>4. PICK g : /\ Stacks(calls) = g[n] /\ g[0] = NoStacks
               /\ \A k \in 1..n : g[k] = next(g[k - 1], k)
  BY <1>1, StacksInOrder
<1>5. PICK h : /\ Stacks(before) = h[n - 1] /\ h[0] = NoStacks
               /\ \A k \in 1..(n - 1) : h[k] = next(h[k - 1], k)
  <2>1. \E h : /\ Stacks(before) = h[Len(before)] /\ h[0] = NoStacks
               /\ \A k \in 1..Len(before) :
                    h[k] = Reconcile(h[k - 1], before[k].olts, before[k].failing, "a")
    BY <1>1, <1>2, StacksInOrder
  <2> QED
    BY <1>2, <2>1
<1> DEFINE S == {k \in Nat : k <= n - 1 => g[k] = h[k] /\ IsRegistry(g[k])}
<1>6. 0 \in S
  BY <1>4, <1>5, NoStacksIsRegistry
<1>7. ASSUME NEW k \in Nat, k \in S PROVE k + 1 \in S
  <2> SUFFICES ASSUME k + 1 <= n - 1 PROVE g[k + 1] = h[k + 1] /\ IsRegistry(g[k + 1])
    OBVIOUS
  <2>1. k + 1 \in 1..n /\ k + 1 \in 1..(n - 1) /\ k + 1 - 1 = k /\ k <= n - 1
    BY <1>1
  <2>2. g[k] = h[k] /\ IsRegistry(g[k])
    BY <1>7, <2>1
  <2>3. g[k + 1] = next(g[k], k + 1) /\ h[k + 1] = next(h[k], k + 1)
    <3> HIDE DEF next, n
    <3> QED
      BY <1>4, <1>5, <2>1
  <2>4. IsRegistry(next(g[k], k + 1))
    BY <1>1, <2>1, <2>2, CallFollowed
  <2> HIDE DEF next
  <2> QED
    BY <2>2, <2>3, <2>4
<1>8. \A k \in Nat : k \in S
  <2> HIDE DEF S
  <2> QED
    BY <1>6, <1>7, Induction
<1>9. g[n - 1] = h[n - 1] /\ IsRegistry(g[n - 1])
  BY <1>1, <1>8
<1>10. Stacks(calls) = next(Stacks(before), n)
  <2> HIDE DEF next, n
  <2> QED
    BY <1>1, <1>4, <1>5, <1>9
<1>11. IsRegistry(Stacks(before))
  BY <1>5, <1>9
<1>12. IsCall(calls[n])
  BY <1>1
<1> HIDE DEF before, n
<1> QED
  BY <1>3, <1>10, <1>11, <1>12, CallFollowed DEF before

-----------------------------------------------------------------------------
(***************************************************************************)
(* Uplinks.  After each pair of the stack the LAGs and ports that were     *)
(* attached are those of the pairs so far.                                 *)
(***************************************************************************)
Attachments(walk) ==
  [lag : [Uplinks(walk) -> Uplinks(walk) \cup {NoLag}], members : [Uplinks(walk) -> SUBSET Uplinks(walk)]]

OfKind(walk, k) == {i \in Uplinks(walk) : walk.kinds[i] = k}

\* A pair among the first n names a and b.
Named(walk, n, a, b) ==
  \E i \in 1..n : {walk.stack[i][1], walk.stack[i][2]} = {a, b}

\* The ports after the first n pairs.
AttachedUpTo(walk, n, s) ==
  /\ \A p \in OfKind(walk, "physical") :
       /\ s.members[p] = {}
       /\ s.lag[p] # NoLag => /\ s.lag[p] \in OfKind(walk, "lag")
                              /\ p \in s.members[s.lag[p]] /\ Named(walk, n, p, s.lag[p])
  /\ \A l \in OfKind(walk, "lag") :
       /\ s.lag[l] = NoLag
       /\ \A p : p \in s.members[l] <=> p \in OfKind(walk, "physical") /\ Named(walk, n, l, p)
       /\ \A p \in s.members[l] : s.lag[p] # NoLag

LEMMA Kinds ==
  ASSUME NEW walk
  PROVE  /\ OfKind(walk, "lag") \subseteq Uplinks(walk) /\ OfKind(walk, "physical") \subseteq Uplinks(walk)
         /\ OfKind(walk, "lag") \cap OfKind(walk, "physical") = {}
         /\ \A i \in Uplinks(walk) : i \in OfKind(walk, "lag") \/ i \in OfKind(walk, "physical")
<1>1. "lag" # "physical"
  OBVIOUS
<1>2. \A i \in Uplinks(walk) : walk.kinds[i] = "lag" \/ walk.kinds[i] = "physical"
  BY DEF Uplinks
<1> QED
  BY <1>1, <1>2 DEF OfKind

\* What one pair does: a LAG and a port, in either order, are attached, and nothing else is.
AttachedBy(walk, s, r, lag, port) ==
  /\ r.lag = [s.lag EXCEPT ![port] = lag]
  /\ r.members = [s.members EXCEPT ![lag] = @ \cup {port}]

LEMMA AttachCases ==
  ASSUME NEW walk, NEW s \in Attachments(walk), NEW pair
  PROVE  LET r == AttachLagMember(walk, s, pair) IN
         /\ r \in Attachments(walk)
         /\ \/ /\ r = s
               /\ \A l \in OfKind(walk, "lag"), p \in OfKind(walk, "physical") : {pair[1], pair[2]} # {l, p}
            \/ \E l \in OfKind(walk, "lag"), p \in OfKind(walk, "physical") :
                 {pair[1], pair[2]} = {l, p} /\ AttachedBy(walk, s, r, l, p)
<1> DEFINE h == pair[1]
           l == pair[2]
           U == Uplinks(walk)
           r == AttachLagMember(walk, s, pair)
           attach(a, b) == [lag |-> [s.lag EXCEPT ![b] = a], members |-> [s.members EXCEPT ![a] = @ \cup {b}]]
<1>1. s.lag \in [U -> U \cup {NoLag}] /\ s.members \in [U -> SUBSET U]
  BY DEF Attachments
<1>2. ASSUME NEW a \in U, NEW b \in U
      PROVE  attach(a, b) \in Attachments(walk) /\ AttachedBy(walk, s, attach(a, b), a, b)
  <2> DEFINE lag == [s.lag EXCEPT ![b] = a]
             members == [s.members EXCEPT ![a] = @ \cup {b}]
  <2>1. attach(a, b) = [lag |-> lag, members |-> members]
    OBVIOUS
  <2>2. lag \in [U -> U \cup {NoLag}] /\ members \in [U -> SUBSET U]
    BY <1>1
  <2> HIDE DEF lag, members, attach, U
  <2>3. attach(a, b).lag = lag /\ attach(a, b).members = members
    BY <2>1
  <2>4. attach(a, b) \in Attachments(walk)
    BY <2>1, <2>2 DEF Attachments, U
  <2> QED
    BY <2>3, <2>4 DEF AttachedBy, lag, members
<1>3. r = IF ~({h, l} \subseteq U) \/ walk.kinds[h] = walk.kinds[l] THEN s
          ELSE IF walk.kinds[h] = "lag" THEN attach(h, l) ELSE attach(l, h)
  BY DEF AttachLagMember
<1> HIDE DEF r, attach
<1>4. CASE h \in U /\ l \in U /\ walk.kinds[h] # walk.kinds[l]
  <2>1. CASE walk.kinds[h] = "lag"
    <3>1. h \in OfKind(walk, "lag") /\ l \in OfKind(walk, "physical")
      BY <1>4, <2>1 DEF OfKind, Uplinks
    <3>2. r = attach(h, l)
      BY <1>3, <1>4, <2>1
    <3> QED
      BY <1>2, <1>4, <3>1, <3>2 DEF r
  <2>2. CASE walk.kinds[h] # "lag"
    <3>1. l \in OfKind(walk, "lag") /\ h \in OfKind(walk, "physical")
      BY <1>4, <2>2 DEF OfKind, Uplinks
    <3>2. r = attach(l, h)
      BY <1>3, <1>4, <2>2
    <3>3. {h, l} = {l, h}
      OBVIOUS
    <3> QED
      BY <1>2, <1>4, <3>1, <3>2, <3>3 DEF r
  <2> QED
    BY <2>1, <2>2
<1>5. CASE ~(h \in U /\ l \in U /\ walk.kinds[h] # walk.kinds[l])
  <2>1. r = s
    BY <1>3, <1>5
  <2>2. ASSUME NEW a \in OfKind(walk, "lag"), NEW b \in OfKind(walk, "physical"), {h, l} = {a, b}
        PROVE  FALSE
    <3>1. (h = a /\ l = b) \/ (h = b /\ l = a)
      BY <2>2
    <3>2. a \in U /\ b \in U /\ walk.kinds[a] # walk.kinds[b]
      BY DEF OfKind
    <3> QED
      BY <1>5, <3>1, <3>2
  <2> QED
    BY <2>1, <2>2 DEF r
<1> QED
  BY <1>4, <1>5

LEMMA AttachStep ==
  ASSUME NEW walk, NoLag \notin Uplinks(walk), NEW n \in Nat, NEW s \in Attachments(walk),
         AttachedUpTo(walk, n, s)
  PROVE  AttachedUpTo(walk, n + 1, AttachLagMember(walk, s, walk.stack[n + 1]))
<1> DEFINE pair == walk.stack[n + 1]
           r == AttachLagMember(walk, s, pair)
           lags == OfKind(walk, "lag")
           ports == OfKind(walk, "physical")
<1>1. \A a, b : Named(walk, n + 1, a, b) <=> Named(walk, n, a, b) \/ {pair[1], pair[2]} = {a, b}
  <2>1. 1..(n + 1) = (1..n) \cup {n + 1}
    OBVIOUS
  <2> QED
    BY <2>1 DEF Named
<1>2. \/ /\ r = s
         /\ \A l \in lags, p \in ports : {pair[1], pair[2]} # {l, p}
      \/ \E l \in lags, p \in ports : {pair[1], pair[2]} = {l, p} /\ AttachedBy(walk, s, r, l, p)
  BY AttachCases
<1>3. \A a, b : {a, b} = {b, a}
  OBVIOUS
<1>4. s.lag \in [Uplinks(walk) -> Uplinks(walk) \cup {NoLag}]
      /\ s.members \in [Uplinks(walk) -> SUBSET Uplinks(walk)]
  BY DEF Attachments
<1> HIDE DEF r, pair
<1>5. ASSUME r = s, \A l \in lags, p \in ports : {pair[1], pair[2]} # {l, p}
      PROVE  AttachedUpTo(walk, n + 1, r)
  BY <1>1, <1>5 DEF AttachedUpTo
<1>6. ASSUME NEW l \in lags, NEW p \in ports, {pair[1], pair[2]} = {l, p}, AttachedBy(walk, s, r, l, p)
      PROVE  AttachedUpTo(walk, n + 1, r)
  <2>1. l # p /\ l \in Uplinks(walk) /\ p \in Uplinks(walk) /\ l # NoLag
        /\ lags \cap ports = {} /\ lags \subseteq Uplinks(walk) /\ ports \subseteq Uplinks(walk)
    BY Kinds
  <2>2. /\ r.lag[p] = l /\ r.members[l] = s.members[l] \cup {p}
        /\ \A i \in Uplinks(walk) \ {p} : r.lag[i] = s.lag[i]
        /\ \A i \in Uplinks(walk) \ {l} : r.members[i] = s.members[i]
    BY <1>4, <1>6, <2>1 DEF AttachedBy
  <2>3. Named(walk, n + 1, l, p) /\ Named(walk, n + 1, p, l)
    BY <1>1, <1>3, <1>6
  <2>4. \A a, b : Named(walk, n, a, b) => Named(walk, n + 1, a, b)
    BY <1>1
  <2>5. \A a \in lags, b \in ports : Named(walk, n + 1, a, b) => Named(walk, n, a, b) \/ (a = l /\ b = p)
    <3> SUFFICES ASSUME NEW a \in lags, NEW b \in ports, Named(walk, n + 1, a, b), ~Named(walk, n, a, b)
                 PROVE  a = l /\ b = p
      OBVIOUS
    <3>1. {l, p} = {a, b}
      BY <1>1, <1>6
    <3> QED
      BY <2>1, <3>1
  <2> HIDE DEF lags, ports
  <2>6. ASSUME NEW q \in ports
        PROVE  /\ r.members[q] = {}
               /\ r.lag[q] # NoLag => /\ r.lag[q] \in lags
                                      /\ q \in r.members[r.lag[q]] /\ Named(walk, n + 1, q, r.lag[q])
    <3>1. q # l /\ q \in Uplinks(walk)
      BY <2>1
    <3>2. /\ s.members[q] = {}
          /\ s.lag[q] # NoLag => /\ s.lag[q] \in lags
                                 /\ q \in s.members[s.lag[q]] /\ Named(walk, n, q, s.lag[q])
      BY DEF AttachedUpTo, lags, ports
    <3>3. r.members[q] = {}
      BY <2>2, <3>1, <3>2
    <3>4. CASE q = p
      BY <2>2, <2>3, <3>3, <3>4
    <3>5. CASE q # p
      <4>1. r.lag[q] = s.lag[q]
        BY <2>2, <3>1, <3>5
      <4>2. \A a \in lags : q \in s.members[a] => q \in r.members[a]
        BY <2>1, <2>2
      <4> QED
        BY <2>4, <3>2, <3>3, <4>1, <4>2
    <3> QED
      BY <3>4, <3>5
  <2>7. ASSUME NEW a \in lags
        PROVE  /\ r.lag[a] = NoLag
               /\ \A q : q \in r.members[a] <=> q \in ports /\ Named(walk, n + 1, a, q)
               /\ \A q \in r.members[a] : r.lag[q] # NoLag
    <3>1. a # p /\ a \in Uplinks(walk)
      BY <2>1
    <3>2. /\ s.lag[a] = NoLag
          /\ \A q : q \in s.members[a] <=> q \in ports /\ Named(walk, n, a, q)
          /\ \A q \in s.members[a] : s.lag[q] # NoLag
      BY DEF AttachedUpTo, lags, ports
    <3>3. r.lag[a] = NoLag
      BY <2>2, <3>1, <3>2
    <3>4. \A q : q \in r.members[a] <=> q \in s.members[a] \/ (a = l /\ q = p)
      BY <2>2, <3>1
    <3>5. \A q : q \in r.members[a] <=> q \in ports /\ Named(walk, n + 1, a, q)
      BY <2>3, <2>4, <2>5, <3>2, <3>4
    <3>6. \A q \in r.members[a] : r.lag[q] # NoLag
      <4> SUFFICES ASSUME NEW q \in r.members[a] PROVE r.lag[q] # NoLag
        OBVIOUS
      <4>1. CASE q = p
        BY <2>1, <2>2, <4>1
      <4>2. CASE q # p
        <5>1. q \in s.members[a] /\ q \in Uplinks(walk)
          BY <2>1, <3>2, <3>4, <4>2
        <5> QED
          BY <2>2, <3>2, <4>2, <5>1
      <4> QED
        BY <4>1, <4>2
    <3> QED
      BY <3>3, <3>5, <3>6
  <2> QED
    BY <2>6, <2>7 DEF AttachedUpTo, lags, ports
<1>7. ASSUME \E l \in lags, p \in ports : {pair[1], pair[2]} = {l, p} /\ AttachedBy(walk, s, r, l, p)
      PROVE  AttachedUpTo(walk, n + 1, r)
  <2>1. PICK l \in lags, p \in ports : {pair[1], pair[2]} = {l, p} /\ AttachedBy(walk, s, r, l, p)
    BY <1>7, Zenon
  <2>2. AttachedUpTo(walk, n + 1, r)
    BY <1>6, <2>1, Zenon
  <2> QED
    BY <2>2
<1>8. AttachedUpTo(walk, n + 1, r)
  BY <1>2, <1>5, <1>7, Zenon
<1> QED
  BY <1>8 DEF r, pair

\* The fold over the pairs of the stack, for every set of them.
IsAttached(f, n, walk) ==
  f = [s \in SUBSET (1..n) |->
         IF s = {} THEN NoStack(walk)
         ELSE AttachLagMember(walk, f[s \ {Max(s)}], walk.stack[Max(s)])]

LEMMA NoStackIsOne ==
  ASSUME NEW walk, NoLag \notin Uplinks(walk)
  PROVE  NoStack(walk) \in Attachments(walk) /\ AttachedUpTo(walk, 0, NoStack(walk))
<1> DEFINE lag == [i \in Uplinks(walk) |-> NoLag]
           members == [i \in Uplinks(walk) |-> {}]
<1>1. NoStack(walk) = [lag |-> lag, members |-> members]
  BY DEF NoStack
<1>2. lag \in [Uplinks(walk) -> Uplinks(walk) \cup {NoLag}]
      /\ members \in [Uplinks(walk) -> SUBSET Uplinks(walk)]
  OBVIOUS
<1>3. \A i \in Uplinks(walk) : lag[i] = NoLag /\ members[i] = {}
  OBVIOUS
<1> HIDE DEF lag, members
<1>4. NoStack(walk).lag = lag /\ NoStack(walk).members = members
  BY <1>1
<1>5. NoStack(walk) \in Attachments(walk)
  BY <1>1, <1>2 DEF Attachments
<1>6. \A a, b : ~Named(walk, 0, a, b)
  BY DEF Named
<1> QED
  BY <1>3, <1>4, <1>5, <1>6, Kinds DEF AttachedUpTo

LEMMA AttachedExists ==
  ASSUME NEW walk, NoLag \notin Uplinks(walk), NEW n \in Nat
  PROVE  \E f : IsAttached(f, n, walk) /\ \A s \in SUBSET (1..n) : f[s] \in Attachments(walk)
<1> DEFINE V == Attachments(walk)
           base == NoStack(walk)
           step == [i \in 1..n |-> [s \in V |-> AttachLagMember(walk, s, walk.stack[i])]]
<1>1. base \in V
  BY NoStackIsOne
<1>2. \A s \in V : \A pair : AttachLagMember(walk, s, pair) \in V
  BY AttachCases
<1>3. step \in [1..n -> [V -> V]]
  BY <1>2
<1>4. \A i \in 1..n, s \in V : step[i][s] = AttachLagMember(walk, s, walk.stack[i])
  OBVIOUS
<1> HIDE DEF step, V, base
<1>5. PICK f : IsFold(f, n, base, step)
  BY FoldExists
<1>6. \A s \in SUBSET (1..n) : f[s] \in V
  BY <1>1, <1>3, <1>5, FoldWithin
<1>7. f = [s \in SUBSET (1..n) |-> f[s]]
      /\ \A s \in SUBSET (1..n) : f[s] = IF s = {} THEN base ELSE step[Max(s)][f[s \ {Max(s)}]]
  BY <1>5, Zenon DEF IsFold
<1>8. ASSUME NEW s \in SUBSET (1..n)
      PROVE  f[s] = IF s = {} THEN base ELSE AttachLagMember(walk, f[s \ {Max(s)}], walk.stack[Max(s)])
  <2>1. CASE s = {}
    BY <1>7, <2>1
  <2>2. CASE s # {}
    <3>1. Max(s) \in 1..n /\ s \ {Max(s)} \in SUBSET (1..n)
      BY <2>2, GreatestOfSome
    <3>2. f[s \ {Max(s)}] \in V
      BY <1>6, <3>1
    <3> QED
      BY <1>4, <1>7, <2>2, <3>1, <3>2
  <2> QED
    BY <2>1, <2>2
<1>9. IsAttached(f, n, walk)
  BY <1>7, <1>8, Zenon DEF IsAttached, base
<1> QED
  BY <1>6, <1>9 DEF V

\* The pairs are taken in their order.
LEMMA StackedInOrder ==
  ASSUME NEW walk, NoLag \notin Uplinks(walk),
         Len(walk.stack) \in Nat, DOMAIN walk.stack = 1..Len(walk.stack)
  PROVE  Stacked(walk) \in Attachments(walk) /\ AttachedUpTo(walk, Len(walk.stack), Stacked(walk))
<1> DEFINE n == Len(walk.stack)
           f == CHOOSE h : IsAttached(h, n, walk)
           V == Attachments(walk)
<1>1. Stacked(walk) = f[1..n]
  BY DEF Stacked, FoldLeft, MapThenFoldSet, IsAttached
<1>2. IsAttached(f, n, walk)
  BY AttachedExists
<1> HIDE DEF f
<1>3. \A s \in SUBSET (1..n) :
        f[s] = IF s = {} THEN NoStack(walk)
               ELSE AttachLagMember(walk, f[s \ {Max(s)}], walk.stack[Max(s)])
  BY <1>2, Zenon DEF IsAttached
<1>4. n \in Nat
  OBVIOUS
<1> HIDE DEF n
<1> DEFINE S == {k \in Nat : k <= n => f[1..k] \in V /\ AttachedUpTo(walk, k, f[1..k])}
<1>5. 0 \in S
  <2>1. 1..0 = {} /\ 1..0 \in SUBSET (1..n)
    OBVIOUS
  <2> QED
    BY <1>3, <2>1, NoStackIsOne
<1>6. ASSUME NEW k \in Nat, k \in S PROVE k + 1 \in S
  <2> SUFFICES ASSUME k + 1 <= n
               PROVE  f[1..(k + 1)] \in V /\ AttachedUpTo(walk, k + 1, f[1..(k + 1)])
    OBVIOUS
  <2>1. f[1..k] \in V /\ AttachedUpTo(walk, k, f[1..k])
    BY <1>4, <1>6
  <2>2. f[1..(k + 1)] = AttachLagMember(walk, f[1..k], walk.stack[k + 1])
    <3>1. Max(1..(k + 1)) = k + 1 /\ (1..(k + 1)) \ {Max(1..(k + 1))} = 1..(k + 1 - 1)
      BY GreatestOfInterval
    <3>2. 1..(k + 1) \in SUBSET (1..n) /\ 1..(k + 1) # {} /\ k + 1 - 1 = k
      BY <1>4
    <3> QED
      BY <1>3, <3>1, <3>2
  <2> QED
    BY <2>1, <2>2, AttachCases, AttachStep
<1>7. n \in S
  <2> HIDE DEF S
  <2> QED
    BY <1>4, <1>5, <1>6, Induction
<1> QED
  BY <1>1, <1>4, <1>7 DEF n

\* The LAGs and the ports of a walk agree, of whatever interfaces and pairs, unless the
\* walk fails (attachLagMember, GetUplinkTopology).
THEOREM UplinksAgree ==
  ASSUME NEW walk, NoLag \notin Uplinks(walk), walk.failed \subseteq Tolerated,
         Len(walk.stack) \in Nat, DOMAIN walk.stack = 1..Len(walk.stack)
  PROVE  LET ports == GetUplinkTopology(walk).ports
             of(k) == {i \in DOMAIN ports : ports[i].kind = k} IN
         DOMAIN ports = Uplinks(walk) /\ LagsAndMembers(walk, ports, of("lag"), of("physical"))
<1> DEFINE ports == GetUplinkTopology(walk).ports
           s == Stacked(walk)
           n == Len(walk.stack)
           lags == OfKind(walk, "lag")
           physical == OfKind(walk, "physical")
<1>1. ports = [i \in Uplinks(walk) |->
                 [kind |-> walk.kinds[i], status |-> PortStatus(walk, i),
                  lag |-> s.lag[i], members |-> s.members[i]]]
  BY DEF GetUplinkTopology
<1>2. AttachedUpTo(walk, n, s)
  BY StackedInOrder
<1> HIDE DEF ports, s
<1>3. DOMAIN ports = Uplinks(walk)
      /\ \A i \in Uplinks(walk) : /\ ports[i].kind = walk.kinds[i]
                                  /\ ports[i].lag = s.lag[i] /\ ports[i].members = s.members[i]
  BY <1>1
<1>4. {i \in DOMAIN ports : ports[i].kind = "lag"} = lags
      /\ {i \in DOMAIN ports : ports[i].kind = "physical"} = physical
  BY <1>3 DEF OfKind
<1>5. \A a, b : Named(walk, n, a, b) <=>
        \E i \in DOMAIN walk.stack : {walk.stack[i][1], walk.stack[i][2]} = {a, b}
  BY DEF Named
<1>6. lags \subseteq Uplinks(walk) /\ physical \subseteq Uplinks(walk)
  BY Kinds
<1>7. ASSUME NEW p \in physical
      PROVE  /\ ports[p].members = {}
             /\ ports[p].lag # NoLag => ports[p].lag \in lags /\ p \in ports[ports[p].lag].members
  <2>1. /\ s.members[p] = {}
        /\ s.lag[p] # NoLag => s.lag[p] \in lags /\ p \in s.members[s.lag[p]]
    BY <1>2 DEF AttachedUpTo
  <2> HIDE DEF lags, physical
  <2> QED
    BY <1>3, <1>6, <2>1
<1>8. ASSUME NEW l \in lags
      PROVE  /\ ports[l].lag = NoLag
             /\ ports[l].members = {p \in physical : Named(walk, n, l, p)}
             /\ \A p \in ports[l].members : ports[p].lag # l => Named(walk, n, p, ports[p].lag)
  <2>1. /\ s.lag[l] = NoLag
        /\ \A p : p \in s.members[l] <=> p \in physical /\ Named(walk, n, l, p)
        /\ \A p \in s.members[l] : s.lag[p] # NoLag
    BY <1>2 DEF AttachedUpTo
  <2>2. \A p \in physical : s.lag[p] # NoLag => Named(walk, n, p, s.lag[p])
    BY <1>2 DEF AttachedUpTo
  <2> HIDE DEF lags, physical, n
  <2>3. ports[l].lag = s.lag[l] /\ ports[l].members = s.members[l]
    BY <1>3, <1>6
  <2>4. \A p \in physical : ports[p].lag = s.lag[p]
    BY <1>3, <1>6
  <2>5. s.members[l] = {p \in physical : Named(walk, n, l, p)}
    BY <2>1
  <2> QED
    BY <2>1, <2>2, <2>3, <2>4, <2>5
<1> HIDE DEF lags, physical, n
<1> DEFINE pairs == {q \in lags \X physical :
                       \E i \in DOMAIN walk.stack : {walk.stack[i][1], walk.stack[i][2]} = {q[1], q[2]}}
<1>9. \A l \in lags, p \in physical : <<l, p>> \in pairs <=> Named(walk, n, l, p)
  BY <1>5
<1>10. \A l \in lags : {p \in physical : Named(walk, n, l, p)} = {p \in physical : <<l, p>> \in pairs}
  <2> HIDE DEF pairs
  <2> QED
    BY <1>9
<1>11. LagsAndMembers(walk, ports, lags, physical)
  <2>1. \A l \in lags : /\ ports[l].lag = NoLag
                        /\ ports[l].members = {p \in physical : <<l, p>> \in pairs}
    <3> HIDE DEF pairs
    <3> QED
      BY <1>8, <1>10
  <2>2. ASSUME NEW l \in lags, NEW p \in ports[l].members, ports[p].lag # l
        PROVE  \E k \in DOMAIN walk.stack : {walk.stack[k][1], walk.stack[k][2]} = {p, ports[p].lag}
    BY <1>5, <1>8, <2>2
  <2> QED
    BY <1>7, <2>1, <2>2, Zenon DEF LagsAndMembers
<1> QED
  BY <1>3, <1>4, <1>11 DEF ports

-----------------------------------------------------------------------------
(***************************************************************************)
(* Ethernet ports.  The walks of an ONU alone and those of its PON take the *)
(* same rows for it, and finish them alike.                                *)
(***************************************************************************)
\* What the three walks of a PON may deliver.
AreColumns(columns) ==
  /\ DOMAIN columns = Columns
  /\ \A c \in Columns :
       /\ columns[c] = [rows |-> columns[c].rows, failed |-> columns[c].failed]
       /\ columns[c].failed \in BOOLEAN
       /\ DOMAIN columns[c].rows \subseteq Seq(Int)

\* The indexes below ONU 1, and those of its ports.
BelowOne(columns) == {n \in Names(columns) : Suffix(n, <<1>>) # <<>>}
PortRows(columns) == {n \in Names(columns) : Len(n) = 2 /\ n[1] = 1 /\ n[2] >= 1}

\* A row below the ONU whose index is not that of a port.
Malformed(columns) == BelowOne(columns) # PortRows(columns)

LEMMA SuffixOfOne ==
  ASSUME NEW n \in Seq(Int)
  PROVE  /\ (Len(Suffix(n, <<1>>)) = 1 /\ Suffix(n, <<1>>)[1] >= 1) <=> (Len(n) = 2 /\ n[1] = 1 /\ n[2] >= 1)
         /\ Len(n) = 2 /\ n[1] = 1 => Suffix(n, <<1>>) # <<>> /\ Suffix(n, <<1>>)[1] = n[2]
         /\ n[1] # 1 => Suffix(n, <<1>>) = <<>>
<1> DEFINE root == <<1>>
           head == SubSeq(n, 1, 1)
           rest == SubSeq(n, 2, Len(n))
           suffix == Suffix(n, root)
<1>1. Len(root) = 1 /\ root[1] = 1 /\ root \in Seq(Int)
  OBVIOUS
<1>2. suffix = IF Len(n) > 1 /\ head = root THEN rest ELSE <<>>
  BY <1>1 DEF Suffix
<1>3. Len(n) > 1 => head \in Seq(Int) /\ Len(head) = 1 /\ head[1] = n[1]
  OBVIOUS
<1>4. Len(n) > 1 => rest \in Seq(Int) /\ Len(rest) = Len(n) - 1
  OBVIOUS
<1>5. Len(n) > 1 => rest[1] = n[2]
  OBVIOUS
<1> HIDE DEF head, rest, root, suffix
<1>6. Len(n) > 1 => (head = root <=> n[1] = 1)
  BY <1>1, <1>3
<1>7. Len(<<>>) = 0
  OBVIOUS
<1>8. Len(n) > 1 /\ n[1] = 1 => suffix # <<>> /\ suffix[1] = n[2] /\ Len(suffix) = Len(n) - 1
  BY <1>2, <1>4, <1>5, <1>6, <1>7
<1>9. ~(Len(n) > 1 /\ n[1] = 1) => Len(suffix) = 0
  BY <1>2, <1>6, <1>7
<1>10. Len(n) \in Nat
  OBVIOUS
<1>11. (Len(suffix) = 1 /\ suffix[1] >= 1) <=> (Len(n) = 2 /\ n[1] = 1 /\ n[2] >= 1)
  <2>1. CASE Len(n) > 1 /\ n[1] = 1
    <3> DEFINE a == Len(suffix)
               b == Len(n)
    <3>1. suffix[1] = n[2] /\ a = b - 1 /\ b \in Nat
      BY <1>8, <1>10, <2>1, Zenon
    <3> HIDE DEF a, b
    <3>2. a = 1 <=> b = 2
      BY <3>1
    <3>3. suffix[1] = n[2] /\ (Len(suffix) = 1 <=> Len(n) = 2)
      BY <3>1, <3>2 DEF a, b
    <3> QED
      BY <2>1, <3>3, Zenon
  <2>2. CASE ~(Len(n) > 1 /\ n[1] = 1)
    <3>1. Len(suffix) # 1 /\ ~(Len(n) = 2 /\ n[1] = 1)
      BY <1>9, <1>10, <2>2
    <3> QED
      BY <3>1, Zenon
  <2> QED
    BY <2>1, <2>2
<1>12. n[1] # 1 => suffix = <<>>
  BY <1>2, <1>6
<1> QED
  BY <1>8, <1>11, <1>12 DEF suffix, root

LEMMA Finished ==
  ASSUME NEW raws, NEW f \in BOOLEAN
  PROVE  /\ FinishEthernet(raws, f) = [status |-> FinishEthernet(raws, f).status,
                                       ports |-> FinishEthernet(raws, f).ports]
         /\ FinishEthernet(raws, f).ports = FinishEthernet(raws, FALSE).ports
         /\ FinishEthernet(raws, f).status # FinishEthernet(raws, FALSE).status =>
              /\ f
              /\ FinishEthernet(raws, f).status = "partial" /\ FinishEthernet(raws, FALSE).status = "ok"
<1> DEFINE ports == [p \in DOMAIN raws |-> DecodePort(raws[p])]
           gap == \E p \in DOMAIN ports : Incomplete(ports[p])
           none == EmptyEthernet("Online")
<1>1. \A g \in BOOLEAN : FinishEthernet(raws, g) =
        IF ports = NoPorts THEN none
        ELSE [status |-> IF g \/ gap THEN "partial" ELSE "ok", ports |-> ports]
  BY DEF FinishEthernet
<1>2. none = [status |-> none.status, ports |-> none.ports]
  BY DEF EmptyEthernet
<1> HIDE DEF ports, gap, none
<1>3. CASE ports = NoPorts
  BY <1>1, <1>2, <1>3
<1>4. CASE ports # NoPorts
  <2>1. \A g \in BOOLEAN : FinishEthernet(raws, g) =
          [status |-> IF g \/ gap THEN "partial" ELSE "ok", ports |-> ports]
    BY <1>1, <1>4
  <2>2. \A g \in BOOLEAN : /\ FinishEthernet(raws, g).status = IF g \/ gap THEN "partial" ELSE "ok"
                           /\ FinishEthernet(raws, g).ports = ports
                           /\ FinishEthernet(raws, g) = [status |-> FinishEthernet(raws, g).status,
                                                         ports |-> FinishEthernet(raws, g).ports]
    BY <2>1
  <2>3. CASE f = TRUE
    BY <2>2, <2>3
  <2>4. CASE f = FALSE
    BY <2>2, <2>4
  <2> QED
    BY <2>3, <2>4
<1> QED
  BY <1>3, <1>4

LEMMA Padded ==
  ASSUME NEW expected, NEW eth, eth = [status |-> eth.status, ports |-> eth.ports]
  PROVE  PadEthernetPorts(expected, eth) =
           [status |-> eth.status,
            ports |-> [i \in (1..expected) \cup DOMAIN eth.ports |->
                         IF i \in DOMAIN eth.ports THEN eth.ports[i] ELSE UnknownPort]]
<1> DEFINE padded == [i \in (1..expected) \cup DOMAIN eth.ports |->
                        IF i \in DOMAIN eth.ports THEN eth.ports[i] ELSE UnknownPort]
<1>1. PadEthernetPorts(expected, eth) = [eth EXCEPT !.ports = padded]
  BY DEF PadEthernetPorts
<1> HIDE DEF padded
<1>2. PadEthernetPorts(expected, eth) = [status |-> eth.status, ports |-> padded]
  BY <1>1
<1> QED
  BY <1>2 DEF padded

\* Both walks take the same rows for those of the ports, and have the same values of them.
LEMMA SameRows ==
  ASSUME NEW columns, AreColumns(columns), NEW state, NEW expected
  PROVE  \E raws : \E f, g \in BOOLEAN :
           /\ EthernetFromPONWalk(columns, 1) = FinishEthernet(raws, g)
           /\ GetEthernetPorts(columns, 1, state, expected) =
                IF state # "Online" THEN EmptyEthernet(state)
                ELSE PadEthernetPorts(expected, FinishEthernet(raws, f))
           /\ f <=> g \/ Malformed(columns)
<1> DEFINE N == Names(columns)
           valid == {n \in N : Len(n) = 2 /\ n[1] >= 1 /\ n[2] >= 1}
           own == {n \in valid : n[1] = 1}
           below == {n \in N : Suffix(n, <<1>>) # <<>>}
           valid1 == {n \in below : Len(Suffix(n, <<1>>)) = 1 /\ Suffix(n, <<1>>)[1] >= 1}
           port == [n \in own |-> n[2]]
           port1 == [n \in valid1 |-> Suffix(n, <<1>>)[1]]
           g == WalkFailed(columns) \/ HasOther(columns, own)
           f == WalkFailed(columns) \/ below # valid1 \/ HasOther(columns, valid1)
           raws == RawPorts(columns, own, port)
<1>1. \A n \in N : n \in Seq(Int)
  BY DEF Names, AreColumns
<1>2. own = PortRows(columns)
  BY <1>1 DEF PortRows
<1>3. valid1 = PortRows(columns)
  BY <1>1, SuffixOfOne DEF PortRows
<1>4. port1 = port
  <2>1. \A n \in PortRows(columns) : Suffix(n, <<1>>)[1] = n[2]
    BY <1>1, SuffixOfOne DEF PortRows
  <2> HIDE DEF own, valid1
  <2> QED
    BY <1>2, <1>3, <2>1
<1>5. EthernetFromPONWalk(columns, 1) = FinishEthernet(raws, g)
  BY DEF EthernetFromPONWalk
<1>6. GetEthernetPorts(columns, 1, state, expected) =
        IF state # "Online" THEN EmptyEthernet(state)
        ELSE PadEthernetPorts(expected, FinishEthernet(RawPorts(columns, valid1, port1), f))
  BY DEF GetEthernetPorts
<1>7. RawPorts(columns, valid1, port1) = raws
  <2> HIDE DEF own, valid1, port, port1
  <2> QED
    BY <1>2, <1>3, <1>4
<1>8. f <=> g \/ Malformed(columns)
  <2>1. below = BelowOne(columns)
    BY DEF BelowOne
  <2> HIDE DEF own, valid1, below
  <2> QED
    BY <1>2, <1>3, <2>1 DEF Malformed
<1>9. f \in BOOLEAN /\ g \in BOOLEAN
  OBVIOUS
<1> HIDE DEF f, g, raws
<1> QED
  BY <1>5, <1>6, <1>7, <1>8, <1>9

\* Restricted to the rows of the ONU, the columns have the same ports to read.
LEMMA SameWithoutNeighbours ==
  ASSUME NEW columns, AreColumns(columns)
  PROVE  EthernetFromPONWalk(OwnRows(columns), 1) = EthernetFromPONWalk(columns, 1)
<1> DEFINE bare == OwnRows(columns)
           rows(c) == columns[c].rows
           N == Names(columns)
           M == Names(bare)
           own == {n \in {m \in N : Len(m) = 2 /\ m[1] >= 1 /\ m[2] >= 1} : n[1] = 1}
           own1 == {n \in {m \in M : Len(m) = 2 /\ m[1] >= 1 /\ m[2] >= 1} : n[1] = 1}
           port == [n \in own |-> n[2]]
           port1 == [n \in own1 |-> n[2]]
<1>1. /\ DOMAIN bare = Columns
      /\ \A c \in Columns :
           /\ bare[c].failed = columns[c].failed
           /\ DOMAIN bare[c].rows = {n \in DOMAIN rows(c) : n[1] = 1}
           /\ \A n \in DOMAIN bare[c].rows : bare[c].rows[n] = rows(c)[n]
  <2>1. DOMAIN bare = Columns /\ \A c \in Columns :
          bare[c] = [columns[c] EXCEPT !.rows = Restrict(rows(c), {n \in DOMAIN rows(c) : n[1] = 1})]
    BY DEF OwnRows
  <2>2. ASSUME NEW c \in Columns
        PROVE  /\ bare[c].failed = columns[c].failed
               /\ DOMAIN bare[c].rows = {n \in DOMAIN rows(c) : n[1] = 1}
               /\ \A n \in DOMAIN bare[c].rows : bare[c].rows[n] = rows(c)[n]
    <3> DEFINE r == Restrict(rows(c), {n \in DOMAIN rows(c) : n[1] = 1})
    <3>1. DOMAIN r = {n \in DOMAIN rows(c) : n[1] = 1} /\ \A n \in DOMAIN r : r[n] = rows(c)[n]
      BY DEF Restrict
    <3>2. bare[c] = [columns[c] EXCEPT !.rows = r]
      BY <2>1
    <3>3. columns[c] = [rows |-> columns[c].rows, failed |-> columns[c].failed]
      BY DEF AreColumns
    <3> HIDE DEF r, bare
    <3>4. bare[c].rows = r /\ bare[c].failed = columns[c].failed
      BY <3>2, <3>3
    <3> QED
      BY <3>1, <3>4
  <2> QED
    BY <2>1, <2>2
<1> HIDE DEF bare
<1>2. own1 = own
  BY <1>1 DEF Names
<1>3. \A n \in own, c \in Columns : /\ n \in DOMAIN bare[c].rows <=> n \in DOMAIN rows(c)
                                    /\ n \in DOMAIN rows(c) => bare[c].rows[n] = rows(c)[n]
  BY <1>1
<1>4. WalkFailed(bare) = WalkFailed(columns)
  BY <1>1 DEF WalkFailed
<1>5. HasOther(bare, own) = HasOther(columns, own)
  <2> HIDE DEF own
  <2> QED
    BY <1>3 DEF HasOther
<1>6. RawPorts(bare, own, port) = RawPorts(columns, own, port)
  <2> DEFINE valued == {n \in own : \E c \in Columns : n \in DOMAIN rows(c) /\ Integral(rows(c)[n])}
             valued1 == {n \in own : \E c \in Columns : n \in DOMAIN bare[c].rows /\ Integral(bare[c].rows[n])}
             got(n, c) == IF n \in DOMAIN rows(c) /\ Integral(rows(c)[n]) THEN rows(c)[n] ELSE NoValue
             got1(n, c) == IF n \in DOMAIN bare[c].rows /\ Integral(bare[c].rows[n])
                             THEN bare[c].rows[n] ELSE NoValue
             raw(n) == [c \in Columns |-> got(n, c)]
             raw1(n) == [c \in Columns |-> got1(n, c)]
  <2> HIDE DEF own
  <2>1. valued1 = valued
    BY <1>3
  <2>2. \A n \in own, c \in Columns : got1(n, c) = got(n, c)
    BY <1>3
  <2>3. \A n \in own : raw1(n) = raw(n)
    <3> HIDE DEF got, got1
    <3> QED
      BY <2>2
  <2>4. RawPorts(columns, own, port)
          = [p \in {port[n] : n \in valued} |-> raw(CHOOSE m \in valued : port[m] = p)]
    BY DEF RawPorts
  <2>5. RawPorts(bare, own, port)
          = [p \in {port[n] : n \in valued1} |-> raw1(CHOOSE m \in valued1 : port[m] = p)]
    BY DEF RawPorts
  <2>6. valued \subseteq own
    OBVIOUS
  <2> HIDE DEF valued, valued1, raw, raw1, port
  <2>7. \A p \in {port[n] : n \in valued} : (CHOOSE m \in valued : port[m] = p) \in own
    BY <2>6
  <2> QED
    BY <2>1, <2>3, <2>4, <2>5, <2>7
<1>7. EthernetFromPONWalk(columns, 1)
        = FinishEthernet(RawPorts(columns, own, port), WalkFailed(columns) \/ HasOther(columns, own))
  BY DEF EthernetFromPONWalk
<1>8. EthernetFromPONWalk(bare, 1)
        = FinishEthernet(RawPorts(bare, own1, port1), WalkFailed(bare) \/ HasOther(bare, own1))
  BY DEF EthernetFromPONWalk
<1>9. port1 = port
  BY <1>2
<1>10. EthernetFromPONWalk(bare, 1) = EthernetFromPONWalk(columns, 1)
  <2> HIDE DEF own, own1, port, port1
  <2>1. RawPorts(bare, own1, port1) = RawPorts(columns, own, port)
    BY <1>2, <1>6, <1>9
  <2>2. (WalkFailed(bare) \/ HasOther(bare, own1)) = (WalkFailed(columns) \/ HasOther(columns, own))
    BY <1>2, <1>4, <1>5
  <2> QED
    BY <1>7, <1>8, <2>1, <2>2
<1> QED
  BY <1>10 DEF bare

\* On a PON with somebody online the reading of ONU 1 is padded to the ports of its model.
LEMMA OfPONIs ==
  ASSUME NEW columns, NEW state, NEW expected
  PROVE  OfPON(columns, state, expected)
           = PadEthernetPorts(expected, IF state = "Online" THEN EthernetFromPONWalk(columns, 1)
                                        ELSE EmptyEthernet(state))
<1> DEFINE onus == [i \in 1..2 |-> [state |-> IF i = 1 THEN state ELSE "Online",
                                    expected |-> IF i = 1 THEN expected ELSE 0]]
<1>1. 1 \in DOMAIN onus /\ 2 \in DOMAIN onus /\ onus[1].state = state /\ onus[1].expected = expected
      /\ onus[2].state = "Online"
  OBVIOUS
<1>2. OfPON(columns, state, expected) = AttachPONEthernet(columns, onus)[1]
  BY DEF OfPON
<1> HIDE DEF onus
<1>3. ~(\A j \in DOMAIN onus : onus[j].state # "Online")
  BY <1>1
<1>4. AttachPONEthernet(columns, onus)[1]
        = IF \A j \in DOMAIN onus : onus[j].state # "Online" THEN EmptyEthernet(onus[1].state)
          ELSE PadEthernetPorts(onus[1].expected,
                 IF onus[1].state = "Online" THEN EthernetFromPONWalk(columns, 1)
                 ELSE EmptyEthernet(onus[1].state))
  BY <1>1 DEF AttachPONEthernet
<1> QED
  BY <1>1, <1>2, <1>3, <1>4

\* Walked alone or with its PON, an ONU has the same ports, for any rows and neighbours;
\* the answers differ only when a row below the ONU has no index of a port, and then in
\* "partial" (getEthernetPorts, attachPONEthernet).
THEOREM EthernetReads ==
  ASSUME NEW columns, AreColumns(columns), NEW state, NEW expected \in Nat
  PROVE  ReadsAgree(columns, Malformed(columns), state, expected)
<1> DEFINE alone == GetEthernetPorts(columns, 1, state, expected)
           shared == OfPON(columns, state, expected)
           bare == AttachPONEthernet(OwnRows(columns), [i \in {1} |-> [state |-> state, expected |-> expected]])[1]
           e == EthernetFromPONWalk(columns, 1)
           none == EmptyEthernet(state)
<1>1. PICK raws : \E f, g \in BOOLEAN :
        /\ e = FinishEthernet(raws, g)
        /\ alone = IF state # "Online" THEN none ELSE PadEthernetPorts(expected, FinishEthernet(raws, f))
        /\ f <=> g \/ Malformed(columns)
  BY SameRows
<1>2. PICK f \in BOOLEAN, g \in BOOLEAN :
        /\ e = FinishEthernet(raws, g)
        /\ alone = IF state # "Online" THEN none ELSE PadEthernetPorts(expected, FinishEthernet(raws, f))
        /\ f <=> g \/ Malformed(columns)
  BY <1>1
<1>3. shared = PadEthernetPorts(expected, IF state = "Online" THEN e ELSE none)
  BY OfPONIs
<1>4. state = "Online" => bare = PadEthernetPorts(expected, e)
  <2> DEFINE onus == [i \in {1} |-> [state |-> state, expected |-> expected]]
  <2>1. 1 \in DOMAIN onus /\ onus[1].state = state /\ onus[1].expected = expected
    OBVIOUS
  <2>2. bare = AttachPONEthernet(OwnRows(columns), onus)[1]
    OBVIOUS
  <2> HIDE DEF onus, bare
  <2>3. state = "Online" => ~(\A j \in DOMAIN onus : onus[j].state # "Online")
    BY <2>1
  <2>4. AttachPONEthernet(OwnRows(columns), onus)[1]
          = IF \A j \in DOMAIN onus : onus[j].state # "Online" THEN EmptyEthernet(onus[1].state)
            ELSE PadEthernetPorts(onus[1].expected,
                   IF onus[1].state = "Online" THEN EthernetFromPONWalk(OwnRows(columns), 1)
                   ELSE EmptyEthernet(onus[1].state))
    BY <2>1 DEF AttachPONEthernet
  <2> QED
    BY <2>1, <2>2, <2>3, <2>4, SameWithoutNeighbours
<1>5. none = [status |-> none.status, ports |-> none.ports] /\ none.ports = NoPorts
  BY DEF EmptyEthernet
<1>6. \A h \in BOOLEAN : LET a == FinishEthernet(raws, h) IN
        PadEthernetPorts(expected, a) =
          [status |-> a.status,
           ports |-> [i \in (1..expected) \cup DOMAIN a.ports |->
                        IF i \in DOMAIN a.ports THEN a.ports[i] ELSE UnknownPort]]
  BY Finished, Padded
<1>7. PadEthernetPorts(expected, none) =
        [status |-> none.status,
         ports |-> [i \in (1..expected) \cup DOMAIN none.ports |->
                      IF i \in DOMAIN none.ports THEN none.ports[i] ELSE UnknownPort]]
  BY <1>5, Padded
<1>8. DOMAIN NoPorts = {}
  BY DEF NoPorts
<1> HIDE DEF alone, shared, bare, e, none
<1>9. CASE state = "Online"
  <2> DEFINE a == FinishEthernet(raws, f)
             b == FinishEthernet(raws, g)
             padded(p) == [i \in (1..expected) \cup DOMAIN p |-> IF i \in DOMAIN p THEN p[i] ELSE UnknownPort]
  <2>1. a.ports = b.ports /\ (a.status # b.status =>
           f /\ ~g /\ a.status = "partial" /\ b.status = "ok")
    <3>1. g => f
      BY <1>2
    <3>2. CASE g
      <4>1. f = g
        BY <3>1, <3>2
      <4> QED
        BY <4>1
    <3>3. CASE ~g
      <4>1. g = FALSE
        BY <3>3
      <4> QED
        BY <4>1, Finished
    <3> QED
      BY <3>2, <3>3
  <2>2. alone = [status |-> a.status, ports |-> padded(a.ports)]
        /\ shared = [status |-> b.status, ports |-> padded(b.ports)]
    BY <1>2, <1>3, <1>6, <1>9
  <2>3. shared = bare
    BY <1>3, <1>4, <1>9
  <2> HIDE DEF a, b, padded
  <2>4. alone.status = a.status /\ shared.status = b.status /\ alone.ports = shared.ports
    BY <2>1, <2>2
  <2>5. a.status # b.status => Malformed(columns)
    BY <1>2, <2>1
  <2> QED
    BY <1>9, <2>1, <2>3, <2>4, <2>5 DEF ReadsAgree, alone, shared, bare
<1>10. CASE state # "Online"
  <2> DEFINE unknown == [i \in (1..expected) \cup DOMAIN none.ports |->
                           IF i \in DOMAIN none.ports THEN none.ports[i] ELSE UnknownPort]
  <2>1. unknown = [p \in 1..expected |-> UnknownPort]
    BY <1>5, <1>8
  <2>2. alone = none /\ shared = [status |-> none.status, ports |-> unknown]
    BY <1>2, <1>3, <1>7, <1>10
  <2> HIDE DEF unknown
  <2>3. shared.status = none.status /\ shared.ports = unknown
    BY <2>2
  <2> QED
    BY <1>5, <1>10, <2>1, <2>2, <2>3 DEF ReadsAgree, alone, shared, bare
<1> QED
  BY <1>9, <1>10

-----------------------------------------------------------------------------
(***************************************************************************)
(* From the rows of the walk of a PON to the ports of the stored sample.   *)
(***************************************************************************)
\* What was read in a column of a port of ONU 1.
Cell(columns, c, p) ==
  IF <<1, p>> \in DOMAIN columns[c].rows THEN columns[c].rows[<<1, p>>] ELSE NoInstance

\* What DecodePort makes of the values of a port.
LEMMA DecodedPort ==
  ASSUME NEW raw
  PROVE  LET port == DecodePort(raw) IN
         /\ port.admin = IF raw[1] = 1 THEN "enabled" ELSE IF raw[1] = 2 THEN "disabled" ELSE "unknown"
         /\ port.link = IF raw[2] = 1 THEN "up" ELSE IF raw[2] = 2 THEN "down" ELSE "unknown"
         /\ port.speed # 0 => raw[3] \in 2..7
<1> DEFINE admin == CASE raw[1] = 1 -> "enabled" [] raw[1] = 2 -> "disabled" [] OTHER -> "unknown"
           link == CASE raw[2] = 1 -> "up" [] raw[2] = 2 -> "down" [] OTHER -> "unknown"
           rate == EthernetSpeed(raw[3])
           speed == IF link = "up" /\ raw[3] # NoValue THEN rate ELSE 0
           duplex == IF speed > 0 THEN Duplex(raw[3]) ELSE "unknown"
<1>1. DecodePort(raw) = [admin |-> admin, link |-> link, speed |-> speed, duplex |-> duplex]
  BY DEF DecodePort
<1>2. admin = IF raw[1] = 1 THEN "enabled" ELSE IF raw[1] = 2 THEN "disabled" ELSE "unknown"
  OBVIOUS
<1>3. link = IF raw[2] = 1 THEN "up" ELSE IF raw[2] = 2 THEN "down" ELSE "unknown"
  OBVIOUS
<1>4. rate # 0 => raw[3] \in 2..7
  BY DEF EthernetSpeed
<1>5. speed # 0 => rate # 0
  <2> HIDE DEF rate, link
  <2> QED
    OBVIOUS
<1> HIDE DEF admin, link, rate, speed, duplex
<1> QED
  BY <1>1, <1>2, <1>3, <1>4, <1>5

\* The two walks of a port that are not of its speed read everything that can be read.
LEMMA CompletePort ==
  ASSUME NEW raw, ~Incomplete(DecodePort(raw))
  PROVE  raw[1] \in 1..2 /\ raw[2] \in 1..2 /\ (raw[2] = 1 => raw[3] \in 2..7)
<1> DEFINE port == DecodePort(raw)
<1>1. port.admin # "unknown" /\ port.link # "unknown" /\ ~(port.link = "up" /\ port.speed = 0)
  BY DEF Incomplete
<1>2. /\ port.admin = IF raw[1] = 1 THEN "enabled" ELSE IF raw[1] = 2 THEN "disabled" ELSE "unknown"
      /\ port.link = IF raw[2] = 1 THEN "up" ELSE IF raw[2] = 2 THEN "down" ELSE "unknown"
      /\ port.speed # 0 => raw[3] \in 2..7
  BY DecodedPort
<1> HIDE DEF port
<1>3. raw[1] = 1 \/ raw[1] = 2
  BY <1>1, <1>2
<1>4. raw[2] = 1 \/ raw[2] = 2
  BY <1>1, <1>2
<1>5. raw[2] = 1 => raw[3] \in 2..7
  BY <1>1, <1>2
<1> QED
  BY <1>3, <1>4, <1>5

\* The values that the walk of a PON takes for each port of ONU 1.
LEMMA WalkReads ==
  ASSUME NEW columns, AreColumns(columns), NEW numbers \in SUBSET (Nat \ {0}),
         \A n \in PortRows(columns) : n[2] \in numbers
  PROVE  LET read == {p \in numbers : \E c \in Columns : Integral(Cell(columns, c, p))}
             raw(p) == [c \in Columns |-> IF Integral(Cell(columns, c, p)) THEN Cell(columns, c, p)
                                          ELSE NoValue] IN
         \E f \in BOOLEAN : /\ WalkFailed(columns) => f
                            /\ EthernetFromPONWalk(columns, 1) = FinishEthernet([p \in read |-> raw(p)], f)
<1> DEFINE N == Names(columns)
           own == {n \in {m \in N : Len(m) = 2 /\ m[1] >= 1 /\ m[2] >= 1} : n[1] = 1}
           port == [n \in own |-> n[2]]
           rows(c) == columns[c].rows
           valued == {n \in own : \E c \in Columns : n \in DOMAIN rows(c) /\ Integral(rows(c)[n])}
           got(n, c) == IF n \in DOMAIN rows(c) /\ Integral(rows(c)[n]) THEN rows(c)[n] ELSE NoValue
           values(n) == [c \in Columns |-> got(n, c)]
           cell(c, p) == Cell(columns, c, p)
           read == {p \in numbers : \E c \in Columns : Integral(cell(c, p))}
           raw(p) == [c \in Columns |-> IF Integral(cell(c, p)) THEN cell(c, p) ELSE NoValue]
           f == WalkFailed(columns) \/ HasOther(columns, own)
<1>1. \A n \in N : n \in Seq(Int)
  BY DEF Names, AreColumns
<1>2. own = PortRows(columns)
  BY <1>1 DEF PortRows
<1>3. \A n \in own : n = <<1, n[2]>> /\ n[2] \in numbers
  <2> SUFFICES ASSUME NEW n \in own PROVE n = <<1, n[2]>> /\ n[2] \in numbers
    OBVIOUS
  <2>1. n \in Seq(Int) /\ Len(n) = 2 /\ n[1] = 1
    BY <1>1
  <2>2. n[2] \in numbers
    BY <1>2
  <2> HIDE DEF own
  <2>3. n = <<1, n[2]>>
    BY <2>1
  <2> QED
    BY <2>2, <2>3
<1>4. \A p \in numbers, c \in Columns : <<1, p>> \in DOMAIN rows(c) => <<1, p>> \in own
  BY DEF Names
<1>5. ~Integral(NoInstance)
  BY DEF Integral
<1>6. EthernetFromPONWalk(columns, 1) = FinishEthernet(RawPorts(columns, own, port), f)
  BY DEF EthernetFromPONWalk
<1>7. RawPorts(columns, own, port)
        = [p \in {port[n] : n \in valued} |-> values(CHOOSE m \in valued : port[m] = p)]
  BY DEF RawPorts
<1>8. \A n \in own : port[n] = n[2]
  OBVIOUS
<1>9. valued \subseteq own
  OBVIOUS
<1> HIDE DEF own, port
<1>10. \A p \in numbers : p \in read <=> <<1, p>> \in valued
  BY <1>4, <1>5 DEF Cell
<1>11. \A p \in numbers : <<1, p>>[2] = p
  OBVIOUS
<1>12. \A p \in numbers : <<1, p>> \in own => raw(p) = values(<<1, p>>)
  BY <1>5 DEF Cell
<1> HIDE DEF valued, values, raw
<1>13. {port[n] : n \in valued} = read
  <2>1. \A n \in valued : port[n] \in read
    BY <1>3, <1>8, <1>9, <1>10
  <2>2. \A p \in read : <<1, p>> \in valued /\ port[<<1, p>>] = p
    BY <1>8, <1>9, <1>10, <1>11
  <2> QED
    BY <2>1, <2>2
<1>14. \A p \in read : (CHOOSE m \in valued : port[m] = p) = <<1, p>>
  <2> SUFFICES ASSUME NEW p \in read PROVE (CHOOSE m \in valued : port[m] = p) = <<1, p>>
    OBVIOUS
  <2>1. <<1, p>> \in valued /\ port[<<1, p>>] = p
    BY <1>8, <1>9, <1>10, <1>11
  <2>2. \A m \in valued : port[m] = p => m = <<1, p>>
    BY <1>3, <1>8, <1>9
  <2> QED
    BY <2>1, <2>2
<1>15. \A p \in read : raw(p) = values(<<1, p>>)
  BY <1>9, <1>10, <1>12
<1>16. RawPorts(columns, own, port) = [p \in read |-> raw(p)]
  <2> DEFINE row(p) == CHOOSE m \in valued : port[m] = p
             named == {port[n] : n \in valued}
  <2>1. RawPorts(columns, own, port) = [p \in named |-> values(row(p))]
    BY <1>7
  <2>2. \A p \in read : values(row(p)) = raw(p)
    BY <1>14, <1>15
  <2> HIDE DEF read, row, named
  <2>3. named = read
    BY <1>13 DEF named
  <2> QED
    BY <2>1, <2>2, <2>3
<1>17. f \in BOOLEAN /\ (WalkFailed(columns) => f)
  OBVIOUS
<1> HIDE DEF f
<1>18. \E g \in BOOLEAN : (WalkFailed(columns) => g)
         /\ EthernetFromPONWalk(columns, 1) = FinishEthernet([p \in read |-> raw(p)], g)
  BY <1>6, <1>16, <1>17
<1> QED
  BY <1>18 DEF raw

\* An answer that is not of the walk says nothing of a port.
LEMMA EmptyIs ==
  ASSUME NEW state
  PROVE  /\ EmptyEthernet(state) = [status |-> EmptyEthernet(state).status, ports |-> NoPorts]
         /\ EmptyEthernet(state).ports = NoPorts
         /\ EmptyEthernet(state).status \notin {"ok", "partial"}
<1> DEFINE status == CASE state = "Online" -> "unavailable" [] state = "Unknown" -> "onu_state_unknown"
                       [] OTHER -> "onu_not_online"
<1>1. status = "unavailable" \/ status = "onu_state_unknown" \/ status = "onu_not_online"
  OBVIOUS
<1>2. EmptyEthernet(state) = [status |-> status, ports |-> NoPorts]
  BY DEF EmptyEthernet
<1> HIDE DEF status
<1>3. EmptyEthernet(state).status = status /\ EmptyEthernet(state).ports = NoPorts
  BY <1>2
<1> QED
  BY <1>1, <1>2, <1>3

\* The store pads what is already padded to the ports of the model no further, and
\* nothing that was read to unknown ports.
LEMMA StoredOf ==
  ASSUME NEW status, NEW ports, IsFiniteSet(DOMAIN ports), NEW expected \in Nat, 1..expected \subseteq DOMAIN ports
  PROVE  LET stored == StoredPorts([status |-> status, ports |-> ports], expected) IN
         IF status \in {"ok", "partial"}
         THEN /\ DOMAIN stored = DOMAIN ports
              /\ \A p \in DOMAIN ports : stored[p] = [admin |-> ports[p].admin, link |-> ports[p].link]
         ELSE /\ DOMAIN stored = 1..expected
              /\ \A p \in 1..expected : stored[p] = [admin |-> "unknown", link |-> "unknown"]
<1> DEFINE eth == [status |-> status, ports |-> ports]
           read == ApplyEthernet(eth)
           x == [ports |-> read, expected |-> expected]
           unknown == [admin |-> "unknown", link |-> "unknown"]
           filled == [i \in 1..expected |-> IF i \in DOMAIN read THEN read[i] ELSE "unknown"]
           padded == ApplyExpectedPorts(x).ports
           stored == StoredPorts(eth, expected)
<1>1. eth.status = status /\ eth.ports = ports
  OBVIOUS
<1>2. stored = [p \in DOMAIN padded |-> IF p \in DOMAIN read THEN read[p] ELSE unknown]
  BY DEF StoredPorts
<1>3. x.ports = read /\ x.expected = expected /\ x = [ports |-> x.ports, expected |-> x.expected]
  OBVIOUS
<1>4. ApplyExpectedPorts(x) = IF Cardinality(DOMAIN read) >= expected THEN x ELSE [x EXCEPT !.ports = filled]
  BY <1>3 DEF ApplyExpectedPorts
<1> HIDE DEF x, stored, filled
<1>5. padded = IF Cardinality(DOMAIN read) >= expected THEN read ELSE filled
  <2> HIDE DEF read
  <2>1. [x EXCEPT !.ports = filled].ports = filled
    BY <1>3
  <2> QED
    BY <1>3, <1>4, <2>1
<1>6. CASE status \in {"ok", "partial"}
  <2> DEFINE port(p) == [admin |-> ports[p].admin, link |-> ports[p].link]
  <2>1. read = [p \in DOMAIN ports |-> port(p)]
    BY <1>1, <1>6 DEF ApplyEthernet
  <2> HIDE DEF read, padded, eth
  <2>2. DOMAIN read = DOMAIN ports /\ \A p \in DOMAIN ports : read[p] = port(p)
    BY <2>1
  <2>3. Cardinality(DOMAIN ports) >= Cardinality(1..expected)
        /\ Cardinality(DOMAIN ports) \in Nat
    BY FS_Subset, FS_CardinalityType
  <2>4. Cardinality(1..expected) = expected
    BY FS_Interval
  <2>5. padded = read
    BY <1>5, <2>2, <2>3, <2>4
  <2>6. DOMAIN stored = DOMAIN ports /\ \A p \in DOMAIN ports : stored[p] = port(p)
    BY <1>2, <2>2, <2>5
  <2> QED
    BY <1>6, <2>6 DEF stored, eth
<1>7. CASE status \notin {"ok", "partial"}
  <2>1. read = NoPorts
    BY <1>1, <1>7 DEF ApplyEthernet
  <2>2. DOMAIN read = {}
    BY <2>1 DEF NoPorts
  <2>3. Cardinality({}) = 0
    BY FS_EmptySet
  <2> HIDE DEF read, padded, eth
  <2>4. DOMAIN padded = 1..expected
    <3>1. CASE expected = 0
      BY <1>5, <2>2, <2>3, <3>1
    <3>2. CASE expected # 0
      BY <1>5, <2>2, <2>3, <3>2 DEF filled
    <3> QED
      BY <3>1, <3>2
  <2>5. DOMAIN stored = 1..expected /\ \A p \in 1..expected : stored[p] = unknown
    BY <1>2, <2>2, <2>4
  <2> QED
    BY <1>7, <2>5 DEF stored, eth
<1> QED
  BY <1>6, <1>7

\* The answer that a walk of a PON gives for its values of the ports of an ONU.
LEMMA FinishedReads ==
  ASSUME NEW raws, NEW f \in BOOLEAN
  PROVE  LET e == FinishEthernet(raws, f) IN
         /\ e = [status |-> e.status, ports |-> e.ports]
         /\ DOMAIN e.ports = DOMAIN raws
         /\ \A p \in DOMAIN raws : e.ports[p] = DecodePort(raws[p])
         /\ e.status \in {"ok", "partial"} <=> DOMAIN raws # {}
         /\ e.status = "ok" => ~f /\ \A p \in DOMAIN raws : ~Incomplete(DecodePort(raws[p]))
<1> DEFINE ports == [p \in DOMAIN raws |-> DecodePort(raws[p])]
           gap == \E p \in DOMAIN ports : Incomplete(ports[p])
           none == EmptyEthernet("Online")
           e == FinishEthernet(raws, f)
           status == IF f \/ gap THEN "partial" ELSE "ok"
<1>1. e = IF ports = NoPorts THEN none ELSE [status |-> status, ports |-> ports]
  BY DEF FinishEthernet
<1>2. DOMAIN ports = DOMAIN raws /\ \A p \in DOMAIN raws : ports[p] = DecodePort(raws[p])
  OBVIOUS
<1>3. ports = NoPorts <=> DOMAIN raws = {}
  BY DEF NoPorts
<1>4. /\ none = [status |-> none.status, ports |-> NoPorts] /\ none.ports = NoPorts
      /\ none.status \notin {"ok", "partial"}
  BY EmptyIs
<1>5. status \in {"ok", "partial"} /\ (status = "ok" => ~f /\ ~gap)
  OBVIOUS
<1>6. ~gap => \A p \in DOMAIN raws : ~Incomplete(DecodePort(raws[p]))
  BY <1>2
<1> HIDE DEF ports, gap, none, status, e
<1>7. CASE ports = NoPorts
  <2>1. e = none
    BY <1>1, <1>7
  <2> QED
    BY <1>2, <1>3, <1>4, <1>7, <2>1 DEF e
<1>8. CASE ports # NoPorts
  <2>1. e = [status |-> status, ports |-> ports]
    BY <1>1, <1>8
  <2>2. e.status = status /\ e.ports = ports /\ e = [status |-> e.status, ports |-> e.ports]
    BY <2>1
  <2> QED
    BY <1>2, <1>3, <1>5, <1>6, <1>8, <2>2 DEF e
<1> QED
  BY <1>7, <1>8

\* What the sample says of all ports together is of a port that is up.
LEMMA SampledLink ==
  ASSUME NEW eth
  PROVE  /\ SampleLink(eth) = "up" => \E p \in DOMAIN eth.ports : eth.ports[p].link = "up"
         /\ SampleSpeed(eth) > 0 => SampleLink(eth) = "up"
<1> DEFINE links == {eth.ports[p].link : p \in DOMAIN eth.ports}
           rated == {p \in DOMAIN eth.ports : eth.ports[p].link = "up" /\ eth.ports[p].speed > 0}
           answered == eth.status \in {"ok", "partial"}
<1>1. SampleLink(eth) = IF ~answered THEN ""
                        ELSE IF "up" \in links THEN "up" ELSE IF "down" \in links THEN "down" ELSE ""
  BY DEF SampleLink
<1>2. SampleSpeed(eth) > 0 => answered /\ rated # {}
  BY DEF SampleSpeed
<1>3. rated # {} => "up" \in links
  OBVIOUS
<1>4. "up" \in links => \E p \in DOMAIN eth.ports : eth.ports[p].link = "up"
  OBVIOUS
<1> HIDE DEF links, rated
<1> QED
  BY <1>1, <1>2, <1>3, <1>4

\* The stored sample has every port that was read in the state that was read, for any rows
\* of any ports and neighbours, and unknown ones up to the number of the model; "ok" is
\* said of a complete reading only (attachPONEthernet, applyEthernet, applyExpectedPorts).
THEOREM StoredAsWasRead ==
  ASSUME NEW columns, AreColumns(columns), NEW numbers \in SUBSET (Nat \ {0}), IsFiniteSet(numbers),
         \A n \in PortRows(columns) : n[2] \in numbers, NEW state, NEW expected \in Nat
  PROVE  StoredAsRead(columns, numbers, state, expected)
<1> DEFINE cell(c, p) == Cell(columns, c, p)
           read == {p \in numbers : \E c \in Columns : Integral(cell(c, p))}
           raw(p) == [c \in Columns |-> IF Integral(cell(c, p)) THEN cell(c, p) ELSE NoValue]
           raws == [p \in read |-> raw(p)]
           e == EthernetFromPONWalk(columns, 1)
           none == EmptyEthernet(state)
           eth == OfPON(columns, state, expected)
           stored == StoredPorts(eth, expected)
           unknown == [admin |-> "unknown", link |-> "unknown"]
           admin(p) == IF cell(1, p) = 1 THEN "enabled" ELSE IF cell(1, p) = 2 THEN "disabled" ELSE "unknown"
           link(p) == IF cell(2, p) = 1 THEN "up" ELSE IF cell(2, p) = 2 THEN "down" ELSE "unknown"
<1>1. PICK f \in BOOLEAN : (WalkFailed(columns) => f) /\ e = FinishEthernet(raws, f)
  BY WalkReads
<1>2. \A p \in read : DecodePort(raws[p]).admin = admin(p) /\ DecodePort(raws[p]).link = link(p)
  <2> SUFFICES ASSUME NEW p \in read
               PROVE  DecodePort(raws[p]).admin = admin(p) /\ DecodePort(raws[p]).link = link(p)
    OBVIOUS
  <2>1. raws[p] = raw(p)
    OBVIOUS
  <2>2. Integral(1) /\ Integral(2) /\ ~(NoValue = 1) /\ ~(NoValue = 2)
    BY DEF Integral, NoValue, NoInstance, Other
  <2>3. raws[p][1] = IF Integral(cell(1, p)) THEN cell(1, p) ELSE NoValue
    BY <2>1 DEF Columns
  <2>4. raws[p][2] = IF Integral(cell(2, p)) THEN cell(2, p) ELSE NoValue
    BY <2>1 DEF Columns
  <2> HIDE DEF raws, cell
  <2>5. (raws[p][1] = 1 <=> cell(1, p) = 1) /\ (raws[p][1] = 2 <=> cell(1, p) = 2)
    BY <2>2, <2>3
  <2>6. (raws[p][2] = 1 <=> cell(2, p) = 1) /\ (raws[p][2] = 2 <=> cell(2, p) = 2)
    BY <2>2, <2>4
  <2> QED
    BY <2>5, <2>6, DecodedPort
<1>3. \A p \in read : ~Incomplete(DecodePort(raws[p])) =>
        cell(1, p) \in 1..2 /\ cell(2, p) \in 1..2 /\ (cell(2, p) = 1 => cell(3, p) \in 2..7)
  <2> SUFFICES ASSUME NEW p \in read, ~Incomplete(DecodePort(raws[p]))
               PROVE  cell(1, p) \in 1..2 /\ cell(2, p) \in 1..2 /\ (cell(2, p) = 1 => cell(3, p) \in 2..7)
    OBVIOUS
  <2>1. \A c \in Columns : raws[p][c] = IF Integral(cell(c, p)) THEN cell(c, p) ELSE NoValue
    OBVIOUS
  <2>2. 1 \in Columns /\ 2 \in Columns /\ 3 \in Columns /\ NoValue = -3
    BY DEF Columns, NoValue
  <2> HIDE DEF raws, cell
  <2>3. raws[p][1] \in 1..2 /\ raws[p][2] \in 1..2 /\ (raws[p][2] = 1 => raws[p][3] \in 2..7)
    BY CompletePort
  <2>4. raws[p][1] = cell(1, p) /\ raws[p][2] = cell(2, p)
    BY <2>1, <2>2, <2>3
  <2>5. raws[p][2] = 1 => raws[p][3] = cell(3, p)
    BY <2>1, <2>2, <2>3
  <2> QED
    BY <2>3, <2>4, <2>5
<1>4. DOMAIN raws = read /\ read \subseteq numbers
  OBVIOUS
<1>5. IsFiniteSet(read)
  BY <1>4, FS_Subset
<1> HIDE DEF raws, read, cell
<1>6. /\ e = [status |-> e.status, ports |-> e.ports] /\ DOMAIN e.ports = read
      /\ \A p \in read : e.ports[p] = DecodePort(raws[p])
      /\ e.status \in {"ok", "partial"} <=> read # {}
      /\ e.status = "ok" => ~f /\ \A p \in read : ~Incomplete(DecodePort(raws[p]))
  BY <1>1, <1>4, FinishedReads
<1>7. /\ none = [status |-> none.status, ports |-> NoPorts] /\ none.ports = NoPorts
      /\ none.status \notin {"ok", "partial"} /\ DOMAIN NoPorts = {}
  BY EmptyIs DEF NoPorts
<1>8. eth = PadEthernetPorts(expected, IF state = "Online" THEN e ELSE none)
  BY OfPONIs
<1> HIDE DEF e, none, eth
<1> DEFINE answer == IF state = "Online" THEN e ELSE none
           seen == IF state = "Online" THEN read ELSE {}
           ports == [i \in (1..expected) \cup seen |-> IF i \in seen THEN e.ports[i] ELSE UnknownPort]
<1>9. answer = [status |-> answer.status, ports |-> answer.ports] /\ DOMAIN answer.ports = seen
      /\ \A p \in seen : answer.ports[p] = e.ports[p]
  BY <1>6, <1>7
<1>10. eth = [status |-> answer.status, ports |-> ports]
  <2> HIDE DEF seen
  <2>1. eth = PadEthernetPorts(expected, answer)
    BY <1>8
  <2> HIDE DEF answer
  <2>2. eth = [status |-> answer.status,
               ports |-> [i \in (1..expected) \cup DOMAIN answer.ports |->
                            IF i \in DOMAIN answer.ports THEN answer.ports[i] ELSE UnknownPort]]
    BY <1>9, <2>1, Padded
  <2> QED
    BY <1>9, <2>2
<1>11. IsFiniteSet((1..expected) \cup seen)
  <2>1. IsFiniteSet(1..expected)
    BY FS_Interval
  <2>2. IsFiniteSet(seen)
    BY <1>5, FS_EmptySet
  <2> HIDE DEF seen
  <2> QED
    BY <2>1, <2>2, FS_Union
<1>12. /\ DOMAIN ports = (1..expected) \cup seen
       /\ \A p \in seen : ports[p].admin = admin(p) /\ ports[p].link = link(p)
       /\ \A p \in (1..expected) \ seen : ports[p].admin = "unknown" /\ ports[p].link = "unknown"
  <2>1. \A p \in seen : ports[p] = DecodePort(raws[p]) /\ p \in read
    BY <1>6
  <2>2. \A p \in (1..expected) \ seen : ports[p] = UnknownPort
    OBVIOUS
  <2>3. UnknownPort.admin = "unknown" /\ UnknownPort.link = "unknown"
    BY DEF UnknownPort
  <2>4. DOMAIN ports = (1..expected) \cup seen
    OBVIOUS
  <2> HIDE DEF ports, seen, admin, link
  <2> QED
    BY <1>2, <2>1, <2>2, <2>3, <2>4
<1>13. seen # {} => answer.status \in {"ok", "partial"}
  BY <1>6
<1>14. answer.status \in {"ok", "partial"} => state = "Online" /\ seen = read
  BY <1>7
<1>15. answer.status = "ok" =>
         /\ state = "Online" /\ ~f
         /\ \A p \in read : /\ cell(1, p) \in 1..2 /\ cell(2, p) \in 1..2
                            /\ cell(2, p) = 1 => cell(3, p) \in 2..7
  BY <1>3, <1>6, <1>7
<1> HIDE DEF answer, ports, admin, link
<1>16. eth.status = answer.status /\ eth.ports = ports
  BY <1>10
<1>17. /\ DOMAIN stored = (1..expected) \cup seen
       /\ \A p \in DOMAIN stored : stored[p] = IF p \in seen THEN [admin |-> admin(p), link |-> link(p)] ELSE unknown
  <2> HIDE DEF seen
  <2>1. 1..expected \subseteq DOMAIN ports /\ IsFiniteSet(DOMAIN ports)
    BY <1>11, <1>12
  <2>2. CASE answer.status \in {"ok", "partial"}
    <3>1. /\ DOMAIN stored = DOMAIN ports
          /\ \A p \in DOMAIN ports : stored[p] = [admin |-> ports[p].admin, link |-> ports[p].link]
      BY <1>10, <2>1, <2>2, StoredOf
    <3> HIDE DEF stored
    <3> QED
      BY <1>12, <3>1
  <2>3. CASE answer.status \notin {"ok", "partial"}
    <3>1. /\ DOMAIN stored = 1..expected
          /\ \A p \in 1..expected : stored[p] = unknown
      BY <1>10, <2>1, <2>3, StoredOf
    <3>2. seen = {}
      BY <1>13, <2>3
    <3> HIDE DEF stored
    <3> QED
      BY <3>1, <3>2
  <2> QED
    BY <2>2, <2>3
<1>18. SampleLink(eth) = "up" => \E p \in read : cell(2, p) = 1
  <2>1. SUFFICES ASSUME SampleLink(eth) = "up" PROVE \E p \in read : cell(2, p) = 1
    OBVIOUS
  <2>2. PICK p \in DOMAIN ports : ports[p].link = "up"
    BY <1>16, <2>1, SampledLink
  <2>3. p \in seen /\ link(p) = "up"
    BY <1>12, <2>2
  <2>4. p \in read /\ cell(2, p) = 1
    BY <2>3 DEF link
  <2> QED
    BY <2>4
<1>19. SampleSpeed(eth) > 0 => SampleLink(eth) = "up"
  BY SampledLink
<1>20. ~f => \A c \in Columns : ~columns[c].failed
  BY <1>1 DEF WalkFailed
<1>21. /\ \A p : admin(p) = CASE cell(1, p) = 1 -> "enabled" [] cell(1, p) = 2 -> "disabled" [] OTHER -> "unknown"
       /\ \A p : link(p) = CASE cell(2, p) = 1 -> "up" [] cell(2, p) = 2 -> "down" [] OTHER -> "unknown"
  BY DEF admin, link
<1>22. \A p \in DOMAIN stored :
         stored[p] = IF state = "Online" /\ p \in read THEN [admin |-> admin(p), link |-> link(p)] ELSE unknown
  BY <1>17
<1>23. DOMAIN stored = (1..expected) \cup (IF state = "Online" THEN read ELSE {})
  BY <1>17
<1>24. eth.status = "ok" =>
         /\ state = "Online" /\ \A c \in Columns : ~columns[c].failed
         /\ \A p \in read : /\ cell(1, p) \in 1..2 /\ cell(2, p) \in 1..2
                            /\ cell(2, p) = 1 => cell(3, p) \in 2..7
  BY <1>15, <1>16, <1>20
<1> HIDE DEF stored
<1> QED
  BY <1>18, <1>19, <1>21, <1>22, <1>23, <1>24 DEF StoredAsRead, Cell, cell, read, stored, eth

-----------------------------------------------------------------------------
(***************************************************************************)
(* The inputs of the run, and the invariants of module MCAlgorithms.       *)
(***************************************************************************)
\* An action gives an input of its own kind.
LEMMA HistoryKinds ==
  ASSUME HistoryNext PROVE kind' \in {"log", "runs", "unauth"}
  BY Zenon DEF HistoryNext, Poll, PollOfRun, StartRun, FinishRun, Discover, Grow

LEMMA DeviceKinds ==
  ASSUME DeviceNext PROVE kind' \in {"ethernet", "uplinks"}
  BY Zenon DEF DeviceNext, Deliver, Interfaces, StackPair, WalkFails, OfUplinks, Give

LEMMA ServiceKinds ==
  ASSUME ServiceNext
  PROVE  \/ kind' = "config" /\ Configure
         \/ kind' = "stacks" /\ ReconcileCall
         \/ kind' = "users" /\ AddUser
         \/ kind' = "page" /\ AskPage
  BY Zenon DEF ServiceNext, Configure, ReconcileCall, AddUser, AskPage, Grow, Give

LEMMA KindsOfSteps ==
  ASSUME Next
  PROVE  /\ kind' = "config" => Configure
         /\ kind' = "stacks" => ReconcileCall
         /\ kind' = "users" => AddUser
         /\ kind' = "page" => AskPage
         /\ kind' = "uplinks" => DeviceNext
         /\ kind' = "ethernet" => DeviceNext
         /\ kind' \in {"log", "runs", "unauth"} => HistoryNext
<1>1. CASE HistoryNext
  BY <1>1, HistoryKinds
<1>2. CASE DeviceNext
  BY <1>2, DeviceKinds
<1>3. CASE ServiceNext
  BY <1>3, ServiceKinds
<1> QED
  BY <1>1, <1>2, <1>3 DEF Next

PageInv == kind = "page" => /\ value.list \in Seq(Int)
                            /\ value.page \in Asked /\ value.size \in Asked

UsersInv == kind = "users" => value \in Seq(Users)

ConfigInv == kind = "config" => IsEnvironment(value)

StacksInv == kind = "stacks" => value \in Seq(ReconcileCalls)

\* What the tables of an OLT deliver: statuses of two interfaces, and any pairs.
IsWalk(w) ==
  /\ w = [kinds |-> w.kinds, oper |-> w.oper, stack |-> w.stack, class |-> w.class,
          position |-> w.position, failed |-> w.failed]
  /\ DOMAIN w.kinds \subseteq 1..3 /\ w.oper = [i \in {1, 2} |-> i]
  /\ w.stack \in Seq((1..3) \X (1..3)) /\ w.failed \subseteq Tolerated \cup {"oper"}

UplinksInv == kind = "uplinks" => IsWalk(value)

\* What the walks delivered has rows of RowNames.
EthernetInv ==
  kind = "ethernet" => AreColumns(value) /\ \A c \in Columns : DOMAIN value[c].rows \subseteq RowNames

InputInv ==
  PageInv /\ UsersInv /\ ConfigInv /\ StacksInv /\ UplinksInv /\ EthernetInv /\ HistoryInv

LEMMA PageStep ==
  ASSUME PageInv, [Next]_vars PROVE PageInv'
<1>1. CASE UNCHANGED vars
  BY <1>1 DEF vars, PageInv
<1>2. CASE Next
  <2> SUFFICES ASSUME kind' = "page"
               PROVE  /\ value'.list \in Seq(Int)
                      /\ value'.page \in Asked /\ value'.size \in Asked
    BY DEF PageInv
  <2>1. PICK n \in 0..MaxListLength, page \in (-1)..4 \cup {NoNumber},
             size \in (-1)..(MaxPageSize + 2) \cup {NoNumber} :
          value' = [list |-> [i \in 1..n |-> i], page |-> page, size |-> size]
    BY <1>2, KindsOfSteps, Zenon DEF AskPage, Give
  <2>2. /\ value'.list = [i \in 1..n |-> i]
        /\ value'.page = page /\ value'.size = size
    BY <2>1
  <2>3. [i \in 1..n |-> i] \in Seq(Int)
    <3>1. n \in Nat
      OBVIOUS
    <3> QED
      BY <3>1
  <2>4. page \in Asked /\ size \in Asked
    BY PageSizes DEF Asked
  <2> QED
    BY <2>2, <2>3, <2>4
<1> QED
  BY <1>1, <1>2

LEMMA UsersStep ==
  ASSUME UsersInv, kind = "none" => value = <<>>, [Next]_vars PROVE UsersInv'
<1>1. CASE UNCHANGED vars
  BY <1>1 DEF vars, UsersInv
<1>2. CASE Next
  <2> SUFFICES ASSUME kind' = "users" PROVE value' \in Seq(Users)
    BY DEF UsersInv
  <2>1. PICK u \in Users : kind \in {"none", "users"} /\ value' = Append(value, u)
    BY <1>2, KindsOfSteps, Zenon DEF AddUser, Grow
  <2>2. value \in Seq(Users)
    <3>1. CASE kind = "none"
      BY <3>1
    <3>2. CASE kind = "users"
      BY <3>2 DEF UsersInv
    <3> QED
      BY <2>1, <3>1, <3>2
  <2> QED
    BY <2>1, <2>2
<1> QED
  BY <1>1, <1>2

\* What is configured is made of texts and of numbers.
LEMMA ConfiguredTexts ==
  /\ \A t \in Texts : t \in Text
  /\ << <<>> >> \in Text /\ << <<30>> >> \in Text
  /\ \A e \in Listed : IsEntry(e)
<1>1. \A a, b \in Seq(Int) : <<a>> \in Text /\ <<a, b>> \in Text
  BY DEF Text
<1>2. \A p \in Parts : p \in Seq(Int)
  <2>1. /\ <<>> \in Seq(Int) /\ <<NotANumber>> \in Seq(Int) /\ <<1>> \in Seq(Int)
        /\ <<30>> \in Seq(Int) /\ <<31>> \in Seq(Int) /\ <<1, 2>> \in Seq(Int)
        /\ <<1, 17>> \in Seq(Int) /\ <<1, 2, 3>> \in Seq(Int)
    BY DEF NotANumber
  <2> QED
    BY <2>1, Zenon DEF Parts
<1>3. ASSUME NEW t \in Texts PROVE t \in Text
  <2>1. PICK n \in 1..2 : t \in [1..n -> Parts]
    BY DEF Texts
  <2>2. t \in [1..n -> Seq(Int)]
    BY <1>2, <2>1
  <2>3. t \in Seq(Seq(Int)) /\ Len(t) = n
    BY <2>2
  <2> QED
    BY <2>3 DEF Text
<1>4. <<>> \in Seq(Int) /\ <<30>> \in Seq(Int) /\ <<1>> \in Seq(Int) /\ <<1, 2>> \in Seq(Int)
  OBVIOUS
<1>5. /\ << <<>> >> \in Text /\ << <<1>> >> \in Text /\ << <<30>> >> \in Text
      /\ << <<1, 2>>, <<30>> >> \in Text /\ << <<1>>, <<1, 2>> >> \in Text
  BY <1>1, <1>4
<1>6. ASSUME NEW e \in Listed PROVE IsEntry(e)
  <2>1. e.boards \in ListedTexts /\ e.pons = 8
    BY DEF Listed
  <2>2. \A t \in ListedTexts : t \in Text
    BY <1>5, Zenon DEF ListedTexts
  <2> QED
    BY <2>1, <2>2 DEF IsEntry
<1> QED
  BY <1>3, <1>5, <1>6

LEMMA ConfiguredSources ==
  /\ IsSource(Unset) /\ IsSource([Unset EXCEPT !.kind = "blank"])
  /\ \A olts \in Lists : IsSource(ListOf(olts))
<1>1. \A source : source.olts = <<>> => IsSource(source)
  BY DEF IsSource
<1>2. Unset.olts = <<>> /\ [Unset EXCEPT !.kind = "blank"].olts = <<>>
  BY DEF Unset
<1>3. ASSUME NEW olts \in Lists PROVE IsSource(ListOf(olts))
  <2>1. PICK n \in 0..2 : olts \in [1..n -> Listed]
    BY DEF Lists
  <2>2. Len(olts) \in Nat /\ DOMAIN olts = 1..Len(olts)
    BY <2>1
  <2>3. \A i \in DOMAIN olts : IsEntry(olts[i])
    BY <2>1, ConfiguredTexts
  <2>4. ListOf(olts).olts = olts
    BY DEF ListOf
  <2> QED
    BY <2>2, <2>3, <2>4 DEF IsSource
<1> QED
  BY <1>1, <1>2, <1>3

LEMMA ConfigStep ==
  ASSUME ConfigInv, [Next]_vars PROVE ConfigInv'
<1>1. CASE UNCHANGED vars
  BY <1>1 DEF vars, ConfigInv
<1>2. CASE Next
  <2> SUFFICES ASSUME kind' = "config" PROVE IsEnvironment(value')
    BY DEF ConfigInv
  <2>1. \/ value' \in Settings
        \/ \E olts \in Lists, default \in {"", "a", "c"}, where \in {"inline", "file"} :
             value' = WithList(olts, default, where)
    BY <1>2, KindsOfSteps, Zenon DEF Configure, Give
  <2>2. ASSUME NEW env \in Settings PROVE IsEnvironment(env)
    <3>1. /\ env.boards \in Texts \cup {<< <<30>> >>} /\ env.pons \in {0, 8}
          /\ env.inline \in {Unset} /\ env.file \in {Unset, [Unset EXCEPT !.kind = "blank"]}
      BY Zenon DEF Settings
    <3>2. IsEntry(env)
      BY <3>1, ConfiguredTexts DEF IsEntry
    <3>3. IsSource(env.inline) /\ IsSource(env.file)
      BY <3>1, ConfiguredSources, Zenon
    <3> QED
      BY <3>2, <3>3 DEF IsEnvironment
  <2>3. ASSUME NEW olts \in Lists, NEW default, NEW where
        PROVE  IsEnvironment(WithList(olts, default, where))
    <3> DEFINE env == WithList(olts, default, where)
    <3>1. /\ env.boards = << <<>> >> /\ env.pons = 0 /\ env.file = ListOf(olts)
          /\ env.inline = IF where = "inline" THEN ListOf(olts) ELSE Unset
      BY Zenon DEF WithList
    <3> HIDE DEF env
    <3>2. IsEntry(env)
      BY <3>1, ConfiguredTexts DEF IsEntry
    <3>3. IsSource(env.inline) /\ IsSource(env.file)
      BY <3>1, ConfiguredSources
    <3>4. IsEnvironment(env)
      BY <3>2, <3>3 DEF IsEnvironment
    <3> QED
      BY <3>4 DEF env
  <2> QED
    BY <2>1, <2>2, <2>3
<1> QED
  BY <1>1, <1>2

LEMMA StacksStep ==
  ASSUME StacksInv, kind = "none" => value = <<>>, [Next]_vars PROVE StacksInv'
<1>1. CASE UNCHANGED vars
  BY <1>1 DEF vars, StacksInv
<1>2. CASE Next
  <2> SUFFICES ASSUME kind' = "stacks" PROVE value' \in Seq(ReconcileCalls)
    BY DEF StacksInv
  <2>1. PICK call \in ReconcileCalls : kind \in {"none", "stacks"} /\ value' = Append(value, call)
    BY <1>2, KindsOfSteps, Zenon DEF ReconcileCall, Grow
  <2>2. value \in Seq(ReconcileCalls)
    <3>1. CASE kind = "none"
      BY <3>1
    <3>2. CASE kind = "stacks"
      BY <3>2 DEF StacksInv
    <3> QED
      BY <2>1, <3>1, <3>2
  <2> QED
    BY <2>1, <2>2
<1> QED
  BY <1>1, <1>2

\* The calls of the run are calls with configurations.
LEMMA OltIsOlt ==
  ASSUME NEW id, NEW host, NEW user, NEW max, NEW specs,
         DOMAIN specs # {}, DOMAIN specs \subseteq Boards, \A b \in DOMAIN specs : specs[b] \in Pons
  PROVE  IsOlt(Olt(id, host, user, max, specs)) /\ Olt(id, host, user, max, specs).id = id
<1> DEFINE o == Olt(id, host, user, max, specs)
           map == BoardPonMap(specs).map
<1>1. o = [id |-> id, user |-> user, host |-> host, community |-> "c", walk |-> FALSE,
           port |-> DefaultPort, max |-> max, specs |-> specs, map |-> map]
  BY DEF Olt
<1> HIDE DEF o, map
<1>2. /\ o.id = id /\ o.specs = specs /\ o.map = map
      /\ o = [id |-> o.id, user |-> o.user, host |-> o.host, community |-> o.community,
              walk |-> o.walk, port |-> o.port, max |-> o.max, specs |-> o.specs, map |-> o.map]
  BY <1>1
<1>3. IsOlt(o)
  BY <1>2 DEF IsOlt, map
<1> QED
  BY <1>2, <1>3 DEF o

LEMMA Topologies ==
  ASSUME NEW specs \in {OneBoard(1), OneBoard(2), TwoBoards}
  PROVE  /\ DOMAIN specs # {} /\ DOMAIN specs \subseteq Boards
         /\ \A b \in DOMAIN specs : specs[b] \in Pons
<1>1. {1, 3} \subseteq Boards /\ {1, 2} \subseteq Pons
  BY DEF Boards, Pons, MaxBoardID, MaxPonID
<1> QED
  BY <1>1 DEF OneBoard, TwoBoards

LEMMA VariantsAreOlts ==
  ASSUME NEW id, NEW a \in Variants(id)
  PROVE  a = <<>> \/ \E o : a = <<o>> /\ IsOlt(o) /\ o.id = id
<1>1. \/ a = <<>>
      \/ \E host, user, max : \E specs \in {OneBoard(1), OneBoard(2), TwoBoards} :
           a = <<Olt(id, host, user, max, specs)>>
  BY Zenon DEF Variants
<1> QED
  BY <1>1, Topologies, OltIsOlt

LEMMA Concatenated ==
  ASSUME NEW A, NEW a \in Seq(A), NEW b \in Seq(A)
  PROVE  /\ \A k \in 1..Len(a) : (a \o b)[k] = a[k]
         /\ \A k \in 1..Len(b) : (a \o b)[Len(a) + k] = b[k]
  OBVIOUS

LEMMA TwoElements ==
  ASSUME NEW A, NEW a \in Seq(A), NEW b \in Seq(A), Len(a) = 1, Len(b) = 1
  PROVE  /\ Len(a \o b) = 2 /\ DOMAIN (a \o b) = 1..2
         /\ (a \o b)[1] = a[1] /\ (a \o b)[2] = b[1]
<1>1. a \o b \in Seq(A) /\ Len(a \o b) = 2
  OBVIOUS
<1>2. 2 = Len(a) + 1 /\ 1 \in 1..Len(a) /\ 1 \in 1..Len(b)
  OBVIOUS
<1>3. (a \o b)[1] = a[1] /\ (a \o b)[2] = b[1]
  BY <1>2, Concatenated
<1> QED
  BY <1>1, <1>3

LEMMA CallsAreCalls ==
  \A call \in ReconcileCalls : IsCall(call)
<1> SUFFICES ASSUME NEW call \in ReconcileCalls PROVE IsCall(call)
  OBVIOUS
<1>1. PICK a \in Variants("a"), b \in Variants("b") : call.olts = a \o b
  BY DEF ReconcileCalls
<1>2. a = <<>> \/ \E o : a = <<o>> /\ IsOlt(o) /\ o.id = "a"
  BY VariantsAreOlts
<1>3. b = <<>> \/ \E o : b = <<o>> /\ IsOlt(o) /\ o.id = "b"
  BY VariantsAreOlts
<1>4. CASE call.olts = <<>>
  BY <1>4 DEF IsCall
<1>5. CASE \E o : call.olts = <<o>> /\ IsOlt(o)
  BY <1>5 DEF IsCall
<1>6. ASSUME NEW o, a = <<o>>, IsOlt(o), o.id = "a", NEW p, b = <<p>>, IsOlt(p), p.id = "b"
      PROVE  IsCall(call)
  <2> DEFINE olts == a \o b
  <2>1. a \in Seq({o, p}) /\ b \in Seq({o, p}) /\ Len(a) = 1 /\ Len(b) = 1 /\ a[1] = o /\ b[1] = p
    BY <1>6
  <2>2. Len(olts) = 2 /\ DOMAIN olts = 1..2 /\ olts[1] = o /\ olts[2] = p
    BY <2>1, TwoElements
  <2>3. \A i \in 1..2 : i = 1 \/ i = 2
    OBVIOUS
  <2>4. o.id # p.id
    BY <1>6
  <2>5. call.olts = olts
    BY <1>1
  <2> HIDE DEF olts
  <2>6. \A i \in 1..2 : IsOlt(olts[i])
    BY <1>6, <2>2, <2>3
  <2>7. \A i, j \in 1..2 : olts[i].id = olts[j].id => i = j
    BY <2>2, <2>3, <2>4
  <2> QED
    BY <2>2, <2>5, <2>6, <2>7 DEF IsCall
<1>7. CASE a = <<>> \/ b = <<>>
  <2>1. <<>> \o <<>> = <<>> /\ \A x : <<x>> \o <<>> = <<x>> /\ <<>> \o <<x>> = <<x>>
    <3>1. \A x : <<x>> \o <<>> = <<x>>
      OBVIOUS
    <3>2. \A x : <<>> \o <<x>> = <<x>>
      OBVIOUS
    <3>3. <<>> \o <<>> = <<>>
      OBVIOUS
    <3> QED
      BY <3>1, <3>2, <3>3, Zenon
  <2>2. call.olts = <<>> \/ \E o : call.olts = <<o>> /\ IsOlt(o)
    BY <1>1, <1>2, <1>3, <1>7, <2>1, Zenon
  <2> QED
    BY <1>4, <1>5, <2>2
<1>8. CASE ~(a = <<>> \/ b = <<>>)
  <2>1. PICK o : a = <<o>> /\ IsOlt(o) /\ o.id = "a"
    BY <1>2, <1>8
  <2>2. PICK p : b = <<p>> /\ IsOlt(p) /\ p.id = "b"
    BY <1>3, <1>8
  <2> QED
    BY <1>6, <2>1, <2>2
<1> QED
  BY <1>7, <1>8

LEMMA OwnedNames ==
  ASSUME NEW failing PROVE "" \notin DOMAIN Owned(failing).entries
<1> DEFINE olts == <<Olt("a", "h", 0, 5, OneBoard(1)), Olt("b", "h", 1, 5, OneBoard(1)),
                     Olt("c", "h", 2, 5, OneBoard(1))>>
           call == [olts |-> olts, failing |-> failing]
           reg == Owned(failing)
<1>1. /\ IsOlt(olts[1]) /\ IsOlt(olts[2]) /\ IsOlt(olts[3])
      /\ olts[1].id = "a" /\ olts[2].id = "b" /\ olts[3].id = "c"
      /\ Len(olts) = 3 /\ DOMAIN olts = 1..3
  <2>1. IsOlt(olts[1]) /\ olts[1].id = "a"
    BY Topologies, OltIsOlt
  <2>2. IsOlt(olts[2]) /\ olts[2].id = "b"
    BY Topologies, OltIsOlt
  <2>3. IsOlt(olts[3]) /\ olts[3].id = "c"
    BY Topologies, OltIsOlt
  <2>4. Len(olts) = 3 /\ DOMAIN olts = 1..3
    OBVIOUS
  <2> QED
    BY <2>1, <2>2, <2>3, <2>4
<1>2. reg = Reconcile(NoStacks, call.olts, call.failing, "a") /\ call.olts = olts
  BY DEF Owned
<1> HIDE DEF olts, call, reg
<1>3. \A i \in 1..3 : i = 1 \/ i = 2 \/ i = 3
  OBVIOUS
<1>4. IsCall(call)
  <2>1. \A i \in 1..3 : IsOlt(olts[i])
    BY <1>1, <1>3
  <2>2. \A i, j \in 1..3 : olts[i].id = olts[j].id => i = j
    BY <1>1, <1>3
  <2>3. call.olts = olts
    BY <1>2
  <2>4. Len(call.olts) = 3 /\ DOMAIN call.olts = 1..3
    BY <1>1, <2>3, Zenon
  <2>5. /\ \A i \in DOMAIN call.olts : IsOlt(call.olts[i])
        /\ \A i, j \in DOMAIN call.olts : call.olts[i].id = call.olts[j].id => i = j
    BY <2>1, <2>2, <2>3, <2>4
  <2> QED
    BY <2>4, <2>5 DEF IsCall
<1>5. DOMAIN reg.entries \subseteq {call.olts[i].id : i \in DOMAIN call.olts}
  BY <1>2, <1>4, NoStacksIsRegistry, ReconcileAll DEF ReconciledUpTo
<1>6. "" \notin {call.olts[i].id : i \in DOMAIN call.olts}
  BY <1>1, <1>2, <1>3
<1> QED
  BY <1>5, <1>6 DEF reg

LEMMA UplinksStep ==
  ASSUME UplinksInv, [Next]_vars PROVE UplinksInv'
<1>1. CASE UNCHANGED vars
  BY <1>1 DEF vars, UplinksInv
<1>2. CASE Next
  <2> SUFFICES ASSUME kind' = "uplinks" PROVE IsWalk(value')
    BY DEF UplinksInv
  <2>1. Interfaces \/ StackPair \/ WalkFails
    <3>1. DeviceNext
      BY <1>2, KindsOfSteps
    <3> QED
      BY <3>1 DEF DeviceNext, Deliver
  <2>2. CASE Interfaces
    <3>1. PICK kinds \in UNION {[1..n -> {"physical", "lag", "other"}] : n \in 2..3} :
            value' = [NoWalk EXCEPT !.kinds = kinds, !.oper = [i \in {1, 2} |-> i]]
      BY <2>2 DEF Interfaces, Give
    <3>2. DOMAIN kinds \subseteq 1..3
      OBVIOUS
    <3> DEFINE oper == [i \in {1, 2} |-> i]
    <3> HIDE DEF oper
    <3>3. value' = [kinds |-> kinds, oper |-> oper, stack |-> <<>>, class |-> <<>>, position |-> <<>>,
                    failed |-> {}]
      BY <3>1 DEF NoWalk, oper
    <3>4. <<>> \in Seq((1..3) \X (1..3))
      OBVIOUS
    <3> QED
      BY <3>2, <3>3, <3>4 DEF IsWalk, oper
  <2>3. CASE StackPair
    <3>1. PICK pair \in (1..3) \X (1..3) : value' = [value EXCEPT !.stack = Append(value.stack, pair)]
      BY <2>3 DEF StackPair
    <3>2. IsWalk(value)
      BY <2>3 DEF StackPair, OfUplinks, UplinksInv
    <3> DEFINE stack == Append(value.stack, pair)
    <3>3. stack \in Seq((1..3) \X (1..3))
      BY <3>2 DEF IsWalk
    <3> HIDE DEF stack
    <3>4. value' = [kinds |-> value.kinds, oper |-> value.oper, stack |-> stack, class |-> value.class,
                    position |-> value.position, failed |-> value.failed]
      BY <3>1, <3>2 DEF IsWalk, stack
    <3> QED
      BY <3>2, <3>3, <3>4 DEF IsWalk
  <2>4. CASE WalkFails
    <3>1. PICK w \in {"stack", "position", "oper"} : value' = [value EXCEPT !.failed = {w}]
      BY <2>4 DEF WalkFails
    <3>2. IsWalk(value)
      BY <2>4 DEF WalkFails, OfUplinks, UplinksInv
    <3> DEFINE failed == {w}
    <3>3. failed \subseteq Tolerated \cup {"oper"}
      BY DEF Tolerated
    <3> HIDE DEF failed
    <3>4. value' = [kinds |-> value.kinds, oper |-> value.oper, stack |-> value.stack, class |-> value.class,
                    position |-> value.position, failed |-> failed]
      BY <3>1, <3>2 DEF IsWalk, failed
    <3> QED
      BY <3>2, <3>3, <3>4 DEF IsWalk
  <2> QED
    BY <2>1, <2>2, <2>3, <2>4
<1> QED
  BY <1>1, <1>2

LEMMA WalksAgree ==
  ASSUME NEW walk, IsWalk(walk)
  PROVE  LET ports == GetUplinkTopology(walk).ports
             of(k) == {i \in DOMAIN ports : ports[i].kind = k} IN
         /\ DOMAIN ports = IF "oper" \in walk.failed THEN {} ELSE Uplinks(walk)
         /\ LagsAndMembers(walk, ports, of("lag"), of("physical"))
         /\ \A i \in DOMAIN ports : ports[i].status = IF i = 3 THEN 0 ELSE i
<1> DEFINE ports == GetUplinkTopology(walk).ports
           of(k) == {i \in DOMAIN ports : ports[i].kind = k}
<1>1. "oper" \notin Tolerated
  BY DEF Tolerated
<1>2. Uplinks(walk) \subseteq 1..3 /\ NoLag \notin Uplinks(walk)
  BY DEF Uplinks, NoLag, IsWalk
<1>3. CASE "oper" \in walk.failed
  <2>1. ~(walk.failed \subseteq Tolerated)
    BY <1>1, <1>3
  <2>2. ports = <<>>
    BY <2>1 DEF GetUplinkTopology
  <2>3. DOMAIN ports = {}
    BY <2>2
  <2> HIDE DEF ports
  <2>4. of("lag") = {} /\ of("physical") = {}
    BY <2>3
  <2>5. LagsAndMembers(walk, ports, of("lag"), of("physical"))
    BY <2>4 DEF LagsAndMembers
  <2> QED
    BY <1>3, <2>3, <2>5 DEF ports
<1>4. CASE "oper" \notin walk.failed
  <2>1. walk.failed \subseteq Tolerated
    BY <1>4 DEF IsWalk
  <2>2. Len(walk.stack) \in Nat /\ DOMAIN walk.stack = 1..Len(walk.stack)
    BY DEF IsWalk
  <2>3. DOMAIN ports = Uplinks(walk) /\ LagsAndMembers(walk, ports, of("lag"), of("physical"))
    BY <1>2, <2>1, <2>2, UplinksAgree
  <2>4. \A i \in Uplinks(walk) : ports[i].status = PortStatus(walk, i)
    BY <2>1 DEF GetUplinkTopology
  <2>5. \A i \in 1..3 : PortStatus(walk, i) = IF i = 3 THEN 0 ELSE i
    BY DEF PortStatus, IsWalk
  <2> HIDE DEF ports
  <2>6. \A i \in DOMAIN ports : ports[i].status = IF i = 3 THEN 0 ELSE i
    BY <1>2, <2>3, <2>4, <2>5
  <2> QED
    BY <1>4, <2>3, <2>6 DEF ports
<1> QED
  BY <1>3, <1>4

LEMMA RowNamesAreSequences ==
  /\ \A n \in RowNames : n \in Seq(Int) /\ Len(n) = 2
  /\ \A n \in RowNames : n[1] # 1 <=> n = <<2, 1>>
  /\ \A n \in RowNames : n[1] = 1 /\ ~(n[2] >= 1) <=> n = <<1, 0>>
<1>1. /\ <<1, 1>> \in Seq(Int) /\ <<1, 3>> \in Seq(Int) /\ <<1, 0>> \in Seq(Int) /\ <<2, 1>> \in Seq(Int)
  OBVIOUS
<1>2. \A a, b : Len(<<a, b>>) = 2 /\ <<a, b>>[1] = a /\ <<a, b>>[2] = b
  OBVIOUS
<1>3. \A a, b, c, d : <<a, b>> = <<c, d>> <=> a = c /\ b = d
  OBVIOUS
<1>4. ASSUME NEW n \in RowNames
      PROVE  /\ n \in Seq(Int) /\ Len(n) = 2
             /\ n[1] # 1 <=> n = <<2, 1>>
             /\ n[1] = 1 /\ ~(n[2] >= 1) <=> n = <<1, 0>>
  <2>1. CASE n = <<1, 1>>
    BY <1>1, <1>2, <1>3, <2>1
  <2>2. CASE n = <<1, 3>>
    BY <1>1, <1>2, <1>3, <2>2
  <2>3. CASE n = <<1, 0>>
    BY <1>1, <1>2, <1>3, <2>3
  <2>4. CASE n = <<2, 1>>
    BY <1>1, <1>2, <1>3, <2>4
  <2> QED
    BY <2>1, <2>2, <2>3, <2>4 DEF RowNames
<1> QED
  BY <1>4

LEMMA MalformedInRun ==
  ASSUME NEW columns, AreColumns(columns), \A c \in Columns : DOMAIN columns[c].rows \subseteq RowNames
  PROVE  Malformed(columns) = (<<1, 0>> \in Names(columns))
<1>1. \A n \in Names(columns) : n \in RowNames
  BY DEF Names
<1>2. \A n \in Names(columns) : n \in BelowOne(columns) <=> n # <<2, 1>>
  BY <1>1, RowNamesAreSequences, SuffixOfOne DEF BelowOne
<1>3. \A n \in Names(columns) : n \in PortRows(columns) <=> n # <<2, 1>> /\ n # <<1, 0>>
  BY <1>1, RowNamesAreSequences DEF PortRows
<1>4. BelowOne(columns) \subseteq Names(columns) /\ PortRows(columns) \subseteq Names(columns)
  BY DEF BelowOne, PortRows
<1>5. <<1, 0>> # <<2, 1>>
  OBVIOUS
<1> QED
  BY <1>2, <1>3, <1>4, <1>5 DEF Malformed

LEMMA NothingReadIsColumns ==
  AreColumns(NothingRead) /\ \A c \in Columns : DOMAIN NothingRead[c].rows \subseteq RowNames
<1>1. DOMAIN NothingRead = Columns
  BY DEF NothingRead
<1> SUFFICES ASSUME NEW c \in Columns
             PROVE  /\ NothingRead[c] = [rows |-> NothingRead[c].rows, failed |-> NothingRead[c].failed]
                    /\ NothingRead[c].failed \in BOOLEAN
                    /\ DOMAIN NothingRead[c].rows = {}
  BY <1>1 DEF AreColumns
<1> DEFINE none == <<>>
<1>2. DOMAIN none = {}
  OBVIOUS
<1>3. NothingRead[c] = [rows |-> none, failed |-> FALSE]
  BY DEF NothingRead
<1> HIDE DEF none
<1>4. NothingRead[c].rows = none /\ NothingRead[c].failed = FALSE
  BY <1>3
<1> QED
  BY <1>2, <1>3, <1>4

\* A walk that delivers a row of column c, or the failure of its walk.
LEMMA OneColumn ==
  ASSUME NEW columns, AreColumns(columns), \A d \in Columns : DOMAIN columns[d].rows \subseteq RowNames,
         NEW c \in Columns, NEW rows, DOMAIN rows \subseteq RowNames, NEW failed \in BOOLEAN,
         NEW new, new = [columns EXCEPT ![c] = [rows |-> rows, failed |-> failed]]
  PROVE  AreColumns(new) /\ \A d \in Columns : DOMAIN new[d].rows \subseteq RowNames
<1>1. DOMAIN new = Columns /\ \A d \in Columns \ {c} : new[d] = columns[d]
  BY DEF AreColumns
<1>2. new[c] = [rows |-> rows, failed |-> failed]
  BY DEF AreColumns
<1>3. new[c].rows = rows /\ new[c].failed = failed
  BY <1>2
<1>4. \A n \in RowNames : n \in Seq(Int)
  BY RowNamesAreSequences
<1>5. DOMAIN rows \subseteq Seq(Int)
  BY <1>4
<1> QED
  BY <1>1, <1>2, <1>3, <1>5 DEF AreColumns

LEMMA EthernetStep ==
  ASSUME EthernetInv, [Next]_vars PROVE EthernetInv'
<1>1. CASE UNCHANGED vars
  BY <1>1 DEF vars, EthernetInv
<1>2. CASE Next
  <2> SUFFICES ASSUME kind' = "ethernet"
               PROVE  AreColumns(value') /\ \A c \in Columns : DOMAIN value'[c].rows \subseteq RowNames
    BY DEF EthernetInv
  <2> DEFINE columns == IF kind = "none" THEN NothingRead ELSE value
  <2>1. Deliver
    BY <1>2, KindsOfSteps, Zenon DEF DeviceNext, Interfaces, StackPair, WalkFails, OfUplinks, Give
  <2>2. PICK c \in Columns :
          \/ \E n \in RowNames : \E v : value' = [columns EXCEPT ![c].rows = WithRow(columns[c].rows, n, v)]
          \/ value' = [columns EXCEPT ![c].failed = TRUE]
    BY <2>1 DEF Deliver
  <2>3. AreColumns(columns) /\ \A d \in Columns : DOMAIN columns[d].rows \subseteq RowNames
    <3>1. CASE kind = "none"
      <4>1. columns = NothingRead
        BY <3>1
      <4> HIDE DEF columns
      <4> QED
        BY <4>1, NothingReadIsColumns
    <3>2. CASE kind # "none"
      <4>1. columns = value /\ kind = "ethernet"
        BY <2>1, <3>2 DEF Deliver
      <4> HIDE DEF columns
      <4> QED
        BY <4>1 DEF EthernetInv
    <3> QED
      BY <3>1, <3>2
  <2> HIDE DEF columns
  <2> DEFINE old == columns[c]
  <2>4. old = [rows |-> old.rows, failed |-> old.failed] /\ DOMAIN columns = Columns
        /\ old.failed \in BOOLEAN /\ DOMAIN old.rows \subseteq RowNames
    BY <2>3 DEF AreColumns
  <2>5. ASSUME NEW n \in RowNames, NEW v, value' = [columns EXCEPT ![c].rows = WithRow(columns[c].rows, n, v)]
        PROVE  AreColumns(value') /\ \A d \in Columns : DOMAIN value'[d].rows \subseteq RowNames
    <3> DEFINE rows == WithRow(columns[c].rows, n, v)
    <3>1. DOMAIN rows \subseteq RowNames
      BY <2>4 DEF WithRow
    <3> HIDE DEF rows
    <3>2. value' = [columns EXCEPT ![c] = [old EXCEPT !.rows = rows]]
      BY <2>5 DEF rows
    <3> HIDE DEF old
    <3>3. [old EXCEPT !.rows = rows] = [rows |-> rows, failed |-> old.failed]
      BY <2>4
    <3>4. value' = [columns EXCEPT ![c] = [rows |-> rows, failed |-> old.failed]]
      BY <3>2, <3>3
    <3> QED
      BY <2>3, <2>4, <3>1, <3>4, OneColumn
  <2>6. CASE value' = [columns EXCEPT ![c].failed = TRUE]
    <3> DEFINE failed == TRUE
    <3>1. value' = [columns EXCEPT ![c] = [old EXCEPT !.failed = failed]]
      BY <2>6
    <3> HIDE DEF failed, old
    <3>2. [old EXCEPT !.failed = failed] = [rows |-> old.rows, failed |-> failed]
      BY <2>4
    <3>3. value' = [columns EXCEPT ![c] = [rows |-> old.rows, failed |-> failed]]
      BY <3>1, <3>2
    <3>4. failed \in BOOLEAN
      BY DEF failed
    <3> QED
      BY <2>3, <2>4, <3>3, <3>4, OneColumn
  <2> QED
    BY <2>2, <2>5, <2>6
<1> QED
  BY <1>1, <1>2

\* An ONU is read alike alone and with its PON (getEthernetPorts, attachPONEthernet).
LEMMA EthernetReadsInv == EthernetInv => EthernetReadsAgree
<1> SUFFICES ASSUME EthernetInv, kind = "ethernet", NEW state, NEW expected \in Expected
             PROVE  ReadsAgree(value, <<1, 0>> \in Names(value), state, expected)
  BY DEF EthernetReadsAgree
<1>1. AreColumns(value) /\ \A c \in Columns : DOMAIN value[c].rows \subseteq RowNames
  BY DEF EthernetInv
<1>2. expected \in Nat
  BY DEF Expected
<1>3. Malformed(value) = (<<1, 0>> \in Names(value))
  BY <1>1, MalformedInRun
<1> QED
  BY <1>1, <1>2, <1>3, EthernetReads

\* The ports of the rows of RowNames.
LEMMA RowNumbers ==
  ASSUME NEW columns, \A c \in Columns : DOMAIN columns[c].rows \subseteq RowNames
  PROVE  \A n \in PortRows(columns) : n[2] \in {1, 3}
<1> SUFFICES ASSUME NEW n \in PortRows(columns) PROVE n[2] \in {1, 3}
  OBVIOUS
<1>1. n \in RowNames /\ n[2] >= 1
  BY DEF PortRows, Names
<1>2. \A a, b : <<a, b>>[2] = b
  OBVIOUS
<1>3. CASE n = <<1, 1>> \/ n = <<1, 3>>
  BY <1>2, <1>3
<1>4. CASE n = <<1, 0>>
  BY <1>1, <1>2, <1>4
<1>5. CASE n = <<2, 1>>
  BY <1>2, <1>5
<1> QED
  BY <1>1, <1>3, <1>4, <1>5 DEF RowNames

\* The stored sample has what was read of an ONU (applyEthernet).
LEMMA StoredPortsInv == EthernetInv => StoredPortsAreRead
<1> SUFFICES ASSUME EthernetInv, kind = "ethernet", NEW state, NEW expected \in Expected
             PROVE  StoredAsRead(value, {1, 3}, state, expected)
  BY DEF StoredPortsAreRead
<1>1. AreColumns(value) /\ \A c \in Columns : DOMAIN value[c].rows \subseteq RowNames
  BY DEF EthernetInv
<1>2. expected \in Nat
  BY DEF Expected
<1>3. \A n \in PortRows(value) : n[2] \in {1, 3}
  BY <1>1, RowNumbers
<1> DEFINE numbers == {1, 3}
<1>4. IsFiniteSet(numbers)
  <2>1. IsFiniteSet({1}) /\ numbers = {1} \cup {3}
    BY FS_Singleton
  <2> QED
    BY <2>1, FS_AddElement
<1>5. numbers \in SUBSET (Nat \ {0}) /\ \A n \in PortRows(value) : n[2] \in numbers
  BY <1>3
<1> HIDE DEF numbers
<1>6. StoredAsRead(value, numbers, state, expected)
  BY <1>1, <1>2, <1>4, <1>5, StoredAsWasRead
<1> QED
  BY <1>6 DEF numbers

LEMMA HistoriesStep ==
  ASSUME HistoryInv, kind = "none" => value = <<>>, [Next]_vars PROVE HistoryInv'
<1>1. CASE UNCHANGED vars
  BY <1>1 DEF vars, HistoryInv, LogInv, UnauthInv, RunsInv
<1>2. CASE Next
  <2>1. CASE kind' \in {"log", "runs", "unauth"}
    <3>1. HistoryNext
      BY <1>2, <2>1, KindsOfSteps
    <3> QED
      BY <3>1, HistoryStep
  <2>2. CASE kind' \notin {"log", "runs", "unauth"}
    BY <2>2 DEF HistoryInv, LogInv, UnauthInv, RunsInv
  <2> QED
    BY <2>1, <2>2
<1> QED
  BY <1>1, <1>2

\* The inputs of the run are of the sets that the theorems are about.
LEMMA InputsAreTyped ==
  Spec => [](InputInv /\ (kind = "none" => value = <<>>))
<1>1. Init => InputInv /\ (kind = "none" => value = <<>>)
  BY DEF Init, InputInv, PageInv, UsersInv, ConfigInv, StacksInv, UplinksInv, EthernetInv,
     HistoryInv, LogInv, UnauthInv, RunsInv
<1>2. InputInv /\ (kind = "none" => value = <<>>) /\ [Next]_vars
      => InputInv' /\ (kind = "none" => value = <<>>)'
  <2> SUFFICES ASSUME InputInv, kind = "none" => value = <<>>, [Next]_vars
               PROVE  InputInv' /\ (kind' = "none" => value' = <<>>)
    OBVIOUS
  <2>1. PageInv'
    BY PageStep DEF InputInv
  <2>2. UsersInv'
    BY UsersStep DEF InputInv
  <2>3. ConfigInv'
    BY ConfigStep DEF InputInv
  <2>4. StacksInv'
    BY StacksStep DEF InputInv
  <2>5. UplinksInv'
    BY UplinksStep DEF InputInv
  <2>6. EthernetInv'
    BY EthernetStep DEF InputInv
  <2>7. HistoryInv'
    BY HistoriesStep DEF InputInv
  <2>8. kind' = "none" => value' = <<>>
    BY HistoryKinds, DeviceKinds, ServiceKinds DEF Next, vars
  <2> QED
    BY <2>1, <2>2, <2>3, <2>4, <2>5, <2>6, <2>7, <2>8 DEF InputInv
<1> QED
  BY <1>1, <1>2, PTL DEF Spec

\* The pages of a list are the list (Paginate).
THEOREM PagesInRun == Spec => []PagesPartitionTheList
<1>1. PageInv => PagesPartitionTheList
  BY PagesAreTheList DEF PageInv, PagesPartitionTheList
<1> QED
  BY <1>1, InputsAreTyped, PTL DEF InputInv

\* A configuration that is accepted is the one that was written (LoadConfig).
THEOREM ConfigInRun == Spec => []ConfigIsWhatWasWritten
<1>1. ConfigInv => ConfigIsWhatWasWritten
  BY ConfigsAreAsWritten DEF ConfigInv, ConfigIsWhatWasWritten
<1> QED
  BY <1>1, InputsAreTyped, PTL DEF InputInv

\* The stacks follow the last configuration (Reconcile).
THEOREM StacksInRun == Spec => []StacksFollowConfig
<1>1. StacksInv => StacksFollowConfig
  BY StacksFollowCalls, CallsAreCalls DEF StacksInv, StacksFollowConfig
<1> QED
  BY <1>1, InputsAreTyped, PTL DEF InputInv

\* A request is served by an OLT of its user (resolveOLT).
THEOREM ServedInRun == Spec => []ServedByOwnOLT
<1>1. UsersInv => ServedByOwnOLT
  <2> SUFFICES ASSUME kind = "users", value \in Seq(Users), BuildUserRegistry(value).ok
               PROVE  \A key, legacy, failing, id :
                        ServedRightly(value, legacy, key, Owned(failing), "a", id)
    BY Zenon DEF UsersInv, ServedByOwnOLT
  <2>1. AreUsers(Users)
    <3> SUFFICES ASSUME NEW u \in Users PROVE u.user \in Int
      BY DEF AreUsers
    <3>1. u.user \in 0..2
      BY DEF Users
    <3> QED
      BY <3>1
  <2> QED
    BY <2>1, OwnedNames, EveryoneServedByOwn
<1> QED
  BY <1>1, InputsAreTyped, PTL DEF InputInv

\* The LAGs and the ports of an OLT agree (GetUplinkTopology).
THEOREM UplinksInRun == Spec => []LagsAndMembersAgree
<1>1. UplinksInv => LagsAndMembersAgree
  BY WalksAgree DEF UplinksInv, LagsAndMembersAgree
<1> QED
  BY <1>1, InputsAreTyped, PTL DEF InputInv

\* An ONU is read alike alone and with its PON (getEthernetPorts, attachPONEthernet).
THEOREM EthernetInRun == Spec => []EthernetReadsAgree
<1>1. EthernetInv => EthernetReadsAgree
  BY EthernetReadsInv
<1> QED
  BY <1>1, InputsAreTyped, PTL DEF InputInv

\* The stored sample has what was read of an ONU (applyEthernet, applyExpectedPorts).
THEOREM StoredInRun == Spec => []StoredPortsAreRead
<1>1. EthernetInv => StoredPortsAreRead
  BY StoredPortsInv
<1> QED
  BY <1>1, InputsAreTyped, PTL DEF InputInv

\* The memory store holds what the database does, and shows the same log of every ONU
\* unless a batch had its serial number twice (RecordSampleTransitions, UpsertONUs,
\* ReplaceUnauth of the two stores).
THEOREM StoresInRun == Spec => []StoresAgree
<1>1. HistoryInv => StoresAgree
  BY StoresAgreeInv DEF HistoryInv
<1> QED
  BY <1>1, InputsAreTyped, PTL DEF InputInv

\* A query of a run answers with the samples its polls stored, and a list is the newest
\* part of what the counts count (ApplyRunWindow, ListSamples, ListSampleCounts).
THEOREM QueriesInRun == Spec => []QueriesAreExact
<1>1. HistoryInv => QueriesAreExact
  BY RunWindowsInv, ListsInv DEF HistoryInv, QueriesAreExact
<1> QED
  BY <1>1, InputsAreTyped, PTL DEF InputInv

\* The report has the serial numbers that are at two positions, in the samples of the
\* latest finished run and in all, the same from either store (BuildDuplicateSerials,
\* Timescale.ListDuplicateSerials).
THEOREM DuplicatesInRun == Spec => []DuplicatesAreThose
<1>1. HistoryInv => DuplicatesAreThose
  BY DuplicatesInv DEF HistoryInv
<1> QED
  BY <1>1, InputsAreTyped, PTL DEF InputInv
=============================================================================
