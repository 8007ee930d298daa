-------------------------- MODULE ProfileLogProofs --------------------------
(***************************************************************************)
(* That the profile can be read back: for every batch size, record and     *)
(* buffer capacity, at every moment of the writer's life.                  *)
(***************************************************************************)
EXTENDS ProfileLog, TableTheorems, SequenceTheorems

(* What the writer writes: data, and what frames it. *)
Kinds == BatchTags \cup ItemTags \cup {"FileHeader", "FlushMarker", "Footer"}

EntrySet == [tag : Kinds, id : Nat]
UnitSet ==
    [u : {"file"}] \cup [u : {"tlv"}, tag : Kinds, len : Nat] \cup [u : {"count"}, n : Nat]
    \cup [u : {"entry"}, e : EntrySet, closes : Nat] \cup [u : {"mark"}]
    \cup [u : {"footer"}, tb : Nat, edge : Nat]

(* The fields the reader looks at. *)
LEMMA UnitFacts ==
    ASSUME NEW x \in UnitSet
    PROVE  /\ x.u = "tlv" => x.tag \in Kinds /\ x.len \in Nat
           /\ x.u = "entry" => x.e \in EntrySet /\ x.closes \in Nat
  BY DEF UnitSet
-----------------------------------------------------------------------------
(* One turn of the reader's loop at unit i, where g has what follows. *)
Body(G, g, i) ==
    IF i > Len(G) THEN Empty
    ELSE IF G[i].u # "tlv" THEN Garbled
    ELSE LET end == i + G[i].len
             payload == SubSeq(G, i + 1, end)
         IN  IF end > Len(G) THEN Empty
             ELSE IF ~PayloadOK(G[i], payload) THEN Garbled
             ELSE LET rest == g[end + 1]
                  IN  [entries |-> PayloadEntries(G[i], payload) \o rest.entries,
                       footer |-> IF G[i].tag = "Footer" /\ rest.footer = NoFooter
                                  THEN payload ELSE rest.footer,
                       garbled |-> rest.garbled,
                       err |-> FALSE]

IsReader(G, m, g) == g = [i \in m .. Len(G) + 1 |-> Body(G, g, i)]
Reader(G) == CHOOSE g : IsReader(G, 1, g)

LEMMA ParseReads ==
    ASSUME NEW G
    PROVE  Parse(G) = IF G = <<>> THEN HeaderError ELSE Reader(G)[2]
  BY DEF Parse, Reader, IsReader, Body

(* A turn depends on what comes later only. *)
LEMMA BodyLocal ==
    ASSUME NEW G \in Seq(UnitSet), NEW i \in 1 .. Len(G) + 1, NEW g, NEW h,
           \A j \in i + 1 .. Len(G) + 1 : g[j] = h[j]
    PROVE  Body(G, g, i) = Body(G, h, i)
<1>1. CASE i > Len(G)
  BY <1>1 DEF Body
<1>2. CASE i <= Len(G) /\ G[i].u # "tlv"
  BY <1>2 DEF Body
<1>3. CASE i <= Len(G) /\ G[i].u = "tlv"
  <2> DEFINE end == i + G[i].len
  <2>1. Len(G) \in Nat /\ G[i] \in UnitSet
    BY <1>3
  <2>2. G[i].len \in Nat
    BY <1>3, <2>1, UnitFacts
  <2>3. CASE end > Len(G)
    BY <1>3, <2>3 DEF Body
  <2>4. CASE ~(end > Len(G))
    <3>1. end + 1 \in i + 1 .. Len(G) + 1
      BY <2>1, <2>2, <2>4
    <3>2. g[end + 1] = h[end + 1]
      BY <3>1
    <3> QED
      BY <1>3, <3>2 DEF Body
  <2> QED
    BY <2>3, <2>4
<1>4. Len(G) \in Nat
  OBVIOUS
<1> QED
  BY <1>1, <1>2, <1>3, <1>4

LEMMA ReaderExists ==
    ASSUME NEW G \in Seq(UnitSet)
    PROVE  \E g : IsReader(G, 1, g)
<1> DEFINE n == Len(G)
           C == {k \in 0 .. n : ~ \E g : IsReader(G, n + 1 - k, g)}
<1>1. n \in Nat
  OBVIOUS
<1>2. C = {}
  <2> SUFFICES ASSUME C # {} PROVE FALSE
    OBVIOUS
  <2>1. PICK k \in C : \A l \in C : k <= l
    <3>1. C \subseteq Nat
      BY <1>1
    <3> HIDE DEF C
    <3> QED
      BY <3>1, SmallestExists
  <2> DEFINE m == n + 1 - k
  <2>2. k \in 0 .. n /\ m \in 1 .. n + 1
    BY <1>1
  <2>3. \E g : IsReader(G, m, g)
    <3>1. CASE k = 0
      <4> DEFINE g == [i \in n + 1 .. n + 1 |-> Empty]
      <4>0. \A i \in n + 1 .. n + 1 : i > Len(G)
        BY <1>1
      <4>1. \A i \in n + 1 .. n + 1 : Body(G, g, i) = Empty
        <5> HIDE DEF g, n
        <5> QED
          BY <4>0 DEF Body
      <4>2. g = [i \in n + 1 .. n + 1 |-> Body(G, g, i)]
        BY <4>1
      <4>3. m = n + 1
        BY <1>1, <3>1
      <4> HIDE DEF g
      <4> QED
        BY <4>2, <4>3 DEF IsReader
    <3>2. CASE k # 0
      <4>1. k - 1 \in 0 .. n /\ k - 1 \notin C
        BY <1>1, <2>1, <2>2, <3>2
      <4>2. n + 1 - (k - 1) = m + 1
        BY <1>1, <2>2
      <4>3. PICK h : IsReader(G, m + 1, h)
        BY <4>1, <4>2
      <4>4. h = [i \in m + 1 .. n + 1 |-> Body(G, h, i)]
        BY <4>3 DEF IsReader
      <4> DEFINE g == [i \in m .. n + 1 |-> IF i = m THEN Body(G, h, m) ELSE h[i]]
      <4> HIDE DEF m, C
      <4>5. \A j \in m + 1 .. n + 1 : g[j] = h[j]
        BY <2>2, <1>1
      <4>6. ASSUME NEW i \in m .. n + 1 PROVE g[i] = Body(G, g, i)
        <5>1. i \in 1 .. n + 1 /\ \A j \in i + 1 .. n + 1 : g[j] = h[j]
          BY <1>1, <2>2, <4>5
        <5>2. g[i] = Body(G, h, i)
          BY <1>1, <2>2, <4>4
        <5> HIDE DEF g
        <5> QED
          BY <5>1, <5>2, BodyLocal
      <4>7. g = [i \in m .. n + 1 |-> Body(G, g, i)]
        <5>1. DOMAIN g = m .. n + 1 /\ g = [i \in m .. n + 1 |-> g[i]]
          OBVIOUS
        <5> HIDE DEF g
        <5> QED
          BY <4>6, <5>1
      <4> HIDE DEF g
      <4> QED
        BY <4>7 DEF IsReader
    <3> QED
      BY <3>1, <3>2
  <2> QED
    BY <2>3
<1>3. n \in 0 .. n /\ n + 1 - n = 1
  BY <1>1
<1> QED
  BY <1>2, <1>3

(* What the reader makes of each position. *)
LEMMA ReaderStep ==
    ASSUME NEW G \in Seq(UnitSet), NEW i \in 1 .. Len(G) + 1
    PROVE  Reader(G)[i] = Body(G, Reader(G), i)
<1>1. IsReader(G, 1, Reader(G))
  BY ReaderExists DEF Reader
<1>2. Reader(G) = [j \in 1 .. Len(G) + 1 |-> Body(G, Reader(G), j)]
  BY <1>1 DEF IsReader
<1> QED
  BY <1>2
-----------------------------------------------------------------------------
(* Sequences that agree on an interval have the same subsequence there. *)
LEMMA SameSubSeq ==
    ASSUME NEW S, NEW F, NEW G, NEW a \in Int, NEW b \in Int,
           \A j \in a .. b : F[j] \in S /\ F[j] = G[j]
    PROVE  SubSeq(F, a, b) = SubSeq(G, a, b)
<1> DEFINE s == SubSeq(F, a, b)
           t == SubSeq(G, a, b)
<1>1. \A j \in a .. b : F[j] \in S
  OBVIOUS
<1>2. \A j \in a .. b : G[j] \in S
  OBVIOUS
<1>3. /\ s \in Seq(S) /\ Len(s) = (IF a <= b THEN b - a + 1 ELSE 0)
      /\ \A j \in 1 .. b - a + 1 : s[j] = F[a + j - 1]
  BY ONLY <1>1, a \in Int, b \in Int, SubSeqProperties
<1>4. /\ t \in Seq(S) /\ Len(t) = (IF a <= b THEN b - a + 1 ELSE 0)
      /\ \A j \in 1 .. b - a + 1 : t[j] = G[a + j - 1]
  BY ONLY <1>2, a \in Int, b \in Int, SubSeqProperties
<1>5. \A j \in 1 .. b - a + 1 : a + j - 1 \in a .. b
  OBVIOUS
<1> HIDE DEF s, t
<1>6. \A j \in 1 .. b - a + 1 : s[j] = t[j]
  BY <1>3, <1>4, <1>5
<1>7. \A j \in 1 .. Len(s) : j \in 1 .. b - a + 1
  BY <1>3
<1>8. s = t
  BY <1>3, <1>4, <1>6, <1>7, SeqEqual
<1> QED
  BY <1>8 DEF s, t

(* The entries of a log behind the first x, up to the y-th. *)
Slice(L, x, y) == SubSeq(L, x + 1, y)

(* Adjacent slices. *)
LEMMA JoinLog ==
    ASSUME NEW S, NEW L \in Seq(S), NEW Z \in Seq(S), NEW x \in 0 .. Len(L), NEW y \in 0 .. Len(L),
           NEW z \in 0 .. Len(L), x <= y, y <= z
    PROVE  Slice(L, x, y) \o (Slice(L, y, z) \o Z) = Slice(L, x, z) \o Z
<1> DEFINE A == SubSeq(L, x + 1, y)
           B == SubSeq(L, y + 1, z)
<1>1. Len(L) \in Nat
  OBVIOUS
<1>2. x + 1 \in 1 .. Len(L) + 1 /\ y \in x + 1 - 1 .. Len(L) /\ z \in y .. Len(L)
  BY <1>1
<1>3. A \o B = SubSeq(L, x + 1, z)
  BY ONLY <1>2, L \in Seq(S), ConcatAdjacentSubSeq
<1>4. A \in Seq(S) /\ B \in Seq(S)
  <2>1. x + 1 \in Int /\ y \in Int /\ y + 1 \in Int /\ z \in Int
    OBVIOUS
  <2>2. \A i \in x + 1 .. y : L[i] \in S
    BY <1>1
  <2>3. \A i \in y + 1 .. z : L[i] \in S
    BY <1>1
  <2> QED
    BY ONLY <2>1, <2>2, <2>3, SubSeqProperties
<1> HIDE DEF A, B
<1>5. (A \o B) \o Z = A \o (B \o Z)
  BY ONLY <1>4, Z \in Seq(S), ConcatAssociative, SMTT(30)
<1> QED
  BY <1>3, <1>5 DEF A, B, Slice
-----------------------------------------------------------------------------
(***************************************************************************)
(* A clean stream F of the log L: records from its second unit to its end. *)
(* `cut` is defined at the boundaries between them and says how many       *)
(* entries of the log the records before a boundary hold.                  *)
(***************************************************************************)
After(F, i) == i + F[i].len + 1
Payload(F, i) == SubSeq(F, i + 1, i + F[i].len)

Clean(F, L, cut) ==
    /\ DOMAIN cut \subseteq 2 .. Len(F) + 1 /\ 2 \in DOMAIN cut /\ Len(F) + 1 \in DOMAIN cut
    /\ cut[2] = 0
    /\ \A i \in DOMAIN cut : cut[i] \in 0 .. Len(L)
    /\ \A i \in DOMAIN cut : i <= Len(F) =>
          /\ F[i].u = "tlv"
          /\ After(F, i) \in DOMAIN cut /\ cut[i] <= cut[After(F, i)]
          /\ \A j \in DOMAIN cut : j <= i \/ j >= After(F, i)
          /\ PayloadOK(F[i], Payload(F, i))
          /\ PayloadEntries(F[i], Payload(F, i)) = Slice(L, cut[i], cut[After(F, i)])

Agree(F, G, k) == k - 1 <= Len(F) /\ k - 1 <= Len(G) /\ \A i \in 1 .. k - 1 : F[i] = G[i]

(* From each boundary up to k the reader finds what the log has, then what follows k. *)
ReadUpTo(G, L, cut, k) ==
    \A i \in DOMAIN cut : i <= k =>
        /\ cut[i] <= cut[k]
        /\ Reader(G)[i].entries = Slice(L, cut[i], cut[k]) \o Reader(G)[k].entries
        /\ Reader(G)[i].garbled = Reader(G)[k].garbled
        /\ Reader(G)[k].footer # NoFooter => Reader(G)[i].footer = Reader(G)[k].footer

(* A file that agrees with a clean stream up to a boundary is so read. *)
LEMMA CleanRead ==
    ASSUME NEW F \in Seq(UnitSet), NEW G \in Seq(UnitSet), NEW L \in Seq(EntrySet), NEW cut,
           Clean(F, L, cut), NEW k \in DOMAIN cut, Agree(F, G, k),
           Reader(G)[k].entries \in Seq(EntrySet)
    PROVE  ReadUpTo(G, L, cut, k)
<1> DEFINE g == Reader(G)
           Good(i) == /\ cut[i] <= cut[k]
                      /\ g[i].entries = Slice(L, cut[i], cut[k]) \o g[k].entries
                      /\ g[i].garbled = g[k].garbled
                      /\ g[k].footer # NoFooter => g[i].footer = g[k].footer
           Bad == {i \in DOMAIN cut : i <= k /\ ~Good(i)}
           m == k - 1
<1>0. Len(F) \in Nat /\ Len(G) \in Nat /\ Len(L) \in Nat
  OBVIOUS
<1>2. DOMAIN cut \subseteq 2 .. Len(F) + 1 /\ k \in Nat /\ \A i \in DOMAIN cut : cut[i] \in 0 .. Len(L)
  BY <1>0 DEF Clean
<1>1. /\ Len(F) \in Nat /\ Len(G) \in Nat /\ Len(L) \in Nat /\ m \in Nat /\ k = m + 1
      /\ m <= Len(F) /\ m <= Len(G) /\ \A i \in 1 .. m : F[i] = G[i]
  BY <1>0, <1>2 DEF Agree
<1> HIDE DEF m
<1>3. Good(k)
  <2>1. cut[k] \in Nat
    BY <1>1, <1>2
  <2>2. Slice(L, cut[k], cut[k]) = <<>>
    BY <2>1, SubSeqEmpty DEF Slice
  <2>3. <<>> \o g[k].entries = g[k].entries
    BY ConcatEmptySeq
  <2> QED
    BY <2>1, <2>2, <2>3
<1>4. ASSUME NEW i \in DOMAIN cut, i < k, \A j \in DOMAIN cut : i < j /\ j <= k => Good(j)
      PROVE  Good(i)
  <2> DEFINE a == After(F, i)
             end == i + F[i].len
             pe == PayloadEntries(F[i], Payload(F, i))
  <2>1. i \in Nat /\ i >= 2 /\ i <= m /\ i <= Len(F)
    BY <1>1, <1>2, <1>4
  <2>2. /\ F[i].u = "tlv" /\ a \in DOMAIN cut /\ cut[i] <= cut[a] /\ a <= k
        /\ PayloadOK(F[i], Payload(F, i)) /\ pe = Slice(L, cut[i], cut[a])
    <3>1. k <= i \/ k >= a
      BY <2>1 DEF Clean
    <3>2. a \in DOMAIN cut
      BY <2>1 DEF Clean
    <3>3. a \in Nat
      BY <1>1, <1>2, <3>2
    <3>4. a <= k
      <4> HIDE DEF a
      <4> QED
        BY <1>2, <1>4, <2>1, <3>1, <3>3
    <3> QED
      BY <2>1, <3>2, <3>4 DEF Clean
  <2>3. F[i].len \in Nat /\ G[i] = F[i]
    <3>1. F[i] \in UnitSet
      BY <1>1, <2>1
    <3> QED
      BY <1>1, <2>1, <2>2, <3>1, UnitFacts
  <2>4. end \in Nat /\ a = end + 1 /\ i < a /\ end <= m /\ end <= Len(G)
    <3>1. a = end + 1 /\ end \in Nat /\ i <= end
      BY <2>1, <2>3 DEF After
    <3> HIDE DEF a, end
    <3> QED
      BY <1>1, <1>2, <2>1, <2>2, <3>1
  <2>5. SubSeq(G, i + 1, end) = Payload(F, i)
    <3> DEFINE b == i + 1
    <3>1. b \in Int /\ end \in Int
      BY <2>1, <2>4
    <3> HIDE DEF end
    <3>2. \A j \in b .. end : j \in 1 .. m /\ j \in 1 .. Len(F)
      BY <1>1, <2>1, <2>4
    <3> HIDE DEF b
    <3>3. \A j \in b .. end : F[j] \in UnitSet /\ F[j] = G[j]
      BY <1>1, <3>2
    <3>4. SubSeq(F, b, end) = SubSeq(G, b, end)
      BY ONLY <3>1, <3>3, SameSubSeq
    <3> QED
      BY <3>4 DEF end, Payload, b
  <2>6. g[i] = [entries |-> pe \o g[a].entries,
                footer |-> IF F[i].tag = "Footer" /\ g[a].footer = NoFooter
                           THEN Payload(F, i) ELSE g[a].footer,
                garbled |-> g[a].garbled, err |-> FALSE]
    <3>1. g[i] = Body(G, g, i)
      <4>1. i \in 1 .. Len(G) + 1
        BY <1>1, <2>1
      <4> QED
        BY <4>1, ReaderStep
    <3>2. ~(i > Len(G)) /\ ~(end > Len(G)) /\ end = i + G[i].len
      BY <1>1, <2>1, <2>3, <2>4
    <3> HIDE DEF g
    <3> QED
      BY <2>2, <2>3, <2>4, <2>5, <3>1, <3>2 DEF Body
  <2>7. Good(a)
    BY <1>4, <2>2, <2>4
  <2>8. /\ cut[i] \in 0 .. Len(L) /\ cut[a] \in 0 .. Len(L) /\ cut[k] \in 0 .. Len(L)
        /\ cut[i] <= cut[a] /\ cut[a] <= cut[k]
    BY <1>2, <2>2, <2>7
  <2>9. g[i].entries = Slice(L, cut[i], cut[k]) \o g[k].entries
    <3>1. g[i].entries = Slice(L, cut[i], cut[a]) \o g[a].entries
      <4> HIDE DEF a, g, Good, pe
      <4> QED
        BY <2>2, <2>6, SMTT(30)
    <3>2. g[a].entries = Slice(L, cut[a], cut[k]) \o g[k].entries
      BY <2>7
    <3>3. L \in Seq(EntrySet) /\ g[k].entries \in Seq(EntrySet)
      OBVIOUS
    <3>4. Slice(L, cut[i], cut[a]) \o (Slice(L, cut[a], cut[k]) \o g[k].entries)
            = Slice(L, cut[i], cut[k]) \o g[k].entries
      <4> HIDE DEF a, g, Good
      <4> QED
        BY ONLY <2>8, <3>3, JoinLog
    <3> HIDE DEF a, g, Good
    <3> QED
      BY <3>1, <3>2, <3>4
  <2>10. cut[i] <= cut[k] /\ g[i].garbled = g[k].garbled
         /\ (g[k].footer # NoFooter => g[i].footer = g[k].footer)
    <3> HIDE DEF g
    <3> QED
      BY <1>1, <2>6, <2>7, <2>8
  <2> QED
    BY <2>9, <2>10
<1>5. Bad = {}
  <2> HIDE DEF Good
  <2> SUFFICES ASSUME Bad # {} PROVE FALSE
    OBVIOUS
  <2>1. Bad \subseteq 2 .. Len(F) + 1 /\ Bad \subseteq Nat
    BY <1>1, <1>2
  <2>2. IsFiniteSet(Bad)
    <3>1. 2 \in Int /\ Len(F) + 1 \in Int
      BY <1>1
    <3>2. IsFiniteSet(2 .. Len(F) + 1)
      BY ONLY <3>1, FS_Interval
    <3> HIDE DEF Bad
    <3> QED
      BY <2>1, <3>2, FS_Subset
  <2>3. PICK i \in Bad : \A j \in Bad : i >= j
    <3> HIDE DEF Bad
    <3> QED
      BY <2>1, <2>2, LargestExists
  <2>4. i \in DOMAIN cut /\ i <= k /\ ~Good(i)
    BY <2>3
  <2>5. \A j \in DOMAIN cut : i < j /\ j <= k => Good(j)
    <3> SUFFICES ASSUME NEW j \in DOMAIN cut, i < j, j <= k, ~Good(j) PROVE FALSE
      OBVIOUS
    <3>1. j \in Bad
      OBVIOUS
    <3>2. i \in Nat /\ j \in Nat /\ i >= j
      BY <2>1, <2>3, <3>1
    <3> QED
      BY <3>2
  <2>6. i < k
    <3>1. i # k
      BY <1>3, <2>4
    <3> QED
      BY <1>1, <1>2, <2>1, <2>3, <2>4, <3>1
  <2> HIDE DEF Bad
  <2> QED
    BY <1>4, <2>4, <2>5, <2>6
<1> QED
  BY <1>5 DEF ReadUpTo

(* The kinds of records the reader tells apart. *)
LEMMA TagFacts ==
    ASSUME NEW t
    PROVE  /\ t \in BatchTags => t \in ReadTags /\ t \notin ItemTags /\ t # "Footer"
           /\ t \in ItemTags => t # "Footer"
           /\ t \in ReadTags => t \in BatchTags \/ t \in ItemTags
  BY DEF BatchTags, ItemTags, ReadTags

(* What the reader takes from a payload that is as announced. *)
LEMMA PayloadTyped ==
    ASSUME NEW h, NEW p \in Seq(UnitSet), PayloadOK(h, p)
    PROVE  PayloadEntries(h, p) \in Seq(EntrySet)
<1>1. Len(p) \in Nat /\ \A i \in 1 .. Len(p) : p[i] \in UnitSet
  OBVIOUS
<1>2. CASE h.tag \in BatchTags
  <2>1. p # <<>> /\ \A i \in 2 .. Len(p) : p[i].u = "entry"
    BY <1>2 DEF PayloadOK
  <2>2. Len(p) - 1 \in Nat
    BY <1>1, <2>1
  <2>3. \A i \in 1 .. Len(p) - 1 : i + 1 \in 2 .. Len(p) /\ i + 1 \in 1 .. Len(p)
    BY <1>1
  <2>4. \A i \in 1 .. Len(p) - 1 : p[i + 1].e \in EntrySet
    BY <1>1, <2>1, <2>3, UnitFacts
  <2>5. PayloadEntries(h, p) = [i \in 1 .. Len(p) - 1 |-> p[i + 1].e]
    BY <1>2, TagFacts DEF PayloadEntries
  <2> DEFINE E == EntrySet
  <2>6. [i \in 1 .. Len(p) - 1 |-> p[i + 1].e] \in Seq(E)
    <3> HIDE DEF E
    <3> QED
      BY <2>2, <2>4 DEF E
  <2> QED
    BY <2>5, <2>6
<1>3. CASE h.tag \notin BatchTags /\ h.tag \in ItemTags \cap ReadTags
  <2>1. Len(p) = 1 /\ p[1].u = "entry"
    BY <1>3, TagFacts DEF PayloadOK
  <2>2. p[1].e \in EntrySet
    BY <1>1, <2>1, UnitFacts
  <2>3. PayloadEntries(h, p) = <<p[1].e>>
    BY <1>3 DEF PayloadEntries
  <2> QED
    BY <2>2, <2>3
<1>4. CASE h.tag \notin BatchTags /\ h.tag \notin ItemTags \cap ReadTags
  BY <1>4 DEF PayloadEntries
<1> QED
  BY <1>2, <1>3, <1>4

LEMMA ReaderTyped ==
    ASSUME NEW G \in Seq(UnitSet)
    PROVE  \A i \in 1 .. Len(G) + 1 : Reader(G)[i].entries \in Seq(EntrySet)
<1> DEFINE g == Reader(G)
           Bad == {i \in 1 .. Len(G) + 1 : g[i].entries \notin Seq(EntrySet)}
<1>1. Len(G) \in Nat
  OBVIOUS
<1>2. ASSUME NEW i \in 1 .. Len(G) + 1,
             \A j \in 1 .. Len(G) + 1 : i < j => g[j].entries \in Seq(EntrySet)
      PROVE  g[i].entries \in Seq(EntrySet)
  <2> DEFINE end == i + G[i].len
             payload == SubSeq(G, i + 1, end)
  <2>1. g[i] = Body(G, g, i)
    BY ReaderStep
  <2>2. Empty.entries \in Seq(EntrySet) /\ Garbled.entries \in Seq(EntrySet)
    BY DEF Empty, Garbled
  <2>3. CASE i > Len(G) \/ G[i].u # "tlv" \/ end > Len(G) \/ ~PayloadOK(G[i], payload)
    <3>1. g[i] = Empty \/ g[i] = Garbled
      <4> HIDE DEF g
      <4> QED
        BY <2>1, <2>3 DEF Body
    <3> QED
      BY <2>2, <3>1
  <2>4. CASE ~(i > Len(G)) /\ G[i].u = "tlv" /\ ~(end > Len(G)) /\ PayloadOK(G[i], payload)
    <3>1. g[i].entries = PayloadEntries(G[i], payload) \o g[end + 1].entries
      <4> HIDE DEF g
      <4> DEFINE es == PayloadEntries(G[i], payload) \o g[end + 1].entries
                 ft == IF G[i].tag = "Footer" /\ g[end + 1].footer = NoFooter
                       THEN payload ELSE g[end + 1].footer
                 gb == g[end + 1].garbled
      <4>1. g[i] = [entries |-> es, footer |-> ft, garbled |-> gb, err |-> FALSE]
        BY <2>1, <2>4 DEF Body
      <4>2. g[i].entries = es
        <5> HIDE DEF es, ft, gb
        <5> QED
          BY <4>1
      <4> QED
        BY <4>2
    <3>2. G[i] \in UnitSet
      BY <1>1, <2>4
    <3>3. G[i].len \in Nat
      BY <2>4, <3>2, UnitFacts
    <3>4. end + 1 \in 1 .. Len(G) + 1 /\ i < end + 1 /\ i + 1 \in Int /\ end \in Int
      BY <1>1, <2>4, <3>3
    <3>5. payload \in Seq(UnitSet)
      <4>1. \A j \in i + 1 .. end : G[j] \in UnitSet
        BY <1>1, <3>4
      <4> HIDE DEF end
      <4> QED
        BY <3>4, <4>1, SubSeqProperties
    <3>6. PayloadEntries(G[i], payload) \in Seq(EntrySet)
      <4> HIDE DEF payload
      <4> QED
        BY <2>4, <3>5, PayloadTyped
    <3>7. g[end + 1].entries \in Seq(EntrySet)
      BY <1>2, <3>4
    <3> HIDE DEF g, end, payload
    <3> QED
      BY <3>1, <3>6, <3>7, ConcatProperties
  <2> QED
    BY <2>3, <2>4
<1>3. Bad = {}
  <2> SUFFICES ASSUME Bad # {} PROVE FALSE
    OBVIOUS
  <2>1. Bad \subseteq 1 .. Len(G) + 1 /\ Bad \subseteq Nat
    BY <1>1
  <2>2. IsFiniteSet(Bad)
    <3>1. 1 \in Int /\ Len(G) + 1 \in Int
      BY <1>1
    <3>2. IsFiniteSet(1 .. Len(G) + 1)
      BY ONLY <3>1, FS_Interval
    <3> HIDE DEF Bad
    <3> QED
      BY <2>1, <3>2, FS_Subset
  <2>3. PICK i \in Bad : \A j \in Bad : i >= j
    <3> HIDE DEF Bad
    <3> QED
      BY <2>1, <2>2, LargestExists
  <2>4. i \in 1 .. Len(G) + 1 /\ g[i].entries \notin Seq(EntrySet)
    BY <2>3
  <2>5. ASSUME NEW j \in 1 .. Len(G) + 1, i < j PROVE g[j].entries \in Seq(EntrySet)
    <3>1. ~(i >= j)
      BY <2>4, <2>5
    <3> QED
      BY <2>3, <3>1
  <2> HIDE DEF g, Bad
  <2> QED
    BY <1>2, <2>4, <2>5
<1> QED
  BY <1>3

Begins(F, G) == Len(F) <= Len(G) /\ \A i \in 1 .. Len(F) : F[i] = G[i]

(* A file cut off from a clean stream: whole entries, in order, from the first. *)
LEMMA CutOffRead ==
    ASSUME NEW F \in Seq(UnitSet), NEW G \in Seq(UnitSet), NEW L \in Seq(EntrySet), NEW cut,
           Clean(F, L, cut), G # <<>>, Begins(G, F)
    PROVE  /\ ~Parse(G).garbled
           /\ \E c \in 0 .. Len(L) : Parse(G).entries = Slice(L, 0, c)
<1> DEFINE m == Len(G)
           g == Reader(G)
           K == {i \in DOMAIN cut : i <= m + 1}
<1>0. Len(G) <= Len(F) /\ \A i \in 1 .. Len(G) : F[i] = G[i]
  BY DEF Begins
<1>1. Len(F) \in Nat /\ m \in Nat /\ m >= 1 /\ Len(L) \in Nat
  OBVIOUS
<1>2. /\ DOMAIN cut \subseteq 2 .. Len(F) + 1 /\ 2 \in DOMAIN cut /\ cut[2] = 0
      /\ \A i \in DOMAIN cut : cut[i] \in 0 .. Len(L)
  BY DEF Clean
<1>3. PICK k \in K : \A j \in K : k >= j
  <2>1. K \subseteq 2 .. Len(F) + 1 /\ K \subseteq Nat /\ K # {}
    BY <1>1, <1>2
  <2>2. IsFiniteSet(K)
    <3>1. 2 \in Int /\ Len(F) + 1 \in Int
      BY <1>1
    <3>2. IsFiniteSet(2 .. Len(F) + 1)
      BY ONLY <3>1, FS_Interval
    <3> HIDE DEF K
    <3> QED
      BY <2>1, <3>2, FS_Subset
  <2> HIDE DEF K
  <2> QED
    BY <2>1, <2>2, LargestExists
<1>4. k \in DOMAIN cut /\ k <= m + 1 /\ k \in Nat /\ 2 <= k
  BY <1>1, <1>2, <1>3
<1>5. k \in 1 .. m + 1
  BY <1>1, <1>4
<1>6. g[k] = Body(G, g, k)
  BY <1>5, ReaderStep
<1>7. g[k] = Empty
  <2>1. CASE k > m
    <3> HIDE DEF g
    <3> QED
      BY <1>6, <2>1 DEF Body
  <2>2. CASE ~(k > m)
    <3>1. k <= Len(F) /\ k \in 1 .. m
      BY <1>0, <1>1, <1>4, <2>2
    <3>2. F[k].u = "tlv" /\ After(F, k) \in DOMAIN cut /\ G[k] = F[k]
      BY <1>0, <1>4, <3>1 DEF Clean
    <3>3. F[k].len \in Nat
      BY <3>1, <3>2, UnitFacts
    <3>4. After(F, k) > k
      BY <1>4, <3>3 DEF After
    <3>5. After(F, k) > m + 1
      <4>1. After(F, k) \notin K
        BY <1>1, <1>2, <1>3, <1>4, <3>2, <3>4
      <4> QED
        BY <1>1, <1>2, <3>2, <4>1
    <3>6. k + G[k].len > Len(G)
      BY <1>1, <1>4, <3>2, <3>3, <3>5 DEF After
    <3> HIDE DEF g
    <3> QED
      BY <1>6, <2>2, <3>2, <3>6 DEF Body
  <2> QED
    BY <2>1, <2>2
<1>8. g[k].entries = <<>> /\ g[k].garbled = FALSE /\ g[k].entries \in Seq(EntrySet)
  <2> HIDE DEF g
  <2> QED
    BY <1>7 DEF Empty
<1>9. Agree(F, G, k)
  BY <1>0, <1>1, <1>4 DEF Agree
<1>10. ReadUpTo(G, L, cut, k)
  BY <1>4, <1>8, <1>9, CleanRead
<1>11. g[2].entries = Slice(L, 0, cut[k]) \o <<>> /\ g[2].garbled = FALSE
  BY <1>2, <1>4, <1>8, <1>10 DEF ReadUpTo
<1>12. Slice(L, 0, cut[k]) \in Seq(EntrySet)
  BY <1>1, <1>2, <1>4 DEF Slice
<1>13. Slice(L, 0, cut[k]) \o <<>> = Slice(L, 0, cut[k])
  BY <1>12, ConcatEmptySeq
<1>14. Parse(G) = g[2]
  BY ParseReads
<1> HIDE DEF g, m, K
<1> QED
  BY <1>2, <1>4, <1>11, <1>13, <1>14

(* Whatever follows a clean stream, its entries are read first. *)
ReadsFirst(G, L, c) == \E Z \in Seq(EntrySet) : Parse(G).entries = Slice(L, 0, c) \o Z

LEMMA ExtendedRead ==
    ASSUME NEW F \in Seq(UnitSet), NEW G \in Seq(UnitSet), NEW L \in Seq(EntrySet), NEW cut,
           Clean(F, L, cut), F # <<>>, Begins(F, G)
    PROVE  ReadsFirst(G, L, cut[Len(F) + 1])
<1> DEFINE m == Len(F)
           k == m + 1
<1>0. Len(F) <= Len(G) /\ \A i \in 1 .. Len(F) : F[i] = G[i]
  BY DEF Begins
<1>1. m \in Nat /\ Len(G) \in Nat /\ m >= 1 /\ m \in 0 .. Len(F) /\ m <= Len(G) /\ k <= m + 1
  BY <1>0
<1>2. k \in DOMAIN cut /\ 2 \in DOMAIN cut /\ cut[2] = 0 /\ 2 <= k
  BY <1>1 DEF Clean
<1>3. Reader(G)[k].entries \in Seq(EntrySet)
  BY <1>1, ReaderTyped
<1>4. Agree(F, G, k)
  BY <1>0, <1>1 DEF Agree
<1>5. G # <<>>
  BY <1>1
<1> HIDE DEF m, k
<1>6. Reader(G)[2].entries = Slice(L, cut[2], cut[k]) \o Reader(G)[k].entries
  <2>1. ReadUpTo(G, L, cut, k)
    BY <1>2, <1>3, <1>4, CleanRead
  <2> QED
    BY <1>2, <2>1 DEF ReadUpTo
<1>7. Parse(G) = Reader(G)[2]
  BY <1>5, ParseReads
<1> QED
  BY <1>2, <1>3, <1>6, <1>7 DEF k, m, ReadsFirst
-----------------------------------------------------------------------------
(* How clean streams come about: the file header, ... *)
LEMMA CleanHeader ==
    ASSUME NEW L \in Seq(EntrySet)
    PROVE  \E cut : Clean(<<FileHeader>>, L, cut) /\ cut[2] = 0
<1> DEFINE cut == [i \in {2} |-> 0]
           F == <<FileHeader>>
<1>1. Len(F) = 1 /\ Len(L) \in Nat
  OBVIOUS
<1>2. DOMAIN cut = {2} /\ cut[2] = 0
  OBVIOUS
<1> HIDE DEF cut, F
<1>3. Clean(F, L, cut)
  BY <1>1, <1>2 DEF Clean
<1> QED
  BY <1>2, <1>3 DEF F

(* ... the log goes on, ... *)
LEMMA SliceOfLonger ==
    ASSUME NEW L \in Seq(EntrySet), NEW M \in Seq(EntrySet), NEW x \in 0 .. Len(L), NEW y \in 0 .. Len(L)
    PROVE  Slice(L \o M, x, y) = Slice(L, x, y)
<1> DEFINE a == x + 1
           N == L \o M
<1>1. Len(L) \in Nat /\ Len(M) \in Nat /\ a \in Int /\ y \in Int
  OBVIOUS
<1>2. \A j \in a .. y : j \in 1 .. Len(L)
  BY <1>1
<1>3. \A j \in 1 .. Len(L) : L[j] \in EntrySet /\ L[j] = N[j]
  BY <1>1
<1> HIDE DEF a, N
<1>4. \A j \in a .. y : L[j] \in EntrySet /\ L[j] = N[j]
  BY <1>2, <1>3
<1>5. a \in Int /\ y \in Int
  BY <1>1
<1>6. SubSeq(L, a, y) = SubSeq(N, a, y)
  BY ONLY <1>4, <1>5, SameSubSeq
<1> QED
  BY <1>6 DEF Slice, a, N

LEMMA CleanLonger ==
    ASSUME NEW F, NEW L \in Seq(EntrySet), NEW M \in Seq(EntrySet), NEW cut, Clean(F, L, cut)
    PROVE  Clean(F, L \o M, cut)
<1>1. Len(L) \in Nat /\ Len(L \o M) \in Nat /\ Len(L) <= Len(L \o M)
  OBVIOUS
<1>2. \A i \in DOMAIN cut : cut[i] \in 0 .. Len(L)
  BY DEF Clean
<1>3. \A i \in DOMAIN cut : cut[i] \in 0 .. Len(L \o M)
  BY <1>1, <1>2
<1>4. \A i \in DOMAIN cut : i <= Len(F) =>
         Slice(L \o M, cut[i], cut[After(F, i)]) = Slice(L, cut[i], cut[After(F, i)])
  <2> SUFFICES ASSUME NEW i \in DOMAIN cut, i <= Len(F)
               PROVE  Slice(L \o M, cut[i], cut[After(F, i)]) = Slice(L, cut[i], cut[After(F, i)])
    OBVIOUS
  <2>1. After(F, i) \in DOMAIN cut
    BY DEF Clean
  <2> QED
    BY <1>2, <2>1, SliceOfLonger
<1> QED
  BY <1>3, <1>4 DEF Clean

(* ... and a record is written. *)
IsRecord(r) ==
    /\ r \in Seq(UnitSet) /\ Len(r) >= 1 /\ r[1].u = "tlv" /\ r[1].len = Len(r) - 1
    /\ PayloadOK(r[1], SubSeq(r, 2, Len(r)))
RecordEntries(r) == PayloadEntries(r[1], SubSeq(r, 2, Len(r)))

LEMMA CleanAppend ==
    ASSUME NEW F \in Seq(UnitSet), NEW L \in Seq(EntrySet), NEW cut, Clean(F, L, cut),
           NEW r, IsRecord(r), NEW c \in 0 .. Len(L), cut[Len(F) + 1] <= c,
           RecordEntries(r) = Slice(L, cut[Len(F) + 1], c)
    PROVE  \E new : /\ Clean(F \o r, L, new)
                    /\ new[Len(F) + Len(r) + 1] = c
                    /\ Len(F) + 1 \in DOMAIN new /\ new[Len(F) + 1] = cut[Len(F) + 1]
<1> DEFINE n == Len(F)
           l == Len(r)
           H == F \o r
           new == [i \in DOMAIN cut \cup {n + l + 1} |-> IF i = n + l + 1 THEN c ELSE cut[i]]
<1>1. n \in Nat /\ l \in Nat /\ l >= 1 /\ Len(L) \in Nat /\ r \in Seq(UnitSet)
  BY DEF IsRecord
<1>2. /\ H \in Seq(UnitSet) /\ Len(H) = n + l /\ Len(H) \in Nat
      /\ \A i \in 1 .. n : H[i] = F[i]
      /\ \A i \in 1 .. l : H[n + i] = r[i]
  BY <1>1
<1>3. /\ DOMAIN cut \subseteq 2 .. n + 1 /\ 2 \in DOMAIN cut /\ n + 1 \in DOMAIN cut /\ cut[2] = 0
      /\ \A i \in DOMAIN cut : cut[i] \in 0 .. Len(L)
  BY DEF Clean
<1>4. /\ DOMAIN new = DOMAIN cut \cup {n + l + 1} /\ new[n + l + 1] = c
      /\ \A i \in DOMAIN cut : new[i] = cut[i]
  BY <1>1, <1>3
<1>5. \A i \in DOMAIN cut : i \in Nat /\ 2 <= i /\ i <= n + 1
  BY <1>1, <1>3
<1> HIDE DEF new, H, n, l
<1>6. ASSUME NEW i \in DOMAIN cut, i <= n
      PROVE  /\ H[i].u = "tlv" /\ After(H, i) = After(F, i)
             /\ After(H, i) \in DOMAIN cut /\ cut[i] <= cut[After(H, i)] /\ After(H, i) <= n + 1
             /\ \A j \in DOMAIN cut : j <= i \/ j >= After(H, i)
             /\ PayloadOK(H[i], Payload(H, i))
             /\ PayloadEntries(H[i], Payload(H, i)) = Slice(L, cut[i], cut[After(H, i)])
  <2>1. i \in 1 .. n /\ H[i] = F[i] /\ F[i] \in UnitSet
    BY <1>1, <1>2, <1>5, <1>6 DEF n
  <2>2. After(H, i) = After(F, i)
    BY <2>1 DEF After
  <2>3. /\ F[i].u = "tlv" /\ After(F, i) \in DOMAIN cut /\ cut[i] <= cut[After(F, i)]
        /\ \A j \in DOMAIN cut : j <= i \/ j >= After(F, i)
        /\ PayloadOK(F[i], Payload(F, i))
        /\ PayloadEntries(F[i], Payload(F, i)) = Slice(L, cut[i], cut[After(F, i)])
    BY <1>6 DEF Clean, n
  <2>4. Payload(H, i) = Payload(F, i)
    <3> DEFINE a == i + 1
               b == i + F[i].len
    <3>1. F[i].len \in Nat
      BY <2>1, <2>3, UnitFacts
    <3>2. a \in Int /\ b \in Int /\ 1 <= a /\ b <= n
      <4>1. After(F, i) = b + 1
        BY DEF After
      <4>2. After(F, i) <= n + 1
        BY <1>5, <2>3
      <4>3. i \in Nat /\ b \in Nat
        BY <2>1, <3>1
      <4> HIDE DEF b
      <4> QED
        BY <1>1, <4>1, <4>2, <4>3
    <3> HIDE DEF a, b
    <3>3. \A j \in a .. b : j \in 1 .. n
      BY <1>1, <3>2
    <3>4. \A j \in a .. b : F[j] \in UnitSet /\ F[j] = H[j]
      BY <1>1, <1>2, <3>3 DEF n
    <3>5. SubSeq(F, a, b) = SubSeq(H, a, b)
      BY ONLY <3>2, <3>4, SameSubSeq
    <3> QED
      BY <2>1, <3>5 DEF Payload, a, b
  <2> QED
    BY <1>5, <2>1, <2>2, <2>3, <2>4
<1>7. /\ H[n + 1] = r[1] /\ H[n + 1].u = "tlv" /\ After(H, n + 1) = n + l + 1
      /\ PayloadOK(H[n + 1], Payload(H, n + 1))
      /\ PayloadEntries(H[n + 1], Payload(H, n + 1)) = Slice(L, cut[n + 1], c)
  <2>1. H[n + 1] = r[1]
    BY <1>1, <1>2
  <2>2. r[1].u = "tlv" /\ r[1].len = l - 1 /\ PayloadOK(r[1], SubSeq(r, 2, l))
    BY DEF IsRecord, l
  <2>3. After(H, n + 1) = n + l + 1
    BY <1>1, <2>1, <2>2 DEF After
  <2>4. Payload(H, n + 1) = SubSeq(r, 2, l)
    <3> DEFINE a == n + 2
               b == n + l
               s == SubSeq(H, a, b)
               t == SubSeq(r, 2, l)
    <3>1. Payload(H, n + 1) = s
      <4>1. n + 1 + 1 = a /\ n + 1 + r[1].len = b
        BY <1>1, <2>2
      <4> QED
        BY <2>1, <4>1 DEF Payload
    <3>2. a \in Int /\ b \in Int /\ 2 \in Int /\ l \in Int
      BY <1>1
    <3>3. b - a + 1 = l - 1 /\ (a <= b <=> 2 <= l) /\ \A j \in 1 .. l - 1 : a + j - 1 = n + (j + 1)
      BY <1>1
    <3>4. \A j \in a .. b : H[j] \in UnitSet
      <4>1. \A j \in a .. b : j \in 1 .. Len(H)
        BY <1>1, <1>2
      <4>2. \A j \in 1 .. Len(H) : H[j] \in UnitSet
        BY <1>2
      <4> QED
        BY <4>1, <4>2
    <3>5. \A j \in 2 .. l : r[j] \in UnitSet
      BY <1>1 DEF l
    <3> HIDE DEF a, b
    <3>6. /\ s \in Seq(UnitSet) /\ Len(s) = (IF a <= b THEN b - a + 1 ELSE 0)
          /\ \A j \in 1 .. b - a + 1 : s[j] = H[a + j - 1]
      BY ONLY <3>2, <3>4, SubSeqProperties
    <3>7. /\ t \in Seq(UnitSet) /\ Len(t) = (IF 2 <= l THEN l - 2 + 1 ELSE 0)
          /\ \A j \in 1 .. l - 2 + 1 : t[j] = r[2 + j - 1]
      BY ONLY <3>2, <3>5, SubSeqProperties
    <3> HIDE DEF s, t
    <3>8. Len(s) = l - 1 /\ Len(t) = l - 1 /\ \A j \in 1 .. l - 1 : s[j] = t[j]
      <4>1. Len(s) = l - 1 /\ Len(t) = l - 1
        BY <1>1, <3>2, <3>3, <3>6, <3>7
      <4> SUFFICES ASSUME NEW j \in 1 .. l - 1 PROVE s[j] = t[j]
        BY <4>1
      <4>2. j + 1 \in 1 .. l /\ 2 + j - 1 = j + 1 /\ l - 2 + 1 = l - 1
        BY <1>1
      <4>3. s[j] = H[n + (j + 1)] /\ t[j] = r[j + 1]
        BY <3>3, <3>6, <3>7, <4>2
      <4> QED
        BY <1>2, <4>2, <4>3
    <3>9. s = t
      BY <3>6, <3>7, <3>8, SeqEqual
    <3> QED
      BY <3>1, <3>9 DEF t
  <2> QED
    BY <2>1, <2>2, <2>3, <2>4 DEF RecordEntries, l, n
<1>8. Clean(H, L, new)
  <2>1. DOMAIN new \subseteq 2 .. Len(H) + 1 /\ 2 \in DOMAIN new /\ Len(H) + 1 \in DOMAIN new
    BY <1>1, <1>2, <1>4, <1>5, <1>3
  <2>2. new[2] = 0 /\ \A i \in DOMAIN new : new[i] \in 0 .. Len(L)
    BY <1>3, <1>4
  <2>3. ASSUME NEW i \in DOMAIN new, i <= Len(H)
        PROVE  /\ H[i].u = "tlv"
               /\ After(H, i) \in DOMAIN new /\ new[i] <= new[After(H, i)]
               /\ \A j \in DOMAIN new : j <= i \/ j >= After(H, i)
               /\ PayloadOK(H[i], Payload(H, i))
               /\ PayloadEntries(H[i], Payload(H, i)) = Slice(L, new[i], new[After(H, i)])
    <3>1. i \in DOMAIN cut /\ (i <= n \/ i = n + 1)
      BY <1>1, <1>2, <1>4, <1>5, <2>3
    <3>2. CASE i <= n
      <4>1. /\ After(H, i) \in DOMAIN cut /\ After(H, i) <= n + 1 /\ After(H, i) \in Nat
            /\ \A j \in DOMAIN cut : j <= i \/ j >= After(H, i)
        BY <1>5, <1>6, <3>1, <3>2
      <4>2. n + l + 1 >= After(H, i)
        BY <1>1, <4>1
      <4> QED
        BY <1>4, <1>6, <3>1, <3>2, <4>1, <4>2
    <3>3. CASE i = n + 1
      <4>1. \A j \in DOMAIN cut : j <= i
        BY <1>5, <3>3
      <4>2. n + l + 1 >= After(H, i)
        BY <1>1, <1>7, <3>3
      <4>3. new[i] = cut[n + 1] /\ new[After(H, i)] = c /\ cut[n + 1] <= c
        BY <1>3, <1>4, <1>7, <3>3 DEF n
      <4> QED
        BY <1>4, <1>7, <3>3, <4>1, <4>2, <4>3
    <3> QED
      BY <3>1, <3>2, <3>3
  <2> QED
    BY <2>1, <2>2, <2>3 DEF Clean
<1> QED
  BY <1>3, <1>4, <1>8 DEF H, n, l
-----------------------------------------------------------------------------
(* What the writer writes is typed. *)
LEMMA UnitsTyped ==
    /\ FileHeader \in UnitSet /\ MarkUnit \in UnitSet
    /\ \A t \in Kinds, n \in Nat : TlvHeader(t, n) \in UnitSet
    /\ \A n \in Nat : CountUnit(n) \in UnitSet
    /\ \A e \in EntrySet, n \in Nat : EntryUnit(e, n) \in UnitSet
    /\ \A n \in Nat, m \in Nat : FooterUnit(n, m) \in UnitSet
  BY DEF UnitSet, FileHeader, MarkUnit, TlvHeader, CountUnit, EntryUnit, FooterUnit

LEMMA UnitFields ==
    /\ FileHeader.u = "file" /\ MarkUnit.u = "mark"
    /\ \A t, n : TlvHeader(t, n).u = "tlv" /\ TlvHeader(t, n).tag = t /\ TlvHeader(t, n).len = n
    /\ \A n : CountUnit(n).u = "count"
    /\ \A e, n : EntryUnit(e, n).u = "entry" /\ EntryUnit(e, n).e = e /\ EntryUnit(e, n).closes = n
    /\ \A n, m : FooterUnit(n, m).u = "footer"
  BY DEF FileHeader, MarkUnit, TlvHeader, CountUnit, EntryUnit, FooterUnit

(* The entries of a record are of one kind, and only its last unit closes it. *)
Uniform(r, t) ==
    \A i \in 1 .. Len(r) : r[i].u = "entry" =>
        r[i].e.tag = t /\ (i < Len(r) => r[i].closes = 0)

(* The payload of a record of two units, and of one of more. *)
LEMMA PayloadOfPair ==
    ASSUME NEW x \in UnitSet, NEW y \in UnitSet
    PROVE  SubSeq(<<x, y>>, 2, Len(<<x, y>>)) = <<y>>
<1> DEFINE r == <<x, y>>
           s == SubSeq(r, 2, 2)
<1>1. r \in Seq(UnitSet) /\ Len(r) = 2 /\ r[2] = y
  <2> HIDE DEF UnitSet
  <2> QED
    OBVIOUS
<1> HIDE DEF r
<1>2. 2 \in 1 .. Len(r) /\ 2 \in 2 .. Len(r)
  BY <1>1
<1>3. SubSeq(r, 2, 2) = <<r[2]>> \o SubSeq(r, 2 + 1, 2)
  BY ONLY <1>1, <1>2, SubSeqRecursiveFirst
<1>4. SubSeq(r, 2 + 1, 2) = <<>>
  BY SubSeqEmpty
<1>5. <<y>> \o <<>> = <<y>>
  OBVIOUS
<1> QED
  BY <1>1, <1>3, <1>4, <1>5 DEF r

LEMMA ItemRecordFacts ==
    ASSUME NEW e \in EntrySet, e.tag \in ItemTags
    PROVE  /\ IsRecord(ItemRecord(e)) /\ Uniform(ItemRecord(e), e.tag)
           /\ RecordEntries(ItemRecord(e)) = IF e.tag \in ReadTags THEN <<e>> ELSE <<>>
<1> DEFINE h == TlvHeader(e.tag, 1)
           y == EntryUnit(e, 0)
           r == <<h, y>>
<1>0. 1 \in Nat /\ 0 \in Nat
  OBVIOUS
<1>1. e.tag \in Kinds
  BY DEF EntrySet
<1>2. h \in UnitSet /\ y \in UnitSet
  BY <1>0, <1>1, UnitsTyped
<1>3. h.u = "tlv" /\ h.tag = e.tag /\ h.len = 1 /\ y.u = "entry" /\ y.e = e /\ y.closes = 0
  BY UnitFields
<1>4. r = ItemRecord(e)
  BY DEF ItemRecord
<1> HIDE DEF h, y
<1>5. SubSeq(r, 2, Len(r)) = <<y>>
  BY ONLY <1>2, PayloadOfPair
<1>6. r \in Seq(UnitSet) /\ Len(r) = 2 /\ r[1] = h /\ r[2] = y
  <2> HIDE DEF UnitSet
  <2> QED
    BY <1>2
<1> DEFINE p == <<y>>
<1>7. Len(p) = 1 /\ p[1] = y
  OBVIOUS
<1> HIDE DEF r, p
<1>8. e.tag \notin BatchTags /\ e.tag # "Footer"
  BY TagFacts
<1>9. PayloadOK(h, p) /\ PayloadEntries(h, p) = IF e.tag \in ReadTags THEN <<e>> ELSE <<>>
  BY <1>3, <1>7, <1>8 DEF PayloadOK, PayloadEntries
<1>10. IsRecord(r) /\ RecordEntries(r) = IF e.tag \in ReadTags THEN <<e>> ELSE <<>>
  <2>1. Len(r) >= 1 /\ h.len = Len(r) - 1 /\ SubSeq(r, 2, Len(r)) = p
    BY <1>3, <1>5, <1>6 DEF p
  <2> QED
    BY <1>3, <1>6, <1>9, <2>1 DEF IsRecord, RecordEntries
<1>11. Uniform(r, e.tag)
  BY <1>3, <1>6 DEF Uniform
<1> QED
  BY <1>4, <1>10, <1>11

LEMMA MarkerRecordFacts ==
    /\ IsRecord(MarkerRecord) /\ Uniform(MarkerRecord, "FlushMarker")
    /\ RecordEntries(MarkerRecord) = <<>>
<1>1. "FlushMarker" \in Kinds
  BY DEF Kinds
<1>0. 1 \in Nat
  OBVIOUS
<1> DEFINE h == TlvHeader("FlushMarker", 1)
           y == MarkUnit
           r == <<h, y>>
<1>2. h \in UnitSet /\ y \in UnitSet
  BY <1>0, <1>1, UnitsTyped
<1>3. h.u = "tlv" /\ h.tag = "FlushMarker" /\ h.len = 1 /\ y.u = "mark"
  BY UnitFields
<1>4. r = MarkerRecord
  BY DEF MarkerRecord
<1> HIDE DEF h, y
<1>5. SubSeq(r, 2, Len(r)) = <<y>>
  BY ONLY <1>2, PayloadOfPair
<1>6. r \in Seq(UnitSet) /\ Len(r) = 2 /\ r[1] = h /\ r[2] = y
  <2> HIDE DEF UnitSet
  <2> QED
    BY <1>2
<1> HIDE DEF r
<1>8. h.tag \notin BatchTags /\ h.tag # "Footer" /\ h.tag \notin ItemTags
  BY <1>3 DEF BatchTags, ItemTags
<1>9. PayloadOK(h, <<y>>) /\ PayloadEntries(h, <<y>>) = <<>>
  BY <1>8 DEF PayloadOK, PayloadEntries
<1>10. IsRecord(r) /\ RecordEntries(r) = <<>>
  <2>1. Len(r) >= 1 /\ h.len = Len(r) - 1
    BY <1>3, <1>6
  <2> QED
    BY <1>3, <1>5, <1>6, <1>9, <2>1 DEF IsRecord, RecordEntries
<1>11. Uniform(r, "FlushMarker")
  BY <1>3, <1>6 DEF Uniform
<1> QED
  BY <1>4, <1>10, <1>11

LEMMA FooterRecordFacts ==
    ASSUME NEW tb \in Nat, NEW edge \in Nat
    PROVE  /\ IsRecord(FooterRecord(tb, edge)) /\ Uniform(FooterRecord(tb, edge), "Footer")
           /\ RecordEntries(FooterRecord(tb, edge)) = <<>>
           /\ Len(FooterRecord(tb, edge)) = 2
           /\ FooterRecord(tb, edge)[1].tag = "Footer"
           /\ SubSeq(FooterRecord(tb, edge), 2, 2) = <<FooterUnit(tb, edge)>>
<1>1. "Footer" \in Kinds
  BY DEF Kinds
<1>0. 1 \in Nat
  OBVIOUS
<1> DEFINE h == TlvHeader("Footer", 1)
           y == FooterUnit(tb, edge)
           r == <<h, y>>
<1>2. h \in UnitSet /\ y \in UnitSet
  BY <1>0, <1>1, UnitsTyped
<1>3. h.u = "tlv" /\ h.tag = "Footer" /\ h.len = 1 /\ y.u = "footer"
  BY UnitFields
<1>4. r = FooterRecord(tb, edge)
  BY DEF FooterRecord
<1> HIDE DEF h, y
<1>5. SubSeq(r, 2, Len(r)) = <<y>>
  BY ONLY <1>2, PayloadOfPair
<1>6. r \in Seq(UnitSet) /\ Len(r) = 2 /\ r[1] = h /\ r[2] = y
  <2> HIDE DEF UnitSet
  <2> QED
    BY <1>2
<1> HIDE DEF r
<1>8. h.tag \notin BatchTags /\ h.tag = "Footer" /\ h.tag \notin ItemTags
  BY <1>3 DEF BatchTags, ItemTags
<1>7. Len(<<y>>) = 1 /\ <<y>>[1] = y
  OBVIOUS
<1>9. PayloadOK(h, <<y>>) /\ PayloadEntries(h, <<y>>) = <<>>
  BY <1>3, <1>7, <1>8 DEF PayloadOK, PayloadEntries
<1>10. IsRecord(r) /\ RecordEntries(r) = <<>>
  <2>1. Len(r) >= 1 /\ h.len = Len(r) - 1
    BY <1>3, <1>6
  <2> QED
    BY <1>3, <1>5, <1>6, <1>9, <2>1 DEF IsRecord, RecordEntries
<1>11. Uniform(r, "Footer")
  BY <1>3, <1>6 DEF Uniform
<1> QED
  BY <1>3, <1>4, <1>5, <1>6, <1>10, <1>11 DEF y

LEMMA BatchRecordFacts ==
    ASSUME NEW t \in BatchTags, NEW ch \in Seq(EntrySet), ch # <<>>,
           \A i \in 1 .. Len(ch) : ch[i].tag = t
    PROVE  /\ IsRecord(BatchRecord(t, ch)) /\ Uniform(BatchRecord(t, ch), t)
           /\ RecordEntries(BatchRecord(t, ch)) = ch
           /\ BatchRecord(t, ch)[Len(BatchRecord(t, ch))].u = "entry"
           /\ BatchRecord(t, ch)[Len(BatchRecord(t, ch))].closes = Len(ch)
<1> DEFINE n == Len(ch)
           h == TlvHeader(t, 1 + n)
           c == CountUnit(n)
           closing(i) == IF i = n THEN n ELSE 0
           es == [i \in 1 .. n |-> EntryUnit(ch[i], closing(i))]
           hd == <<h, c>>
           r == hd \o es
<1>1. n \in Nat /\ n >= 1
  OBVIOUS
<1>2. h \in UnitSet /\ c \in UnitSet
  <2>1. t \in Kinds
    BY DEF Kinds
  <2>2. 1 + n \in Nat
    BY <1>1
  <2> HIDE DEF n
  <2> QED
    BY <1>1, <2>1, <2>2, UnitsTyped
<1>3. h.u = "tlv" /\ h.tag = t /\ h.len = 1 + n /\ c.u = "count"
  BY UnitFields
<1>4. r = BatchRecord(t, ch)
  BY DEF BatchRecord
<1>5. \A i \in 1 .. n : ch[i] \in EntrySet /\ closing(i) \in Nat
  BY <1>1
<1>6. \A i \in 1 .. n : EntryUnit(ch[i], closing(i)) \in UnitSet
  <2> HIDE DEF closing, n
  <2> QED
    BY <1>5, UnitsTyped
<1>7. /\ es \in Seq(UnitSet) /\ Len(es) = n
      /\ \A i \in 1 .. n : es[i] = EntryUnit(ch[i], closing(i))
  <2> DEFINE U == UnitSet
  <2>1. \A i \in 1 .. n : EntryUnit(ch[i], closing(i)) \in U
    BY <1>6
  <2> HIDE DEF U, closing, n
  <2>2. es \in Seq(U) /\ Len(es) = n
    BY <1>1, <2>1
  <2> QED
    BY <2>2 DEF U
<1>8. hd \in Seq(UnitSet) /\ Len(hd) = 2 /\ hd[1] = h /\ hd[2] = c
  <2> HIDE DEF h, c, UnitSet
  <2> QED
    BY <1>2
<1> HIDE DEF hd, es
<1>9. /\ r \in Seq(UnitSet) /\ Len(r) = 2 + n
      /\ \A i \in 1 .. 2 + n : r[i] = IF i <= 2 THEN hd[i] ELSE es[i - 2]
  <2>1. /\ hd \o es \in Seq(UnitSet) /\ Len(hd \o es) = Len(hd) + Len(es)
        /\ \A i \in 1 .. Len(hd) + Len(es) :
              (hd \o es)[i] = IF i <= Len(hd) THEN hd[i] ELSE es[i - Len(hd)]
    <3>1. hd \in Seq(UnitSet) /\ es \in Seq(UnitSet)
      BY <1>7, <1>8
    <3> QED
      BY ONLY <3>1, ConcatProperties
  <2> HIDE DEF n
  <2> QED
    BY <1>7, <1>8, <2>1
<1> HIDE DEF r
<1>10. /\ r[1] = h /\ r[2] = c
       /\ \A i \in 3 .. 2 + n : r[i] = EntryUnit(ch[i - 2], closing(i - 2))
  <2>1. 1 \in 1 .. 2 + n /\ 2 \in 1 .. 2 + n /\ 1 <= 2 /\ 2 <= 2
    BY <1>1
  <2>2. r[1] = h /\ r[2] = c
    <3> HIDE DEF h, c, n
    <3> QED
      BY <1>8, <1>9, <2>1
  <2>3. ASSUME NEW i \in 3 .. 2 + n PROVE r[i] = EntryUnit(ch[i - 2], closing(i - 2))
    <3>1. i \in 1 .. 2 + n /\ ~(i <= 2) /\ i - 2 \in 1 .. n
      BY <1>1
    <3> HIDE DEF n, closing
    <3> QED
      BY <1>7, <1>9, <3>1
  <2> QED
    BY <2>2, <2>3
<1>11. \A i \in 3 .. 2 + n : /\ r[i].u = "entry" /\ r[i].e = ch[i - 2] /\ r[i].e.tag = t
                             /\ r[i].closes = closing(i - 2)
  <2> SUFFICES ASSUME NEW i \in 3 .. 2 + n
               PROVE  /\ r[i].u = "entry" /\ r[i].e = ch[i - 2] /\ r[i].e.tag = t
                      /\ r[i].closes = closing(i - 2)
    OBVIOUS
  <2>1. i - 2 \in 1 .. n
    BY <1>1
  <2> HIDE DEF n, closing
  <2> QED
    BY <1>10, <2>1, UnitFields DEF n
<1>12. Uniform(r, t)
  <2> SUFFICES ASSUME NEW i \in 1 .. 2 + n, r[i].u = "entry"
               PROVE  r[i].e.tag = t /\ (i < 2 + n => r[i].closes = 0)
    BY <1>9 DEF Uniform
  <2>1. i # 1 /\ i # 2
    BY <1>3, <1>10
  <2>2. i \in 3 .. 2 + n
    BY <1>1, <2>1
  <2> QED
    BY <1>1, <1>11, <2>2
<1>13. r[2 + n].u = "entry" /\ r[2 + n].closes = n
  <2>1. 2 + n \in 3 .. 2 + n /\ 2 + n - 2 = n
    BY <1>1
  <2> QED
    BY <1>11, <2>1
<1> DEFINE p == SubSeq(r, 2, 2 + n)
<1>14. /\ p \in Seq(UnitSet) /\ Len(p) = 1 + n
       /\ \A i \in 1 .. 1 + n : p[i] = r[i + 1]
  <2> DEFINE b == 2 + n
  <2>1. 2 \in Int /\ b \in Int /\ 2 <= b /\ b - 2 + 1 = 1 + n /\ \A i \in 1 .. 1 + n : 2 + i - 1 = i + 1
    BY <1>1
  <2>2. \A i \in 2 .. b : r[i] \in UnitSet
    <3>1. \A i \in 2 .. b : i \in 1 .. Len(r)
      BY <1>1, <1>9
    <3> QED
      BY <1>9, <3>1
  <2> HIDE DEF b
  <2>3. /\ SubSeq(r, 2, b) \in Seq(UnitSet) /\ Len(SubSeq(r, 2, b)) = (IF 2 <= b THEN b - 2 + 1 ELSE 0)
        /\ \A i \in 1 .. b - 2 + 1 : SubSeq(r, 2, b)[i] = r[2 + i - 1]
    BY ONLY <2>1, <2>2, SubSeqProperties
  <2> DEFINE q == SubSeq(r, 2, b)
  <2> HIDE DEF q, n
  <2>4. q \in Seq(UnitSet) /\ Len(q) = 1 + n /\ \A i \in 1 .. 1 + n : q[i] = r[i + 1]
    BY <2>1, <2>3 DEF q
  <2> QED
    BY <2>4 DEF q, b
<1> HIDE DEF p
<1>15. p # <<>> /\ p[1] = c /\ \A i \in 2 .. 1 + n : p[i].u = "entry" /\ p[i].e = ch[i - 1] /\ p[i].e.tag = t
  <2>1. 1 \in 1 .. 1 + n /\ 1 + 1 = 2 /\ Len(p) # 0
    BY <1>1, <1>14
  <2>2. \A i \in 2 .. 1 + n : i \in 1 .. 1 + n /\ i + 1 \in 3 .. 2 + n /\ i + 1 - 2 = i - 1
    BY <1>1
  <2>3. p # <<>> /\ p[1] = c
    BY <1>10, <1>14, <2>1
  <2> HIDE DEF n, c
  <2> QED
    BY <1>11, <1>14, <2>2, <2>3
<1>16. PayloadOK(h, p)
  <2>1. Len(p) - 1 = n
    BY <1>1, <1>14
  <2> HIDE DEF h, n
  <2> QED
    BY <1>3, <1>14, <1>15, <2>1, TagFacts DEF PayloadOK, c
<1>17. PayloadEntries(h, p) = ch
  <2>1. PayloadEntries(h, p) = [i \in 1 .. Len(p) - 1 |-> p[i + 1].e]
    <3> HIDE DEF h
    <3> QED
      BY <1>3, TagFacts DEF PayloadEntries
  <2>2. Len(p) - 1 = n
    BY <1>1, <1>14
  <2>3. \A i \in 1 .. n : i + 1 \in 2 .. 1 + n /\ i + 1 - 1 = i
    BY <1>1
  <2>4. \A i \in 1 .. n : p[i + 1].e = ch[i]
    BY <1>15, <2>3
  <2>5. ch = [i \in 1 .. n |-> ch[i]]
    OBVIOUS
  <2> HIDE DEF n
  <2> QED
    BY <2>1, <2>2, <2>4, <2>5
<1>18. IsRecord(r) /\ RecordEntries(r) = ch
  <2>1. Len(r) >= 1 /\ h.len = Len(r) - 1 /\ Len(r) = 2 + n
    BY <1>1, <1>3, <1>9
  <2> HIDE DEF h, n
  <2> QED
    BY <1>3, <1>9, <1>10, <1>16, <1>17, <2>1 DEF IsRecord, RecordEntries, p
<1> QED
  BY <1>4, <1>9, <1>12, <1>13, <1>18
-----------------------------------------------------------------------------
(* The profile as it will be when what is under way has been written. *)
Stream == file \o (buf \o record)

PartSet == [tag : Kinds, n : Nat]
CallSet == [tag : Kinds \cup {"none"}, rest : Seq(EntrySet), flush : BOOLEAN]

OfKind(entries, t) == \A i \in 1 .. Len(entries) : entries[i].tag = t

LogTyped ==
    /\ stage \in {"open", "run", "exit", "done", "dead"}
    /\ file \in Seq(UnitSet) /\ buf \in Seq(UnitSet) /\ record \in Seq(UnitSet)
    /\ logged \in Seq(EntrySet)
    /\ todo \in Seq(PartSet)
    /\ call \in CallSet
    /\ OfKind(call.rest, call.tag)
    /\ Uniform(record, call.tag)
    /\ call.tag \in BatchTags /\ record # <<>> => record[Len(record)].u = "entry"
    /\ tbTotal \in Nat /\ edgeTotal \in Nat /\ failures \in Nat /\ synced \in Nat
    /\ stage = "dead" => todo = <<>> /\ call = NoCall /\ record = <<>>

NoHeader(parts) == \A i \in 1 .. Len(parts) : parts[i].tag # "FileHeader"

(* Nothing is written yet, and the file header comes first. *)
Fresh ==
    /\ file = <<>> /\ buf = <<>> /\ record = <<>> /\ logged = <<>>
    /\ \/ stage = "open" /\ todo = <<>> /\ call = NoCall
       \/ /\ stage = "run" /\ call = NoCall /\ todo # <<>>
          /\ Head(todo) = Part("FileHeader", 1) /\ NoHeader(Tail(todo))
       \/ stage = "run" /\ call.tag = "FileHeader" /\ Len(call.rest) = 1 /\ ~call.flush /\ NoHeader(todo)

(* A clean stream: of the log, the call under way has still to write `rest`. *)
Pending(S, L, tag, rest) ==
    /\ S # <<>>
    /\ \E cut :
          /\ Clean(S, L, cut)
          /\ IF tag \in ReadTags THEN rest = Slice(L, cut[Len(S) + 1], Len(L))
                                 ELSE cut[Len(S) + 1] = Len(L)

Framed ==
    /\ stage # "open"
    /\ NoHeader(todo)
    /\ call.tag = "FileHeader" => call.rest = <<>>
    /\ Pending(Stream, logged, call.tag, call.rest)

Sound == failures = 0 /\ stage # "dead" => Fresh \/ Framed

DeadReads == stage = "dead" => CrashLeavesPrefix

(* The first n entries of the log are in whole records of the file. *)
Durable(G, L, n) ==
    \E F \in Seq(UnitSet) : \E cut :
        F # <<>> /\ Begins(F, G) /\ Clean(F, L, cut) /\ cut[Len(F) + 1] = n

Synced == synced > 0 => Durable(file, logged, synced)

(* Entries of the call under way that the totals do not have yet. *)
Uncredited(tags) ==
    IF call.tag \in tags
    THEN Len(call.rest) + (IF record = <<>> THEN 0 ELSE record[Len(record)].closes)
    ELSE 0

TbTags == {"TbExecBatch"}
EdgeTags == {"BranchEdgeBatch", "FallThroughBatch"}

Balance ==
    failures = 0 /\ stage # "dead" =>
        /\ Count(logged, TbTags) = tbTotal + Uncredited(TbTags)
        /\ Count(logged, EdgeTags) = edgeTotal + Uncredited(EdgeTags)

(* The footer comes last. *)
FooterLast ==
    /\ \A i \in 1 .. Len(todo) : todo[i].tag = "Footer" =>
          i = Len(todo) /\ todo[i].n = 1 /\ stage = "exit"
    /\ stage = "exit" /\ todo # <<>> => todo[Len(todo)].tag = "Footer"
    /\ stage \in {"exit", "done"} /\ todo = <<>> => call.tag = "Footer"
    /\ call.tag = "Footer" => todo = <<>> /\ stage \in {"exit", "done"} /\ Len(call.rest) <= 1
    /\ stage = "done" => todo = <<>> /\ ~call.flush

(* A stream that ends in a footer, over the whole log. *)
Ended(S, L, tb, edge) ==
    \E F \in Seq(UnitSet) : \E cut :
        /\ F # <<>> /\ Clean(F, L, cut) /\ cut[Len(F) + 1] = Len(L)
        /\ S = F \o FooterRecord(tb, edge)

(* It carries the totals, and its flush empties the buffer. *)
Closed ==
    failures = 0 /\ call.tag = "Footer" =>
        /\ call.rest = <<>> => Ended(Stream, logged, tbTotal, edgeTotal)
        /\ ~call.flush => call.rest = <<>> /\ record = <<>> /\ buf = <<>>

LogInv == LogTyped /\ Sound /\ DeadReads /\ Synced /\ Balance /\ FooterLast /\ Closed
-----------------------------------------------------------------------------
Chunk == SubSeq(call.rest, 1, ChunkLen)
Remaining == SubSeq(call.rest, ChunkLen + 1, Len(call.rest))

LEMMA CallFields ==
    ASSUME LogTyped
    PROVE  /\ call.tag \in Kinds \cup {"none"} /\ call.rest \in Seq(EntrySet) /\ call.flush \in BOOLEAN
           /\ Len(call.rest) \in Nat
<1> DEFINE R == Seq(EntrySet)
           K == Kinds \cup {"none"}
<1>1. call \in [tag : K, rest : R, flush : BOOLEAN]
  BY DEF LogTyped, CallSet
<1>2. call.tag \in K /\ call.rest \in R /\ call.flush \in BOOLEAN
  <2> HIDE DEF R, K
  <2> QED
    BY <1>1
<1>3. Len(call.rest) \in Nat
  BY <1>2, LenProperties
<1> QED
  BY <1>2, <1>3

(* The next chunk and what it leaves. *)
LEMMA ChunkFacts ==
    ASSUME LogTyped, call.rest # <<>>
    PROVE  /\ ChunkLen \in 1 .. Len(call.rest) /\ (call.tag \notin BatchTags => ChunkLen = 1)
           /\ Chunk \in Seq(EntrySet) /\ Len(Chunk) = ChunkLen /\ OfKind(Chunk, call.tag)
           /\ Remaining \in Seq(EntrySet) /\ Len(Remaining) = Len(call.rest) - ChunkLen
           /\ OfKind(Remaining, call.tag)
<1> DEFINE s == call.rest
           n == Len(s)
           k == ChunkLen
           a == k + 1
<1>1. s \in Seq(EntrySet) /\ n \in Nat
  BY CallFields
<1>2. n >= 1
  <2>1. s # <<>>
    OBVIOUS
  <2>2. n \in Nat \ {0}
    BY ONLY <1>1, <2>1, EmptySeq
  <2> QED
    BY <2>2
<1>3. k \in 1 .. n /\ (call.tag \notin BatchTags => k = 1)
  <2> DEFINE fit == IF call.tag \in BatchTags THEN MaxPerRecord ELSE 1
  <2>1. fit \in Nat /\ fit >= 1 /\ (call.tag \notin BatchTags => fit = 1)
    BY MaxPerRecordAssumption
  <2>2. k = IF fit < n THEN fit ELSE n
    BY DEF ChunkLen
  <2> HIDE DEF fit, k, n
  <2> QED
    BY <1>1, <1>2, <2>1, <2>2
<1>4. \A i \in 1 .. n : s[i] \in EntrySet /\ s[i].tag = call.tag
  <2>1. \A i \in 1 .. n : s[i].tag = call.tag
    BY DEF LogTyped, OfKind
  <2> HIDE DEF s
  <2> QED
    BY <1>1, <2>1
<1> HIDE DEF s, n, k
<1>5. 1 \in Int /\ k \in Int /\ a \in Int /\ n \in Int /\ 1 <= k /\ k <= n /\ n - a + 1 = n - k
  BY <1>1, <1>3
<1>6. (\A i \in 1 .. k : s[i] \in EntrySet) /\ (\A i \in a .. n : s[i] \in EntrySet)
  <2>1. \A i \in 1 .. k : i \in 1 .. n
    BY <1>1, <1>3
  <2>2. \A i \in a .. n : i \in 1 .. n
    BY <1>1, <1>3
  <2> HIDE DEF a
  <2> QED
    BY <1>4, <2>1, <2>2
<1> DEFINE c == SubSeq(s, 1, k)
           d == SubSeq(s, a, n)
<1>7. /\ c \in Seq(EntrySet) /\ Len(c) = (IF 1 <= k THEN k - 1 + 1 ELSE 0)
      /\ \A i \in 1 .. k - 1 + 1 : c[i] = s[1 + i - 1]
  BY ONLY <1>5, <1>6, SubSeqProperties
<1>8. /\ d \in Seq(EntrySet) /\ Len(d) = (IF a <= n THEN n - a + 1 ELSE 0)
      /\ \A i \in 1 .. n - a + 1 : d[i] = s[a + i - 1]
  <2> HIDE DEF a
  <2> QED
    BY ONLY <1>5, <1>6, SubSeqProperties
<1> HIDE DEF c, d
<1>9. Len(c) = k /\ Len(d) = n - k
  BY <1>1, <1>3, <1>7, <1>8
<1>10. OfKind(c, call.tag)
  <2> SUFFICES ASSUME NEW i \in 1 .. k PROVE c[i].tag = call.tag
    BY <1>9 DEF OfKind
  <2>1. i \in 1 .. k - 1 + 1 /\ 1 + i - 1 = i /\ i \in 1 .. n
    BY <1>1, <1>3
  <2> QED
    BY <1>4, <1>7, <2>1
<1>11. OfKind(d, call.tag)
  <2> SUFFICES ASSUME NEW i \in 1 .. n - k PROVE d[i].tag = call.tag
    BY <1>9 DEF OfKind
  <2>1. i \in 1 .. n - a + 1 /\ a + i - 1 \in 1 .. n
    BY <1>1, <1>3
  <2> HIDE DEF a
  <2> QED
    BY <1>4, <1>8, <2>1
<1> QED
  BY <1>3, <1>7, <1>8, <1>9, <1>10, <1>11 DEF Chunk, Remaining, c, d, a, s, n, k

(* The record of the next chunk. *)
LEMMA RecordOfChunk ==
    ASSUME LogTyped, call.rest # <<>>
    PROVE  /\ Record(Chunk) \in Seq(UnitSet) /\ Record(Chunk) # <<>>
           /\ Uniform(Record(Chunk), call.tag)
           /\ call.tag \in BatchTags =>
                 /\ Record(Chunk)[Len(Record(Chunk))].u = "entry"
                 /\ Record(Chunk)[Len(Record(Chunk))].closes = ChunkLen
           /\ call.tag # "FileHeader" =>
                 /\ IsRecord(Record(Chunk))
                 /\ RecordEntries(Record(Chunk)) = IF call.tag \in ReadTags THEN Chunk ELSE <<>>
           /\ call.tag = "FileHeader" => Record(Chunk) = <<FileHeader>>
           /\ call.tag = "Footer" => Record(Chunk) = FooterRecord(tbTotal, edgeTotal)
<1> DEFINE t == call.tag
           r == Record(Chunk)
<1>1. /\ ChunkLen \in 1 .. Len(call.rest) /\ (t \notin BatchTags => ChunkLen = 1) /\ Len(call.rest) \in Nat
      /\ Chunk \in Seq(EntrySet) /\ Len(Chunk) = ChunkLen /\ OfKind(Chunk, t)
  BY ChunkFacts, CallFields
<1>2. ChunkLen \in Nat /\ ChunkLen >= 1 /\ Chunk # <<>> /\ 1 \in 1 .. Len(Chunk)
  BY <1>1
<1>3. \A i \in 1 .. Len(Chunk) : Chunk[i].tag = t
  BY <1>1 DEF OfKind
<1>4. Chunk[1] \in EntrySet /\ Chunk[1].tag = t
  BY <1>1, <1>2, <1>3, ElementOfSeq
<1>5. ASSUME NEW q, IsRecord(q) PROVE q \in Seq(UnitSet) /\ q # <<>>
  <2>1. q \in Seq(UnitSet) /\ Len(q) >= 1
    BY <1>5 DEF IsRecord
  <2> QED
    BY <2>1
<1>6. CASE t \in BatchTags
  <2>1. r = BatchRecord(t, Chunk)
    BY <1>6 DEF Record, BatchTags, ItemTags
  <2>2. t # "FileHeader" /\ t # "Footer" /\ t \in ReadTags
    BY <1>6 DEF BatchTags, ReadTags, ItemTags
  <2>3. /\ IsRecord(r) /\ Uniform(r, t) /\ RecordEntries(r) = Chunk
        /\ r[Len(r)].u = "entry" /\ r[Len(r)].closes = Len(Chunk)
    <3> HIDE DEF r, t
    <3> QED
      BY <1>1, <1>2, <1>3, <1>6, <2>1, BatchRecordFacts
  <2> HIDE DEF r, t
  <2> QED
    BY <1>1, <1>5, <2>2, <2>3 DEF r, t
<1>7. CASE t \in ItemTags
  <2>1. r = ItemRecord(Chunk[1])
    BY <1>7 DEF Record, BatchTags, ItemTags
  <2>2. t # "FileHeader" /\ t # "Footer" /\ t \notin BatchTags
    BY <1>7 DEF BatchTags, ItemTags
  <2>3. /\ IsRecord(r) /\ Uniform(r, t)
        /\ RecordEntries(r) = IF t \in ReadTags THEN <<Chunk[1]>> ELSE <<>>
    <3> HIDE DEF r, t
    <3> QED
      BY <1>4, <1>7, <2>1, ItemRecordFacts
  <2>4. Chunk = <<Chunk[1]>>
    <3> DEFINE c == Chunk
    <3>1. c \in Seq(EntrySet) /\ Len(c) = 1
      BY <1>1, <2>2
    <3> HIDE DEF c
    <3> QED
      BY <3>1 DEF c
  <2> HIDE DEF r, t
  <2> QED
    BY <1>5, <2>2, <2>3, <2>4 DEF r, t
<1>8. CASE t = "FileHeader"
  <2>1. r = <<FileHeader>>
    BY <1>8 DEF Record, BatchTags, ItemTags
  <2>2. t \notin BatchTags /\ t # "Footer"
    BY <1>8 DEF BatchTags
  <2>3. FileHeader \in UnitSet /\ FileHeader.u = "file"
    BY UnitsTyped, UnitFields
  <2> DEFINE h == FileHeader
  <2> HIDE DEF h
  <2>4. <<h>> \in Seq(UnitSet) /\ Len(<<h>>) = 1 /\ <<h>>[1] = h /\ <<h>> # <<>>
    BY <2>3 DEF h
  <2>5. Uniform(<<h>>, t)
    BY <2>3, <2>4 DEF Uniform, h
  <2> QED
    BY <1>8, <2>1, <2>2, <2>4, <2>5 DEF h
<1>9. CASE t = "FlushMarker"
  <2>1. r = MarkerRecord
    BY <1>9 DEF Record, BatchTags, ItemTags
  <2>2. t \notin BatchTags /\ t # "Footer" /\ t # "FileHeader" /\ t \notin ReadTags
    BY <1>9 DEF BatchTags, ReadTags, ItemTags
  <2>3. IsRecord(r) /\ Uniform(r, t) /\ RecordEntries(r) = <<>>
    BY <1>9, <2>1, MarkerRecordFacts
  <2> HIDE DEF r, t
  <2> QED
    BY <1>5, <2>2, <2>3 DEF r, t
<1>10. CASE t = "Footer"
  <2>1. r = FooterRecord(tbTotal, edgeTotal)
    BY <1>10 DEF Record, BatchTags, ItemTags
  <2>2. t \notin BatchTags /\ t # "FileHeader" /\ t \notin ReadTags
    BY <1>10 DEF BatchTags, ReadTags, ItemTags
  <2>3. IsRecord(r) /\ Uniform(r, t) /\ RecordEntries(r) = <<>>
    <3>1. tbTotal \in Nat /\ edgeTotal \in Nat
      BY DEF LogTyped
    <3> QED
      BY <1>10, <2>1, <3>1, FooterRecordFacts
  <2>4. r \in Seq(UnitSet) /\ r # <<>>
    BY <1>5, <2>3
  <2> HIDE DEF r, t
  <2> QED
    BY <2>1, <2>2, <2>3, <2>4 DEF r, t
<1>11. t \in Kinds
  BY <1>4 DEF EntrySet
<1> HIDE DEF r, t
<1> QED
  BY <1>6, <1>7, <1>8, <1>9, <1>10, <1>11 DEF Kinds, r, t
-----------------------------------------------------------------------------
LEMMA PartFields ==
    ASSUME NEW t, NEW n
    PROVE  Part(t, n).tag = t /\ Part(t, n).n = n /\ (t \in Kinds /\ n \in Nat => Part(t, n) \in PartSet)
  BY DEF Part, PartSet

(* plugin_exit writes data, then one footer. *)
LEMMA ExitPartsFacts ==
    ASSUME NEW nTb \in Nat, NEW nEdge \in Nat
    PROVE  /\ ExitParts(nTb, nEdge) \in Seq(PartSet) /\ NoHeader(ExitParts(nTb, nEdge))
           /\ ExitParts(nTb, nEdge) # <<>>
           /\ ExitParts(nTb, nEdge)[Len(ExitParts(nTb, nEdge))].tag = "Footer"
           /\ \A i \in 1 .. Len(ExitParts(nTb, nEdge)) : ExitParts(nTb, nEdge)[i].tag = "Footer" =>
                 i = Len(ExitParts(nTb, nEdge)) /\ ExitParts(nTb, nEdge)[i].n = 1
<1> DEFINE D == {x \in PartSet : x.tag \in BatchTags \cup ItemTags}
           p0 == <<Part("SymbolEntry", 1), Part("TbExecBatch", nTb)>>
           p1 == IF Tier >= 1
                 THEN <<Part("BranchEdgeBatch", nEdge), Part("FallThroughBatch", 1)>> ELSE <<>>
           p2 == IF Tier >= 2
                 THEN <<Part("DirectCallBatch", 1), Part("IndirectCallBatch", nEdge)>> ELSE <<>>
           p3 == IF Tier >= 3
                 THEN <<Part("TbResource", 1), Part("DeviceAccess", 1), Part("Discontinuity", 1)>>
                 ELSE <<>>
           f == Part("Footer", 1)
           data == ((p0 \o p1) \o p2) \o p3
           ep == data \o <<f>>
<1>1. \A t \in BatchTags \cup ItemTags, n \in Nat : Part(t, n) \in D
  BY PartFields DEF Kinds
<1>2. /\ "SymbolEntry" \in BatchTags \cup ItemTags /\ "TbExecBatch" \in BatchTags \cup ItemTags
      /\ "BranchEdgeBatch" \in BatchTags \cup ItemTags /\ "FallThroughBatch" \in BatchTags \cup ItemTags
      /\ "DirectCallBatch" \in BatchTags \cup ItemTags /\ "IndirectCallBatch" \in BatchTags \cup ItemTags
      /\ "TbResource" \in BatchTags \cup ItemTags /\ "DeviceAccess" \in BatchTags \cup ItemTags
      /\ "Discontinuity" \in BatchTags \cup ItemTags
  BY DEF BatchTags, ItemTags
<1>0. 1 \in Nat
  OBVIOUS
<1>3. /\ Part("SymbolEntry", 1) \in D /\ Part("TbExecBatch", nTb) \in D
      /\ Part("BranchEdgeBatch", nEdge) \in D /\ Part("FallThroughBatch", 1) \in D
      /\ Part("DirectCallBatch", 1) \in D /\ Part("IndirectCallBatch", nEdge) \in D
      /\ Part("TbResource", 1) \in D /\ Part("DeviceAccess", 1) \in D
      /\ Part("Discontinuity", 1) \in D
  <2> HIDE DEF D
  <2> QED
    BY <1>0, <1>1, <1>2
<1>4. f \in PartSet /\ f.tag = "Footer" /\ f.n = 1
  BY <1>0, PartFields DEF Kinds
<1>5. \A x \in D : x \in PartSet /\ x.tag # "Footer" /\ x.tag # "FileHeader"
  BY DEF BatchTags, ItemTags
<1> HIDE DEF D
<1>6. p0 \in Seq(D) /\ p1 \in Seq(D) /\ p2 \in Seq(D) /\ p3 \in Seq(D)
  BY <1>3
<1> HIDE DEF p0, p1, p2, p3
<1>7. data \in Seq(D)
  <2>1. p0 \o p1 \in Seq(D)
    BY ONLY <1>6, ConcatProperties
  <2>2. (p0 \o p1) \o p2 \in Seq(D)
    BY ONLY <1>6, <2>1, ConcatProperties
  <2> QED
    BY ONLY <1>6, <2>2, ConcatProperties
<1>8. ep = ExitParts(nTb, nEdge)
  BY DEF ExitParts, p0, p1, p2, p3
<1> HIDE DEF data, f
<1> DEFINE n == Len(data)
           g == <<f>>
<1>9. n \in Nat /\ data \in Seq(PartSet) /\ \A i \in 1 .. n : data[i] \in D
  <2>1. D \subseteq PartSet
    BY <1>5
  <2>2. data \in Seq(PartSet)
    BY ONLY <1>7, <2>1, SeqMonotonic
  <2> QED
    BY <1>7, <2>2
<1>10. g \in Seq(PartSet) /\ Len(g) = 1 /\ g[1] = f
  BY <1>4
<1> HIDE DEF g
<1> DEFINE q == data \o g
<1>11. /\ q \in Seq(PartSet) /\ Len(q) = Len(data) + Len(g)
       /\ \A i \in 1 .. Len(data) + Len(g) : q[i] = IF i <= Len(data) THEN data[i] ELSE g[i - Len(data)]
  BY ONLY <1>9, <1>10, ConcatProperties
<1> HIDE DEF q, n
<1>12. Len(q) = n + 1 /\ q[n + 1] = f /\ \A i \in 1 .. n : q[i] \in D
  <2>1. Len(q) = n + 1 /\ n + 1 \in 1 .. Len(data) + Len(g) /\ ~(n + 1 <= Len(data)) /\ n + 1 - Len(data) = 1
    BY <1>9, <1>10, <1>11 DEF n
  <2>2. q[n + 1] = f
    BY <1>10, <1>11, <2>1
  <2>3. \A i \in 1 .. n : i \in 1 .. Len(data) + Len(g) /\ i <= Len(data)
    BY <1>9, <1>10 DEF n
  <2> QED
    BY <1>9, <1>11, <2>1, <2>2, <2>3
<1>13. ASSUME NEW i \in 1 .. Len(q)
       PROVE  q[i].tag # "FileHeader" /\ (q[i].tag = "Footer" => i = Len(q) /\ q[i].n = 1)
  <2>1. CASE i = n + 1
    BY <1>4, <1>12, <2>1
  <2>2. CASE i # n + 1
    <3>1. i \in 1 .. n
      BY <1>9, <1>12, <2>2
    <3> QED
      BY <1>5, <1>12, <3>1
  <2> QED
    BY <2>1, <2>2
<1>14. q # <<>> /\ q[Len(q)].tag = "Footer"
  <2>1. Len(q) # 0
    BY <1>9, <1>12
  <2> QED
    BY <1>4, <1>12, <2>1
<1> QED
  BY <1>8, <1>11, <1>13, <1>14 DEF NoHeader, q, g

(* The two calls of a streaming flush, and the first two of all. *)
LEMMA FewPartsFacts ==
    ASSUME NEW t1 \in Kinds, NEW t2 \in Kinds, NEW n1 \in Nat, NEW n2 \in Nat
    PROVE  /\ <<Part(t1, n1), Part(t2, n2)>> \in Seq(PartSet)
           /\ t1 # "FileHeader" /\ t2 # "FileHeader" => NoHeader(<<Part(t1, n1), Part(t2, n2)>>)
           /\ t1 # "Footer" /\ t2 # "Footer" =>
                 \A i \in 1 .. Len(<<Part(t1, n1), Part(t2, n2)>>) :
                     <<Part(t1, n1), Part(t2, n2)>>[i].tag # "Footer"
           /\ t2 # "FileHeader" => NoHeader(Tail(<<Part(t1, n1), Part(t2, n2)>>))
<1> DEFINE x == Part(t1, n1)
           y == Part(t2, n2)
           s == <<x, y>>
<1>1. x \in PartSet /\ y \in PartSet /\ x.tag = t1 /\ y.tag = t2
  BY PartFields
<1> HIDE DEF x, y
<1>2. s \in Seq(PartSet) /\ Len(s) = 2 /\ s[1] = x /\ s[2] = y
  BY <1>1
<1>3. Tail(s) = <<y>> /\ Len(<<y>>) = 1 /\ <<y>>[1] = y
  BY <1>1
<1> HIDE DEF s
<1>4. \A i \in 1 .. Len(s) : s[i].tag = t1 \/ s[i].tag = t2
  BY <1>1, <1>2
<1>5. t2 # "FileHeader" => NoHeader(<<y>>)
  BY <1>1, <1>3 DEF NoHeader
<1> QED
  BY <1>2, <1>3, <1>4, <1>5 DEF NoHeader, x, y, s
-----------------------------------------------------------------------------
LEMMA NewEntriesFacts ==
    ASSUME logged \in Seq(EntrySet), NEW p \in PartSet
    PROVE  /\ NewEntries(p) \in Seq(EntrySet) /\ Len(NewEntries(p)) = p.n
           /\ OfKind(NewEntries(p), p.tag)
<1> DEFINE l == Len(logged)
           e(i) == Entry(p.tag, l + i)
<1>1. l \in Nat /\ p.n \in Nat /\ p.tag \in Kinds
  BY DEF PartSet
<1> HIDE DEF l
<1>2. \A i \in 1 .. p.n : e(i) \in EntrySet /\ e(i).tag = p.tag
  BY <1>1 DEF EntrySet, Entry
<1> HIDE DEF e
<1>3. NewEntries(p) = [i \in 1 .. p.n |-> e(i)]
  BY DEF NewEntries, e, l
<1>4. [i \in 1 .. p.n |-> e(i)] \in Seq(EntrySet) /\ Len([i \in 1 .. p.n |-> e(i)]) = p.n
  <2> DEFINE E == EntrySet
  <2>1. \A i \in 1 .. p.n : e(i) \in E
    BY <1>2
  <2> HIDE DEF E
  <2>2. [i \in 1 .. p.n |-> e(i)] \in Seq(E) /\ Len([i \in 1 .. p.n |-> e(i)]) = p.n
    BY <1>1, <2>1
  <2> QED
    BY <2>2 DEF E
<1>5. OfKind([i \in 1 .. p.n |-> e(i)], p.tag)
  <2> DEFINE s == [i \in 1 .. p.n |-> e(i)]
  <2>1. \A i \in 1 .. p.n : s[i] = e(i)
    OBVIOUS
  <2>2. Len(s) = p.n
    BY <1>4
  <2> HIDE DEF s
  <2>3. OfKind(s, p.tag)
    BY <1>2, <2>1, <2>2 DEF OfKind
  <2> QED
    BY <2>3 DEF s
<1> QED
  BY <1>3, <1>4, <1>5

(* What is left of a record after a unit of it is written. *)
LEMMA TailFacts ==
    ASSUME NEW r \in Seq(UnitSet), r # <<>>, NEW t, Uniform(r, t)
    PROVE  /\ Head(r) \in UnitSet /\ Tail(r) \in Seq(UnitSet) /\ Uniform(Tail(r), t)
           /\ Head(r) = r[1] /\ (Tail(r) = <<>> <=> Len(r) = 1)
           /\ Tail(r) # <<>> => Tail(r)[Len(Tail(r))] = r[Len(r)]
<1> DEFINE n == Len(r)
           s == Tail(r)
<1>1. n \in Nat /\ n >= 1
  OBVIOUS
<1>2. Head(r) \in UnitSet /\ Head(r) = r[1]
  OBVIOUS
<1>3. s \in Seq(UnitSet) /\ Len(s) = n - 1 /\ \A i \in 1 .. Len(s) : s[i] = r[i + 1]
  BY HeadTailProperties
<1> HIDE DEF s
<1>4. s = <<>> <=> Len(s) = 0
  BY <1>3
<1>5. Uniform(s, t)
  <2> SUFFICES ASSUME NEW i \in 1 .. Len(s), s[i].u = "entry"
               PROVE  s[i].e.tag = t /\ (i < Len(s) => s[i].closes = 0)
    BY DEF Uniform
  <2>1. i + 1 \in 1 .. n /\ (i < Len(s) => i + 1 < n) /\ s[i] = r[i + 1]
    BY <1>1, <1>3
  <2> QED
    BY <2>1 DEF Uniform
<1>6. s # <<>> => s[Len(s)] = r[n]
  <2> SUFFICES ASSUME s # <<>> PROVE s[Len(s)] = r[n]
    OBVIOUS
  <2>1. Len(s) \in 1 .. Len(s) /\ Len(s) + 1 = n
    BY <1>1, <1>3, <1>4
  <2> QED
    BY <1>3, <2>1
<1> QED
  BY <1>1, <1>2, <1>3, <1>4, <1>5, <1>6 DEF s

LEMMA InitTyped ==
    Init => LogTyped
<1> SUFFICES ASSUME Init PROVE LogTyped
  OBVIOUS
<1>1. call \in CallSet /\ call.rest = <<>> /\ call.tag = "none"
  BY DEF Init, NoCall, CallSet
<1>2. OfKind(call.rest, call.tag) /\ Uniform(record, call.tag)
  BY <1>1 DEF OfKind, Uniform, Init
<1> QED
  BY <1>1, <1>2 DEF Init, LogTyped

(* The actions that announce parts and write nothing. *)
Announce ==
    /\ UNCHANGED <<file, buf, call, record, totals, history>>
    /\ stage # "dead" /\ stage' # "dead" /\ stage' \in {"run", "exit", "done"}
    /\ todo' \in Seq(PartSet)

LEMMA AnnounceFacts ==
    ASSUME LogTyped
    PROVE  /\ OpenLog => /\ Announce /\ todo' # <<>> /\ Head(todo') = Part("FileHeader", 1)
                         /\ NoHeader(Tail(todo'))
                         /\ \A i \in 1 .. Len(todo') : todo'[i].tag # "Footer"
           /\ \A n \in Nat : FlushEdges(n) =>
                 Announce /\ NoHeader(todo') /\ \A i \in 1 .. Len(todo') : todo'[i].tag # "Footer"
           /\ \A nTb \in Nat, nEdge \in Nat : PluginExit(nTb, nEdge) =>
                 /\ Announce /\ NoHeader(todo') /\ todo' # <<>> /\ todo'[Len(todo')].tag = "Footer"
                 /\ \A i \in 1 .. Len(todo') : todo'[i].tag = "Footer" =>
                       i = Len(todo') /\ todo'[i].n = 1
           /\ ExitReturns => Announce /\ todo' = todo
<1>0. /\ "FileHeader" \in Kinds /\ "StringMeta" \in Kinds /\ "BranchEdgeBatch" \in Kinds
      /\ "FlushMarker" \in Kinds
  BY DEF Kinds, BatchTags, ItemTags
<1>a. 1 \in Nat /\ 3 \in Nat
  OBVIOUS
<1>1. ASSUME OpenLog
      PROVE  /\ Announce /\ todo' # <<>> /\ Head(todo') = Part("FileHeader", 1)
             /\ NoHeader(Tail(todo')) /\ \A i \in 1 .. Len(todo') : todo'[i].tag # "Footer"
  <2>1. todo' = <<Part("FileHeader", 1), Part("StringMeta", 3)>>
    BY <1>1 DEF OpenLog
  <2>2. /\ todo' \in Seq(PartSet) /\ NoHeader(Tail(todo'))
        /\ \A i \in 1 .. Len(todo') : todo'[i].tag # "Footer"
    BY <1>0, <1>a, <2>1, FewPartsFacts
  <2>3. todo' # <<>> /\ Head(todo') = Part("FileHeader", 1)
    BY <2>1
  <2> QED
    BY <1>1, <2>2, <2>3 DEF OpenLog, Announce
<1>2. ASSUME NEW n \in Nat, FlushEdges(n)
      PROVE  Announce /\ NoHeader(todo') /\ \A i \in 1 .. Len(todo') : todo'[i].tag # "Footer"
  <2>1. todo' = <<Part("BranchEdgeBatch", n), Part("FlushMarker", 1)>>
    BY <1>2 DEF FlushEdges
  <2>2. /\ todo' \in Seq(PartSet) /\ NoHeader(todo')
        /\ \A i \in 1 .. Len(todo') : todo'[i].tag # "Footer"
    BY <1>0, <1>a, <2>1, FewPartsFacts, ZenonT(30)
  <2> QED
    BY <1>2, <2>2 DEF FlushEdges, Announce
<1>3. ASSUME NEW nTb \in Nat, NEW nEdge \in Nat, PluginExit(nTb, nEdge)
      PROVE  /\ Announce /\ NoHeader(todo') /\ todo' # <<>> /\ todo'[Len(todo')].tag = "Footer"
             /\ \A i \in 1 .. Len(todo') : todo'[i].tag = "Footer" =>
                   i = Len(todo') /\ todo'[i].n = 1
  <2>1. todo' = ExitParts(nTb, nEdge)
    BY <1>3 DEF PluginExit
  <2> QED
    BY <1>3, <2>1, ExitPartsFacts DEF PluginExit, Announce
<1>4. ASSUME ExitReturns PROVE Announce /\ todo' = todo
  BY <1>4 DEF ExitReturns, Announce, LogTyped
<1> QED
  BY <1>1, <1>2, <1>3, <1>4

(* The disjuncts of Next. *)
LEMMA NextCases ==
    ASSUME LogTyped, [Next]_vars
    PROVE  \/ Announce /\ ( \/ OpenLog
                            \/ \E n \in Nat : FlushEdges(n)
                            \/ \E nTb \in Nat, nEdge \in Nat : PluginExit(nTb, nEdge)
                            \/ ExitReturns )
           \/ StartCall \/ NextRecord \/ WriteUnit \/ FlushBuffer
           \/ \E n \in Nat : WriteFails(n)
           \/ Crash \/ UNCHANGED vars
<1>1. (1 .. MaxBatch) \subseteq Nat /\ (0 .. MaxBatch) \subseteq Nat /\ (0 .. BufUnits - 1) \subseteq Nat
  BY BoundsAssumption, BufUnitsAssumption
<1>2. CASE OpenLog
  BY <1>2, AnnounceFacts
<1>3. ASSUME NEW n \in 1 .. MaxBatch, FlushEdges(n) PROVE Announce /\ \E m \in Nat : FlushEdges(m)
  <2>1. n \in Nat
    BY <1>1
  <2> QED
    BY <1>3, <2>1, AnnounceFacts
<1>4. ASSUME NEW nTb \in 1 .. MaxBatch, NEW nEdge \in 0 .. MaxBatch, PluginExit(nTb, nEdge)
      PROVE  Announce /\ \E i \in Nat, j \in Nat : PluginExit(i, j)
  <2>1. nTb \in Nat /\ nEdge \in Nat
    BY <1>1
  <2> QED
    BY <1>4, <2>1, AnnounceFacts
<1>5. CASE ExitReturns
  BY <1>5, AnnounceFacts
<1>6. ASSUME NEW n \in 0 .. BufUnits - 1, WriteFails(n) PROVE \E m \in Nat : WriteFails(m)
  BY <1>1, <1>6
<1> QED
  BY <1>2, <1>3, <1>4, <1>5, <1>6 DEF Next

LEMMA TypedStep ==
    ASSUME LogTyped, [Next]_vars
    PROVE  LogTyped'
<1> USE DEF LogTyped
<1>0. /\ call.tag \in Kinds \cup {"none"} /\ call.rest \in Seq(EntrySet) /\ call.flush \in BOOLEAN
      /\ Len(call.rest) \in Nat
  BY CallFields
<1>1. CASE Announce
  BY <1>1 DEF Announce, totals, history
<1>2. CASE StartCall
  <2> DEFINE p == Head(todo)
             new == NewEntries(p)
             fl == p.tag \in {"FlushMarker", "Footer"}
  <2>1. p \in PartSet /\ todo # <<>> /\ Tail(todo) \in Seq(PartSet)
    BY <1>2 DEF StartCall
  <2>2. new \in Seq(EntrySet) /\ OfKind(new, p.tag)
    BY <2>1, NewEntriesFacts
  <2>3. p.tag \in Kinds
    BY <2>1 DEF PartSet
  <2>4. /\ call' = [tag |-> p.tag, rest |-> new, flush |-> fl] /\ record' = record /\ record = <<>>
        /\ todo' = Tail(todo) /\ stage' = stage /\ stage # "dead"
        /\ logged' = IF p.tag \in ReadTags THEN logged \o new ELSE logged
    BY <1>2, <2>1 DEF StartCall, Idle, Written
  <2> HIDE DEF p, new
  <2>5. call' \in CallSet /\ call'.tag = p.tag /\ call'.rest = new
    BY <2>2, <2>3, <2>4 DEF CallSet
  <2>6. logged' \in Seq(EntrySet)
    <3>1. logged \o new \in Seq(EntrySet)
      BY <2>2, ConcatProperties
    <3> QED
      BY <2>4, <3>1
  <2>7. Uniform(record', call'.tag)
    BY <2>4 DEF Uniform
  <2>8. UNCHANGED <<file, buf, tbTotal, edgeTotal, failures, synced>>
    BY <1>2 DEF StartCall, totals
  <2> QED
    BY <2>1, <2>2, <2>4, <2>5, <2>6, <2>7, <2>8
<1>3. CASE NextRecord
  <2>1. /\ call.rest # <<>> /\ record' = Record(Chunk) /\ call' = [call EXCEPT !.rest = Remaining]
        /\ UNCHANGED <<stage, file, buf, todo, tbTotal, edgeTotal, failures, logged, synced>>
    BY <1>3 DEF NextRecord, Chunk, Remaining, totals, history
  <2>2. /\ Remaining \in Seq(EntrySet) /\ OfKind(Remaining, call.tag)
        /\ record' \in Seq(UnitSet) /\ Uniform(record', call.tag)
        /\ call.tag \in BatchTags => record'[Len(record')].u = "entry"
    BY <2>1, ChunkFacts, RecordOfChunk
  <2>3. call' \in CallSet /\ call'.tag = call.tag /\ call'.rest = Remaining
    BY <2>1, <2>2 DEF CallSet
  <2>4. stage # "dead"
    BY <2>1 DEF NoCall
  <2> QED
    BY <2>1, <2>2, <2>3, <2>4
<1>4. CASE WriteUnit
  <2>1. /\ record # <<>> /\ record' = Tail(record) /\ Credit(Head(record))
        /\ UNCHANGED <<stage, todo, call, failures, logged, synced>>
    BY <1>4 DEF WriteUnit, history
  <2>2. /\ Head(record) \in UnitSet /\ Tail(record) \in Seq(UnitSet) /\ Uniform(Tail(record), call.tag)
        /\ Tail(record) # <<>> => Tail(record)[Len(Tail(record))] = record[Len(record)]
    BY <2>1, TailFacts
  <2>3. buf' \in Seq(UnitSet) /\ file' \in Seq(UnitSet)
    <3>1. file \o buf \in Seq(UnitSet)
      BY ConcatProperties
    <3>2. Append(buf, Head(record)) \in Seq(UnitSet) /\ <<Head(record)>> \in Seq(UnitSet)
      <4> DEFINE x == Head(record)
      <4> HIDE DEF x
      <4>1. x \in UnitSet
        BY <2>2 DEF x
      <4>2. Append(buf, x) \in Seq(UnitSet) /\ <<x>> \in Seq(UnitSet)
        BY <4>1, AppendProperties
      <4> QED
        BY <4>2 DEF x
    <3> QED
      BY <1>4, <3>1, <3>2 DEF WriteUnit
  <2>4. tbTotal' \in Nat /\ edgeTotal' \in Nat
    <3> DEFINE x == Head(record)
    <3>1. x.u = "entry" => x.closes \in Nat
      BY <2>2, UnitFacts
    <3> HIDE DEF x
    <3>2. Credit(x)
      BY <2>1 DEF x
    <3> QED
      BY <3>1, <3>2 DEF Credit
  <2>5. stage # "dead"
    BY <2>1
  <2> QED
    BY <2>1, <2>2, <2>3, <2>4, <2>5
<1>5. CASE FlushBuffer
  <2>1. /\ file' = file \o buf /\ buf' = <<>> /\ call' = [call EXCEPT !.flush = FALSE]
        /\ synced' = (IF failures = 0 THEN Len(logged) ELSE synced)
        /\ UNCHANGED <<stage, todo, record, tbTotal, edgeTotal, failures, logged>>
        /\ call.flush
    BY <1>5 DEF FlushBuffer, totals
  <2>2. call' \in CallSet /\ call'.tag = call.tag /\ call'.rest = call.rest
    BY <1>0, <2>1 DEF CallSet
  <2>3. file' \in Seq(UnitSet) /\ buf' \in Seq(UnitSet) /\ synced' \in Nat
    <3>1. file \o buf \in Seq(UnitSet)
      BY ConcatProperties
    <3>2. Len(logged) \in Nat
      BY LenProperties
    <3> QED
      BY <2>1, <3>1, <3>2
  <2>4. stage # "dead"
    <3>1. NoCall.flush = FALSE
      BY DEF NoCall
    <3> QED
      BY <2>1, <3>1
  <2> QED
    BY <2>1, <2>2, <2>3, <2>4
<1>6. ASSUME NEW n \in Nat, WriteFails(n) PROVE LogTyped'
  <2> DEFINE rs == IF call.tag \in BatchTags THEN <<>> ELSE call.rest
  <2>0. call' = [call EXCEPT !.rest = rs, !.flush = FALSE]
    <3> HIDE DEF LogTyped
    <3> QED
      BY <1>6 DEF WriteFails
  <2>1. /\ file' = file \o SubSeq(buf, 1, n) /\ buf' = SubSeq(buf, n + 1, Len(buf))
        /\ n < Len(buf) /\ failures' = failures + 1 /\ record' = <<>>
        /\ UNCHANGED <<stage, todo, tbTotal, edgeTotal, logged, synced>>
        /\ (record # <<>> \/ call.flush)
    <3> HIDE DEF LogTyped
    <3> QED
      BY <1>6 DEF WriteFails, totals
  <2>2. rs \in Seq(EntrySet) /\ OfKind(rs, call.tag)
    <3>1. <<>> \in Seq(EntrySet) /\ OfKind(<<>>, call.tag)
      BY DEF OfKind
    <3>2. OfKind(call.rest, call.tag)
      OBVIOUS
    <3> QED
      BY <1>0, <3>1, <3>2
  <2> HIDE DEF rs
  <2>3. call' \in CallSet /\ call'.tag = call.tag /\ call'.rest = rs
    BY <1>0, <2>0, <2>2 DEF CallSet
  <2>4. SubSeq(buf, 1, n) \in Seq(UnitSet) /\ SubSeq(buf, n + 1, Len(buf)) \in Seq(UnitSet)
    <3> DEFINE l == Len(buf)
               a == n + 1
    <3>1. l \in Nat /\ 1 \in Int /\ n \in Int /\ a \in Int /\ l \in Int
      OBVIOUS
    <3>2. \A i \in 1 .. n : i \in 1 .. l
      BY <2>1, <3>1
    <3>3. \A i \in a .. l : i \in 1 .. l
      BY <3>1
    <3>4. (\A i \in 1 .. n : buf[i] \in UnitSet) /\ (\A i \in a .. l : buf[i] \in UnitSet)
      BY <3>2, <3>3
    <3> HIDE DEF l, a
    <3>5. SubSeq(buf, 1, n) \in Seq(UnitSet) /\ SubSeq(buf, a, l) \in Seq(UnitSet)
      BY ONLY <3>1, <3>4, SubSeqProperties
    <3> QED
      BY <3>5 DEF l, a
  <2>5. file' \in Seq(UnitSet) /\ buf' \in Seq(UnitSet)
    BY <2>1, <2>4, ConcatProperties
  <2>6. Uniform(record', call.tag) /\ record' \in Seq(UnitSet)
    BY <2>1 DEF Uniform
  <2>7. stage # "dead"
    <3>1. NoCall.flush = FALSE
      BY DEF NoCall
    <3> QED
      BY <2>1, <3>1
  <2>8. failures' \in Nat
    BY <2>1
  <2> QED
    BY <2>1, <2>2, <2>3, <2>5, <2>6, <2>7, <2>8
<1>7. CASE Crash
  <2>1. /\ stage' = "dead" /\ buf' = <<>> /\ todo' = <<>> /\ call' = NoCall /\ record' = <<>>
        /\ UNCHANGED <<file, tbTotal, edgeTotal, failures, logged, synced>>
    BY <1>7 DEF Crash, totals, history
  <2>2. NoCall \in CallSet /\ NoCall.rest = <<>> /\ NoCall.tag = "none"
    BY DEF NoCall, CallSet
  <2>3. OfKind(call'.rest, call'.tag) /\ Uniform(record', call'.tag)
    BY <2>1, <2>2 DEF OfKind, Uniform
  <2> QED
    BY <2>1, <2>2, <2>3
<1>8. CASE UNCHANGED vars
  BY <1>8 DEF vars, totals, history
<1> QED
  BY <1>1, <1>2, <1>3, <1>4, <1>5, <1>6, <1>7, <1>8, NextCases
-----------------------------------------------------------------------------
LEMMA SliceFacts ==
    ASSUME NEW L \in Seq(EntrySet), NEW x \in 0 .. Len(L), NEW y \in x .. Len(L)
    PROVE  /\ Slice(L, x, y) \in Seq(EntrySet) /\ Len(Slice(L, x, y)) = y - x
           /\ \A i \in 1 .. y - x : Slice(L, x, y)[i] = L[x + i]
<1> DEFINE a == x + 1
           n == Len(L)
<1>1. n \in Nat /\ x \in Nat /\ y \in Nat /\ x <= y /\ y <= n
  OBVIOUS
<1>2. a \in Int /\ y \in Int /\ y - a + 1 = y - x /\ (a <= y <=> x < y)
  BY <1>1
<1>3. \A i \in a .. y : L[i] \in EntrySet
  <2>1. \A i \in a .. y : i \in 1 .. n
    BY <1>1
  <2> QED
    BY <2>1
<1>4. \A i \in 1 .. y - x : i \in 1 .. y - a + 1 /\ a + i - 1 = x + i
  BY <1>1
<1> HIDE DEF a
<1> DEFINE s == SubSeq(L, a, y)
<1>5. /\ s \in Seq(EntrySet) /\ Len(s) = (IF a <= y THEN y - a + 1 ELSE 0)
      /\ \A i \in 1 .. y - a + 1 : s[i] = L[a + i - 1]
  BY ONLY <1>2, <1>3, SubSeqProperties
<1> HIDE DEF s, n
<1>6. Len(s) = y - x
  BY <1>1, <1>2, <1>5
<1>7. \A i \in 1 .. y - x : s[i] = L[x + i]
  BY <1>4, <1>5
<1> QED
  BY <1>5, <1>6, <1>7 DEF Slice, s, a

(* A slice and its own parts. *)
LEMMA SliceSplit ==
    ASSUME NEW L \in Seq(EntrySet), NEW x \in 0 .. Len(L), NEW R, R = Slice(L, x, Len(L)),
           NEW k \in 0 .. Len(R)
    PROVE  /\ x + k \in 0 .. Len(L)
           /\ SubSeq(R, 1, k) = Slice(L, x, x + k)
           /\ SubSeq(R, k + 1, Len(R)) = Slice(L, x + k, Len(L))
<1> DEFINE n == Len(L)
           m == n - x
           z == x + k
<1>1. n \in Nat /\ x \in Nat /\ x <= n /\ n \in x .. n
  OBVIOUS
<1>2. R \in Seq(EntrySet) /\ Len(R) = m /\ \A i \in 1 .. m : R[i] = L[x + i]
  BY <1>1, SliceFacts
<1>3. k \in Nat /\ k <= m /\ m \in Nat /\ z \in 0 .. n /\ z \in x .. n /\ n \in z .. n
  BY <1>1, <1>2
<1>4. SubSeq(R, 1, k) = Slice(L, x, z)
  <2> DEFINE s == SubSeq(R, 1, k)
             t == Slice(L, x, z)
  <2>1. 1 \in Int /\ k \in Int
    BY <1>3
  <2>2. \A i \in 1 .. k : R[i] \in EntrySet
    <3>1. \A i \in 1 .. k : i \in 1 .. Len(R)
      BY <1>2, <1>3
    <3> QED
      BY <1>2, <3>1
  <2>3. /\ s \in Seq(EntrySet) /\ Len(s) = (IF 1 <= k THEN k - 1 + 1 ELSE 0)
        /\ \A i \in 1 .. k - 1 + 1 : s[i] = R[1 + i - 1]
    BY ONLY <2>1, <2>2, SubSeqProperties
  <2>4. t \in Seq(EntrySet) /\ Len(t) = z - x /\ \A i \in 1 .. z - x : t[i] = L[x + i]
    <3> HIDE DEF z, n
    <3> QED
      BY <1>3, SliceFacts DEF n
  <2>5. z - x = k
    BY <1>1, <1>3
  <2> HIDE DEF s, t, z
  <2>6. Len(s) = k /\ Len(t) = k
    BY <1>3, <2>3, <2>4, <2>5
  <2>7. \A i \in 1 .. k : s[i] = t[i]
    <3> SUFFICES ASSUME NEW i \in 1 .. k PROVE s[i] = t[i]
      OBVIOUS
    <3>1. i \in 1 .. k - 1 + 1 /\ 1 + i - 1 = i /\ i \in 1 .. m
      BY <1>3
    <3> QED
      BY <1>2, <2>3, <2>4, <2>5, <3>1
  <2>8. s = t
    BY <2>3, <2>4, <2>6, <2>7, SeqEqual
  <2> QED
    BY <2>8 DEF s, t
<1>5. SubSeq(R, k + 1, Len(R)) = Slice(L, z, n)
  <2> DEFINE a == k + 1
             s == SubSeq(R, a, m)
             t == Slice(L, z, n)
  <2>1. a \in Int /\ m \in Int /\ m - a + 1 = m - k /\ n - z = m - k /\ (a <= m <=> k < m)
    BY <1>1, <1>3
  <2>2. \A i \in a .. m : R[i] \in EntrySet
    <3>1. \A i \in a .. m : i \in 1 .. Len(R)
      BY <1>2, <1>3
    <3> QED
      BY <1>2, <3>1
  <2>0. \A i \in 1 .. m - k : /\ i \in 1 .. m - a + 1 /\ a + i - 1 \in 1 .. m
                              /\ x + (a + i - 1) = z + i /\ i \in 1 .. n - z
    BY <1>1, <1>3
  <2> HIDE DEF a, m
  <2>3. /\ s \in Seq(EntrySet) /\ Len(s) = (IF a <= m THEN m - a + 1 ELSE 0)
        /\ \A i \in 1 .. m - a + 1 : s[i] = R[a + i - 1]
    BY ONLY <2>1, <2>2, SubSeqProperties
  <2>4. t \in Seq(EntrySet) /\ Len(t) = n - z /\ \A i \in 1 .. n - z : t[i] = L[z + i]
    <3> HIDE DEF z, n
    <3> QED
      BY <1>3, SliceFacts DEF n
  <2> HIDE DEF s, t, z, n
  <2>6. Len(s) = m - k /\ Len(t) = m - k
    BY <1>3, <2>1, <2>3, <2>4
  <2>7. \A i \in 1 .. m - k : s[i] = t[i]
    <3> SUFFICES ASSUME NEW i \in 1 .. m - k PROVE s[i] = t[i]
      OBVIOUS
    <3>1. s[i] = R[a + i - 1] /\ R[a + i - 1] = L[x + (a + i - 1)] /\ t[i] = L[z + i]
      BY <1>2, <2>0, <2>3, <2>4
    <3> QED
      BY <2>0, <3>1
  <2>8. s = t
    BY <2>3, <2>4, <2>6, <2>7, SeqEqual
  <2> QED
    BY <1>2, <2>8 DEF s, t, a, n, z
<1> QED
  BY <1>3, <1>4, <1>5

(* When a call has written all its records the stream holds the whole log. *)
LEMMA PendingNone ==
    ASSUME NEW S, NEW L \in Seq(EntrySet), NEW t, Pending(S, L, t, <<>>)
    PROVE  \E cut : Clean(S, L, cut) /\ cut[Len(S) + 1] = Len(L)
<1>1. PICK cut : /\ Clean(S, L, cut)
                 /\ IF t \in ReadTags THEN <<>> = Slice(L, cut[Len(S) + 1], Len(L))
                                      ELSE cut[Len(S) + 1] = Len(L)
  BY DEF Pending
<1> DEFINE c == cut[Len(S) + 1]
<1>2. c \in 0 .. Len(L)
  BY <1>1 DEF Clean
<1> HIDE DEF c
<1>3. CASE t \in ReadTags
  <2>1. Len(L) \in Nat /\ Len(L) \in c .. Len(L) /\ c \in Nat
    BY <1>2
  <2>2. Len(Slice(L, c, Len(L))) = Len(L) - c
    BY <1>2, <2>1, SliceFacts
  <2>3. Slice(L, c, Len(L)) = <<>>
    BY <1>1, <1>3 DEF c
  <2>4. Len(L) - c = 0
    BY <2>2, <2>3
  <2>5. c = Len(L)
    BY <2>1, <2>4
  <2> QED
    BY <1>1, <2>5 DEF c
<1> QED
  BY <1>1, <1>3

(* A call starts, ... *)
LEMMA PendingStart ==
    ASSUME NEW S, NEW L \in Seq(EntrySet), NEW t, Pending(S, L, t, <<>>),
           NEW M \in Seq(EntrySet), NEW t2
    PROVE  Pending(S, IF t2 \in ReadTags THEN L \o M ELSE L, t2, M)
<1>1. PICK cut : Clean(S, L, cut) /\ cut[Len(S) + 1] = Len(L)
  BY PendingNone
<1>2. S # <<>>
  BY DEF Pending
<1>3. CASE t2 \in ReadTags
  <2> DEFINE N == L \o M
             x == Len(L)
             s == Slice(N, x, Len(N))
  <2>1. Clean(S, N, cut)
    BY <1>1, CleanLonger
  <2>2. /\ N \in Seq(EntrySet) /\ Len(N) = Len(L) + Len(M) /\ Len(M) \in Nat /\ x \in Nat
        /\ \A i \in 1 .. Len(M) : N[Len(L) + i] = M[i]
    OBVIOUS
  <2> HIDE DEF N
  <2>3. x \in 0 .. Len(N) /\ Len(N) \in x .. Len(N) /\ Len(N) - x = Len(M)
    BY <2>2
  <2>4. s \in Seq(EntrySet) /\ Len(s) = Len(N) - x /\ \A i \in 1 .. Len(N) - x : s[i] = N[x + i]
    BY <2>2, <2>3, SliceFacts
  <2> HIDE DEF s
  <2>5. Len(s) = Len(M) /\ \A i \in 1 .. Len(s) : s[i] = M[i]
    BY <2>2, <2>3, <2>4
  <2>6. s = M
    BY <2>4, <2>5, SeqEqual
  <2>7. Pending(S, N, t2, M)
    BY <1>1, <1>2, <1>3, <2>1, <2>6 DEF Pending, s
  <2> QED
    BY <1>3, <2>7 DEF N
<1>4. CASE t2 \notin ReadTags
  BY <1>1, <1>2, <1>4 DEF Pending
<1> QED
  BY <1>3, <1>4

(* ... and writes a record. *)
LEMMA PendingNext ==
    ASSUME NEW S \in Seq(UnitSet), NEW L \in Seq(EntrySet), NEW t, NEW R, Pending(S, L, t, R),
           NEW r, IsRecord(r), NEW k \in 0 .. Len(R),
           RecordEntries(r) = IF t \in ReadTags THEN SubSeq(R, 1, k) ELSE <<>>
    PROVE  Pending(S \o r, L, t, SubSeq(R, k + 1, Len(R)))
<1>1. PICK cut : /\ Clean(S, L, cut)
                 /\ IF t \in ReadTags THEN R = Slice(L, cut[Len(S) + 1], Len(L))
                                      ELSE cut[Len(S) + 1] = Len(L)
  BY DEF Pending
<1> DEFINE x == cut[Len(S) + 1]
           c == IF t \in ReadTags THEN x + k ELSE x
<1>2. x \in 0 .. Len(L) /\ x \in Nat /\ Len(L) \in Nat
  BY <1>1 DEF Clean
<1>3. t \in ReadTags => /\ x + k \in 0 .. Len(L) /\ SubSeq(R, 1, k) = Slice(L, x, x + k)
                        /\ SubSeq(R, k + 1, Len(R)) = Slice(L, x + k, Len(L))
  <2> HIDE DEF x
  <2> SUFFICES ASSUME t \in ReadTags
               PROVE  /\ x + k \in 0 .. Len(L) /\ SubSeq(R, 1, k) = Slice(L, x, x + k)
                      /\ SubSeq(R, k + 1, Len(R)) = Slice(L, x + k, Len(L))
    OBVIOUS
  <2>1. R = Slice(L, x, Len(L))
    BY <1>1 DEF x
  <2> QED
    BY <1>2, <2>1, SliceSplit
<1>4. c \in 0 .. Len(L) /\ x <= c
  <2>1. t \in ReadTags => k \in Nat
    <3> SUFFICES ASSUME t \in ReadTags PROVE k \in Nat
      OBVIOUS
    <3>1. R = Slice(L, x, Len(L)) /\ Len(L) \in x .. Len(L)
      BY <1>1, <1>2
    <3> HIDE DEF x
    <3>2. R \in Seq(EntrySet)
      BY <1>2, <3>1, SliceFacts
    <3>3. Len(R) \in Nat
      BY <3>2, LenProperties
    <3> QED
      BY <3>3
  <2> HIDE DEF x
  <2> QED
    BY <1>2, <1>3, <2>1
<1>5. RecordEntries(r) = Slice(L, x, c)
  <2>1. CASE t \in ReadTags
    BY <1>3, <2>1
  <2>2. CASE t \notin ReadTags
    <3> HIDE DEF x
    <3>1. Slice(L, x, x) = <<>>
      BY <1>2, SubSeqEmpty DEF Slice
    <3> QED
      BY <2>2, <3>1
  <2> QED
    BY <2>1, <2>2
<1> HIDE DEF c
<1>6. PICK new : Clean(S \o r, L, new) /\ new[Len(S) + Len(r) + 1] = c
  BY <1>1, <1>4, <1>5, CleanAppend
<1>7. Len(S \o r) = Len(S) + Len(r) /\ S \o r # <<>>
  <2>1. r \in Seq(UnitSet) /\ Len(r) >= 1
    BY DEF IsRecord
  <2> QED
    BY <2>1
<1>8. IF t \in ReadTags THEN SubSeq(R, k + 1, Len(R)) = Slice(L, c, Len(L)) ELSE c = Len(L)
  BY <1>1, <1>3 DEF c
<1> QED
  BY <1>6, <1>7, <1>8 DEF Pending

LEMMA PendingHeader ==
    Pending(<<FileHeader>>, <<>>, "FileHeader", <<>>)
<1>1. "FileHeader" \notin ReadTags
  BY DEF ReadTags, BatchTags, ItemTags
<1>2. <<>> \in Seq(EntrySet) /\ Len(<<>>) = 0
  OBVIOUS
<1>3. PICK cut : Clean(<<FileHeader>>, <<>>, cut) /\ cut[2] = 0
  BY <1>2, CleanHeader
<1>4. Len(<<FileHeader>>) + 1 = 2 /\ <<FileHeader>> # <<>>
  OBVIOUS
<1> QED
  BY <1>1, <1>2, <1>3, <1>4 DEF Pending
-----------------------------------------------------------------------------
LEMMA StreamFacts ==
    ASSUME LogTyped
    PROVE  /\ Stream \in Seq(UnitSet) /\ Begins(file, Stream)
           /\ record = <<>> => Stream = file \o buf
           /\ record = <<>> /\ buf = <<>> => Stream = file
<1> DEFINE b == buf \o record
<1>1. file \in Seq(UnitSet) /\ buf \in Seq(UnitSet) /\ record \in Seq(UnitSet)
  BY DEF LogTyped
<1>2. b \in Seq(UnitSet)
  BY ONLY <1>1, ConcatProperties
<1>3. record = <<>> => b = buf
  BY <1>1, ConcatEmptySeq
<1> HIDE DEF b
<1>4. /\ file \o b \in Seq(UnitSet) /\ Len(file \o b) = Len(file) + Len(b)
      /\ \A i \in 1 .. Len(file) : (file \o b)[i] = file[i]
      /\ b = <<>> => file \o b = file
  BY <1>1, <1>2
<1>5. Len(file) \in Nat /\ Len(b) \in Nat
  BY <1>1, <1>2
<1>6. Begins(file, file \o b)
  BY <1>4, <1>5 DEF Begins
<1> QED
  BY <1>3, <1>4, <1>6 DEF Stream, b

LEMMA HeadTailJoin ==
    ASSUME NEW s \in Seq(UnitSet), s # <<>>
    PROVE  <<Head(s)>> \o Tail(s) = s
<1> DEFINE t == <<Head(s)>> \o Tail(s)
<1>1. Head(s) \in UnitSet /\ Head(s) = s[1] /\ Len(s) \in Nat /\ Len(s) >= 1
  OBVIOUS
<1>2. Tail(s) \in Seq(UnitSet) /\ Len(Tail(s)) = Len(s) - 1 /\ \A i \in 1 .. Len(Tail(s)) : Tail(s)[i] = s[i + 1]
  BY HeadTailProperties
<1> DEFINE h == Head(s)
           u == Tail(s)
           g == <<h>>
<1> HIDE DEF h, u
<1>3. g \in Seq(UnitSet) /\ Len(g) = 1 /\ g[1] = h
  BY <1>1 DEF h
<1> HIDE DEF g
<1>4. /\ g \o u \in Seq(UnitSet) /\ Len(g \o u) = Len(g) + Len(u)
      /\ \A i \in 1 .. Len(g) + Len(u) : (g \o u)[i] = IF i <= Len(g) THEN g[i] ELSE u[i - Len(g)]
  <2>1. u \in Seq(UnitSet)
    BY <1>2 DEF u
  <2> QED
    BY ONLY <1>3, <2>1, ConcatProperties
<1> DEFINE w == g \o u
<1> HIDE DEF w
<1>5. Len(w) = Len(s)
  BY <1>1, <1>2, <1>3, <1>4 DEF w, u
<1>6. ASSUME NEW i \in 1 .. Len(w) PROVE w[i] = s[i]
  <2>1. CASE i = 1
    BY <1>1, <1>3, <1>4, <2>1 DEF w, h
  <2>2. CASE i # 1
    <3>1. i \in 1 .. Len(g) + Len(u) /\ ~(i <= Len(g)) /\ i - Len(g) = i - 1 /\ i - 1 \in 1 .. Len(u)
          /\ i - 1 + 1 = i
      BY <1>1, <1>2, <1>3, <1>4, <2>2 DEF w, u
    <3>2. w[i] = u[i - 1]
      BY <1>4, <3>1 DEF w
    <3>3. u[i - 1] = s[i - 1 + 1]
      BY <1>2, <3>1 DEF u
    <3> QED
      BY <3>1, <3>2, <3>3
  <2> QED
    BY <2>1, <2>2
<1>7. w \in Seq(UnitSet)
  BY <1>4 DEF w
<1>8. w = s
  BY <1>5, <1>6, <1>7, SeqEqual
<1> QED
  BY <1>8 DEF w, g, h, u

(* Writing moves units along the stream; only a new record extends it. *)
LEMMA StreamKept ==
    ASSUME LogTyped, WriteUnit \/ FlushBuffer
    PROVE  Stream' = Stream
<1>1. file \in Seq(UnitSet) /\ buf \in Seq(UnitSet) /\ record \in Seq(UnitSet)
  BY DEF LogTyped
<1>2. CASE WriteUnit
  <2> DEFINE h == Head(record)
             t == Tail(record)
             g == <<h>>
  <2>1. record # <<>> /\ record' = t
    BY <1>2 DEF WriteUnit
  <2>2. g \o t = record
    BY <1>1, <2>1, HeadTailJoin
  <2>3. h \in UnitSet /\ t \in Seq(UnitSet)
    BY ONLY <1>1, <2>1, HeadTailProperties
  <2>4. (buf' = Append(buf, h) /\ file' = file) \/ (buf' = g /\ file' = file \o buf)
    BY <1>2 DEF WriteUnit
  <2> HIDE DEF h, t
  <2>5. g \in Seq(UnitSet) /\ Append(buf, h) = buf \o g
    <3>1. Append(buf, h) = buf \o <<h>>
      BY ONLY <1>1, <2>3, AppendIsConcat
    <3>2. <<h>> \in Seq(UnitSet)
      BY <2>3
    <3> QED
      BY <3>1, <3>2
  <2> HIDE DEF g
  <2>6. (buf \o g) \o t = buf \o (g \o t)
    <3>1. buf \in Seq(UnitSet) /\ g \in Seq(UnitSet) /\ t \in Seq(UnitSet)
      BY <1>1, <2>3, <2>5
    <3> QED
      BY ONLY <3>1, ConcatAssociative
  <2>7. (file \o buf) \o (g \o t) = file \o (buf \o (g \o t))
    <3>1. g \o t \in Seq(UnitSet)
      BY <1>1, <2>2
    <3> DEFINE v == g \o t
    <3> HIDE DEF v
    <3>2. v \in Seq(UnitSet)
      BY <3>1 DEF v
    <3>3. (file \o buf) \o v = file \o (buf \o v)
      BY ONLY <1>1, <3>2, ConcatAssociative
    <3> QED
      BY <3>3 DEF v
  <2>8. Stream = file \o (buf \o (g \o t))
    BY <2>2 DEF Stream
  <2>9. CASE buf' = Append(buf, h) /\ file' = file
    <3>1. Stream' = file \o ((buf \o g) \o t)
      BY <2>1, <2>5, <2>9 DEF Stream
    <3> QED
      BY <2>6, <2>8, <3>1
  <2>10. CASE buf' = g /\ file' = file \o buf
    <3>1. Stream' = (file \o buf) \o (g \o t)
      BY <2>1, <2>10 DEF Stream
    <3> QED
      BY <2>7, <2>8, <3>1
  <2> QED
    BY <2>4, <2>9, <2>10
<1>3. CASE FlushBuffer
  <2>1. record = <<>> /\ record' = <<>> /\ buf' = <<>> /\ file' = file \o buf
    BY <1>3 DEF FlushBuffer, Written
  <2>2. buf \o <<>> = buf /\ <<>> \o <<>> = <<>> /\ (file \o buf) \o <<>> = file \o buf
    BY <1>1
  <2> QED
    BY <2>1, <2>2 DEF Stream
<1> QED
  BY <1>2, <1>3

LEMMA StreamGrows ==
    ASSUME LogTyped, NextRecord
    PROVE  Stream' = Stream \o record'
<1>1. file \in Seq(UnitSet) /\ buf \in Seq(UnitSet)
  BY DEF LogTyped
<1>2. record = <<>> /\ call.rest # <<>> /\ record' = Record(Chunk) /\ UNCHANGED <<file, buf>>
  BY DEF NextRecord, Chunk
<1>3. record' \in Seq(UnitSet)
  BY <1>2, RecordOfChunk
<1>4. Stream = file \o buf
  BY <1>2, StreamFacts
<1> DEFINE r == record'
<1>5. Stream' = file \o (buf \o r)
  BY <1>2 DEF Stream
<1>6. r \in Seq(UnitSet)
  BY <1>3
<1> HIDE DEF r
<1>7. (file \o buf) \o r = file \o (buf \o r)
  BY ONLY <1>1, <1>6, ConcatAssociative
<1> QED
  BY <1>4, <1>5, <1>7 DEF r
-----------------------------------------------------------------------------
LEMMA NoneFacts ==
    NoCall.rest = <<>> /\ NoCall.tag = "none" /\ NoCall.flush = FALSE
  BY DEF NoCall

LEMMA SoundStep ==
    ASSUME LogTyped, LogTyped', Sound, [Next]_vars
    PROVE  Sound'
<1> SUFFICES ASSUME failures' = 0, stage' # "dead" PROVE (Fresh \/ Framed)'
  BY DEF Sound
<1>0. /\ logged \in Seq(EntrySet) /\ Stream \in Seq(UnitSet) /\ failures \in Nat
      /\ call.rest \in Seq(EntrySet) /\ todo \in Seq(PartSet)
  BY StreamFacts, CallFields DEF LogTyped
<1>a. ASSUME stage # "dead", failures' = failures PROVE Fresh \/ Framed
  BY <1>a DEF Sound
<1>1. CASE Announce /\ ( \/ OpenLog
                        \/ \E n \in Nat : FlushEdges(n)
                        \/ \E nTb \in Nat, nEdge \in Nat : PluginExit(nTb, nEdge)
                        \/ ExitReturns )
  <2>1. /\ UNCHANGED <<file, buf, call, record, failures, logged>> /\ stage # "dead"
        /\ stage' \in {"run", "exit", "done"} /\ Stream' = Stream
    BY <1>1 DEF Announce, history, Stream
  <2>2. Fresh \/ Framed
    BY <1>a, <2>1
  <2>3. CASE OpenLog
    <3>1. stage = "open" /\ stage' = "run"
      BY <2>3 DEF OpenLog
    <3>2. /\ file = <<>> /\ buf = <<>> /\ record = <<>> /\ logged = <<>>
          /\ call = NoCall
      BY <2>2, <3>1 DEF Fresh, Framed
    <3>3. todo' # <<>> /\ Head(todo') = Part("FileHeader", 1) /\ NoHeader(Tail(todo'))
      BY <2>3, AnnounceFacts
    <3>4. Fresh'
      BY <2>1, <3>1, <3>2, <3>3 DEF Fresh
    <3> QED
      BY <3>4
  <2>4. ASSUME stage \in {"run", "exit"}, todo = <<>>, Idle, NoHeader(todo') PROVE Framed'
    <3>1. call.rest = <<>> /\ Len(<<>>) = 0
      BY <2>4 DEF Idle, Written
    <3>2. ~Fresh
      BY <2>4, <3>1 DEF Fresh
    <3>3. Framed
      BY <2>2, <3>2
    <3> QED
      BY <2>1, <2>4, <3>3 DEF Framed
  <2>5. ASSUME NEW n \in Nat, FlushEdges(n) PROVE Framed'
    <3>1. stage = "run" /\ todo = <<>> /\ Idle
      BY <2>5 DEF FlushEdges
    <3>2. NoHeader(todo')
      BY <2>5, AnnounceFacts
    <3> QED
      BY <2>4, <3>1, <3>2
  <2>6. ASSUME NEW nTb \in Nat, NEW nEdge \in Nat, PluginExit(nTb, nEdge) PROVE Framed'
    <3>1. stage = "run" /\ todo = <<>> /\ Idle
      BY <2>6 DEF PluginExit
    <3>2. NoHeader(todo')
      BY <2>6, AnnounceFacts
    <3> QED
      BY <2>4, <3>1, <3>2
  <2>7. CASE ExitReturns
    <3>1. stage = "exit" /\ todo = <<>> /\ Idle /\ todo' = todo
      BY <2>7 DEF ExitReturns
    <3>2. NoHeader(todo')
      BY <3>1 DEF NoHeader
    <3> QED
      BY <2>4, <3>1, <3>2
  <2> QED
    BY <1>1, <2>3, <2>5, <2>6, <2>7
<1>2. CASE StartCall
  <2> DEFINE p == Head(todo)
             new == NewEntries(p)
  <2>1. /\ todo # <<>> /\ record = <<>> /\ call.rest = <<>>
        /\ call' = [tag |-> p.tag, rest |-> new, flush |-> p.tag \in {"FlushMarker", "Footer"}]
        /\ logged' = (IF p.tag \in ReadTags THEN logged \o new ELSE logged) /\ todo' = Tail(todo)
        /\ UNCHANGED <<stage, file, buf, record, failures>>
    BY <1>2 DEF StartCall, Idle, Written
  <2>2. p \in PartSet /\ p = todo[1] /\ Len(todo) \in Nat /\ 1 \in 1 .. Len(todo)
    BY <1>0, <2>1
  <2>3. new \in Seq(EntrySet) /\ Len(new) = p.n
    BY <1>0, <2>2, NewEntriesFacts
  <2>4. Stream' = Stream
    BY <2>1 DEF Stream
  <2>5. Fresh \/ Framed
    BY <1>a, <2>1
  <2> HIDE DEF p, new
  <2>6. call'.tag = p.tag /\ call'.rest = new /\ call'.flush = (p.tag \in {"FlushMarker", "Footer"})
    BY <2>1
  <2>7. CASE Fresh
    <3>1. /\ stage = "run" /\ p = Part("FileHeader", 1) /\ NoHeader(todo')
          /\ file = <<>> /\ buf = <<>> /\ logged = <<>>
      <4>1. Len(<<>>) # 1
        OBVIOUS
      <4> QED
        BY <2>1, <2>7, <4>1 DEF Fresh, p
    <3>2. p.tag = "FileHeader" /\ p.n = 1
      BY <3>1, PartFields
    <3>3. p.tag \notin ReadTags /\ p.tag \notin {"FlushMarker", "Footer"}
      BY <3>2 DEF ReadTags, BatchTags, ItemTags
    <3>4. Fresh'
      BY <2>1, <2>3, <2>6, <3>1, <3>2, <3>3 DEF Fresh
    <3> QED
      BY <3>4
  <2>8. CASE Framed
    <3>1. Pending(Stream, logged, call.tag, <<>>) /\ NoHeader(todo) /\ stage # "open"
      BY <2>1, <2>8 DEF Framed
    <3>2. Pending(Stream, logged', p.tag, new)
      <4>1. Pending(Stream, IF p.tag \in ReadTags THEN logged \o new ELSE logged, p.tag, new)
        BY <1>0, <2>3, <3>1, PendingStart
      <4> QED
        BY <2>1, <4>1
    <3>3. p.tag # "FileHeader"
      BY <2>2, <3>1 DEF NoHeader
    <3>4. NoHeader(Tail(todo))
      <4>1. Len(Tail(todo)) = Len(todo) - 1 /\ \A i \in 1 .. Len(Tail(todo)) : Tail(todo)[i] = todo[i + 1]
        BY <1>0, <2>1, HeadTailProperties
      <4>2. \A i \in 1 .. Len(Tail(todo)) : i + 1 \in 1 .. Len(todo)
        BY <2>2, <4>1
      <4> QED
        BY <3>1, <4>1, <4>2 DEF NoHeader
    <3>5. Framed'
      BY <2>1, <2>4, <2>6, <3>1, <3>2, <3>3, <3>4 DEF Framed
    <3> QED
      BY <3>5
  <2> QED
    BY <2>5, <2>7, <2>8
<1>3. CASE NextRecord
  <2>1. /\ record = <<>> /\ call.rest # <<>> /\ record' = Record(Chunk)
        /\ call' = [call EXCEPT !.rest = Remaining]
        /\ UNCHANGED <<stage, file, buf, todo, failures, logged>>
    BY <1>3 DEF NextRecord, Chunk, Remaining, history
  <2>2. call'.tag = call.tag /\ call'.rest = Remaining
    BY <2>1 DEF LogTyped, CallSet
  <2>3. Stream' = Stream \o record'
    BY <1>3, StreamGrows
  <2>4. /\ ChunkLen \in 1 .. Len(call.rest) /\ Remaining \in Seq(EntrySet)
        /\ Len(Remaining) = Len(call.rest) - ChunkLen /\ Len(call.rest) \in Nat
    BY <2>1, ChunkFacts, CallFields
  <2>5. Fresh \/ Framed
    BY <1>a, <2>1
  <2>6. CASE Fresh
    <3>1. /\ stage = "run" /\ call.tag = "FileHeader" /\ Len(call.rest) = 1 /\ NoHeader(todo)
          /\ file = <<>> /\ buf = <<>> /\ logged = <<>>
      BY <2>1, <2>6, NoneFacts DEF Fresh
    <3>2. record' = <<FileHeader>>
      BY <2>1, <3>1, RecordOfChunk
    <3>3. Len(Remaining) = 0
      BY <2>4, <3>1
    <3>4. Remaining = <<>>
      BY <2>4, <3>3
    <3>5. Stream' = <<FileHeader>>
      <4>1. <<FileHeader>> \in Seq(UnitSet)
        BY UnitsTyped
      <4>2. <<>> \o <<FileHeader>> = <<FileHeader>>
        BY <4>1, ConcatEmptySeq
      <4> QED
        BY <2>1, <3>1, <3>2, <4>2 DEF Stream
    <3>6. Framed'
      BY <2>1, <2>2, <3>1, <3>4, <3>5, PendingHeader DEF Framed
    <3> QED
      BY <3>6
  <2>7. CASE Framed
    <3>1. /\ Pending(Stream, logged, call.tag, call.rest) /\ NoHeader(todo) /\ stage # "open"
          /\ call.tag # "FileHeader"
      BY <2>1, <2>7 DEF Framed
    <3>2. /\ IsRecord(record')
          /\ RecordEntries(record') = IF call.tag \in ReadTags THEN SubSeq(call.rest, 1, ChunkLen) ELSE <<>>
      BY <2>1, <3>1, RecordOfChunk DEF Chunk
    <3>3. ChunkLen \in 0 .. Len(call.rest)
      BY <2>4
    <3> DEFINE r == record'
               k == ChunkLen
               R == call.rest
               t == call.tag
    <3>4. /\ IsRecord(r) /\ RecordEntries(r) = (IF t \in ReadTags THEN SubSeq(R, 1, k) ELSE <<>>)
          /\ k \in 0 .. Len(R) /\ Pending(Stream, logged, t, R)
      BY <3>1, <3>2, <3>3
    <3> HIDE DEF r, k, R, t
    <3>5. Pending(Stream \o r, logged, t, SubSeq(R, k + 1, Len(R)))
      BY <1>0, <3>4, PendingNext
    <3>6. Pending(Stream', logged, call.tag, Remaining)
      BY <2>3, <3>5 DEF r, k, R, t, Remaining
    <3>7. Framed'
      BY <2>1, <2>2, <3>1, <3>6 DEF Framed
    <3> QED
      BY <3>7
  <2> QED
    BY <2>5, <2>6, <2>7
<1>4. CASE WriteUnit
  <2>1. record # <<>> /\ UNCHANGED <<stage, todo, call, failures, logged>>
    BY <1>4 DEF WriteUnit, history
  <2>2. Stream' = Stream
    BY <1>4, StreamKept
  <2>3. Framed
    BY <1>a, <2>1 DEF Fresh
  <2>4. Framed'
    BY <2>1, <2>2, <2>3 DEF Framed
  <2> QED
    BY <2>4
<1>5. CASE FlushBuffer
  <2>1. /\ call.flush /\ call.rest = <<>> /\ call' = [call EXCEPT !.flush = FALSE]
        /\ UNCHANGED <<stage, todo, failures, logged>>
    BY <1>5 DEF FlushBuffer, Written
  <2>2. Stream' = Stream
    BY <1>5, StreamKept
  <2>3. call'.tag = call.tag /\ call'.rest = call.rest
    BY <2>1 DEF LogTyped, CallSet
  <2>4. Framed
    BY <1>a, <2>1, NoneFacts DEF Fresh
  <2>5. Framed'
    BY <2>1, <2>2, <2>3, <2>4 DEF Framed
  <2> QED
    BY <2>5
<1>6. ASSUME NEW n \in Nat, WriteFails(n) PROVE FALSE
  <2>1. failures' = failures + 1
    BY <1>6 DEF WriteFails
  <2> QED
    BY <1>0, <2>1
<1>7. CASE Crash
  BY <1>7 DEF Crash
<1>8. CASE UNCHANGED vars
  <2>1. Fresh \/ Framed
    BY <1>8, <1>a DEF vars, history
  <2> QED
    BY <1>8, <2>1 DEF vars, totals, history, Fresh, Framed, Stream
<1> QED
  BY <1>1, <1>2, <1>3, <1>4, <1>5, <1>6, <1>7, <1>8, NextCases
-----------------------------------------------------------------------------
LEMMA PrefixFacts ==
    ASSUME NEW s \in Seq(EntrySet), NEW t \in Seq(EntrySet), Len(s) <= Len(t),
           \A i \in 1 .. Len(s) : s[i] = t[i]
    PROVE  IsPrefix(s, t)
<1> DEFINE n == Len(s)
<1>1. n \in Int /\ 1 \in Int
  OBVIOUS
<1>2. \A i \in 1 .. n : s[i] \in EntrySet /\ s[i] = t[i]
  OBVIOUS
<1> HIDE DEF n
<1>3. SubSeq(s, 1, n) = SubSeq(t, 1, n)
  BY ONLY <1>1, <1>2, SameSubSeq
<1> QED
  BY <1>3 DEF IsPrefix, n

LEMMA SliceIsPrefix ==
    ASSUME NEW L \in Seq(EntrySet), NEW c \in 0 .. Len(L)
    PROVE  IsPrefix(Slice(L, 0, c), L)
<1> DEFINE s == Slice(L, 0, c)
<1>1. 0 \in 0 .. Len(L) /\ c \in Nat /\ c <= Len(L) /\ c - 0 = c /\ \A i \in 1 .. c : 0 + i = i
  OBVIOUS
<1>2. s \in Seq(EntrySet) /\ Len(s) = c - 0 /\ \A i \in 1 .. c - 0 : s[i] = L[0 + i]
  BY <1>1, SliceFacts
<1> HIDE DEF s
<1>3. Len(s) <= Len(L) /\ \A i \in 1 .. Len(s) : s[i] = L[i]
  BY <1>1, <1>2
<1>4. IsPrefix(s, L)
  BY <1>2, <1>3, PrefixFacts
<1> QED
  BY <1>4 DEF s

(* A file that is a beginning of a clean stream is read as a prefix of the log. *)
LEMMA BeginningReads ==
    ASSUME NEW S \in Seq(UnitSet), NEW L \in Seq(EntrySet), NEW t, NEW R, Pending(S, L, t, R),
           NEW G \in Seq(UnitSet), Begins(G, S)
    PROVE  ~Parse(G).garbled /\ IsPrefix(Parse(G).entries, L)
<1>1. CASE G = <<>>
  <2>1. Parse(G) = HeaderError
    BY <1>1, ParseReads
  <2>2. HeaderError.garbled = FALSE /\ HeaderError.entries = <<>>
    BY DEF HeaderError, Empty
  <2>3. <<>> \in Seq(EntrySet) /\ Len(<<>>) = 0 /\ Len(<<>>) <= Len(L) /\ \A i \in 1 .. Len(<<>>) : <<>>[i] = L[i]
    OBVIOUS
  <2>4. IsPrefix(<<>>, L)
    BY <2>3, PrefixFacts
  <2> QED
    BY <2>1, <2>2, <2>4
<1>2. CASE G # <<>>
  <2>1. PICK cut : Clean(S, L, cut)
    BY DEF Pending
  <2>3. ~Parse(G).garbled /\ \E c \in 0 .. Len(L) : Parse(G).entries = Slice(L, 0, c)
    BY <1>2, <2>1, CutOffRead
  <2> QED
    BY <2>3, SliceIsPrefix
<1> QED
  BY <1>1, <1>2

LEMMA AliveReads ==
    ASSUME LogTyped, Sound, stage # "dead"
    PROVE  CrashLeavesPrefix
<1> SUFFICES ASSUME failures = 0
             PROVE  ~Parse(file).garbled /\ IsPrefix(Parse(file).entries, logged)
  BY DEF CrashLeavesPrefix
<1>1. logged \in Seq(EntrySet) /\ file \in Seq(UnitSet)
  BY DEF LogTyped
<1>2. Stream \in Seq(UnitSet) /\ Begins(file, Stream)
  BY StreamFacts
<1>3. CASE Fresh
  <2>1. file = <<>> /\ logged = <<>>
    BY <1>3 DEF Fresh
  <2>2. Parse(file) = HeaderError
    BY <2>1, ParseReads
  <2>3. HeaderError.garbled = FALSE /\ HeaderError.entries = <<>>
    BY DEF HeaderError, Empty
  <2>4. IsPrefix(<<>>, <<>>)
    BY DEF IsPrefix
  <2> QED
    BY <2>1, <2>2, <2>3, <2>4
<1>4. CASE Framed
  <2>1. Pending(Stream, logged, call.tag, call.rest)
    BY <1>4 DEF Framed
  <2> QED
    BY <1>1, <1>2, <2>1, BeginningReads
<1> QED
  BY <1>3, <1>4 DEF Sound

LEMMA DeadStep ==
    ASSUME LogTyped, Sound, DeadReads, [Next]_vars
    PROVE  DeadReads'
<1> SUFFICES ASSUME stage' = "dead" PROVE CrashLeavesPrefix'
  BY DEF DeadReads
<1>1. ASSUME UNCHANGED <<file, failures, logged>>, CrashLeavesPrefix PROVE CrashLeavesPrefix'
  BY <1>1 DEF CrashLeavesPrefix
<1>2. CASE Announce
  BY <1>2 DEF Announce
<1>3. CASE StartCall
  BY <1>3 DEF StartCall, LogTyped
<1>4. CASE NextRecord
  BY <1>4, NoneFacts DEF NextRecord, LogTyped
<1>5. CASE WriteUnit
  BY <1>5 DEF WriteUnit, LogTyped
<1>6. CASE FlushBuffer
  BY <1>6, NoneFacts DEF FlushBuffer, LogTyped
<1>7. ASSUME NEW n \in Nat, WriteFails(n) PROVE FALSE
  <2>1. stage' = stage /\ (record # <<>> \/ call.flush)
    BY <1>7 DEF WriteFails
  <2>2. record = <<>> /\ call = NoCall
    BY <2>1 DEF LogTyped
  <2> QED
    BY <2>1, <2>2, NoneFacts
<1>8. CASE Crash
  <2>1. stage # "dead" /\ UNCHANGED <<file, failures, logged>>
    BY <1>8 DEF Crash, history
  <2> QED
    BY <1>1, <2>1, AliveReads
<1>9. CASE UNCHANGED vars
  <2>1. stage = "dead" /\ UNCHANGED <<file, failures, logged>>
    BY <1>9 DEF vars, history
  <2> QED
    BY <1>1, <2>1 DEF DeadReads
<1> QED
  BY <1>2, <1>3, <1>4, <1>5, <1>6, <1>7, <1>8, <1>9, NextCases
-----------------------------------------------------------------------------
(* What is durable stays so, as the file and the log go on. *)
LEMMA DurableLater ==
    ASSUME NEW G \in Seq(UnitSet), NEW L \in Seq(EntrySet), NEW n, Durable(G, L, n),
           NEW X \in Seq(UnitSet), NEW M \in Seq(EntrySet)
    PROVE  Durable(G \o X, L \o M, n) /\ Durable(G \o X, L, n) /\ Durable(G, L \o M, n)
<1>1. PICK F \in Seq(UnitSet) : \E cut :
          F # <<>> /\ Begins(F, G) /\ Clean(F, L, cut) /\ cut[Len(F) + 1] = n
  BY DEF Durable
<1>2. PICK cut : F # <<>> /\ Begins(F, G) /\ Clean(F, L, cut) /\ cut[Len(F) + 1] = n
  BY <1>1
<1>3. Begins(F, G \o X)
  <2> DEFINE H == G \o X
  <2>1. Len(H) = Len(G) + Len(X) /\ Len(G) \in Nat /\ Len(X) \in Nat /\ Len(F) \in Nat
    OBVIOUS
  <2>2. \A i \in 1 .. Len(G) : H[i] = G[i]
    OBVIOUS
  <2>3. Len(F) <= Len(G) /\ \A i \in 1 .. Len(F) : F[i] = G[i]
    BY <1>2 DEF Begins
  <2> HIDE DEF H
  <2>4. Len(F) <= Len(H) /\ \A i \in 1 .. Len(F) : i \in 1 .. Len(G)
    BY <2>1, <2>3
  <2>5. Begins(F, H)
    BY <2>2, <2>3, <2>4 DEF Begins
  <2> QED
    BY <2>5 DEF H
<1>4. Clean(F, L \o M, cut)
  BY <1>2, CleanLonger
<1> QED
  BY <1>2, <1>3, <1>4 DEF Durable

LEMMA SyncedStep ==
    ASSUME LogTyped, LogTyped', Sound, Synced, [Next]_vars
    PROVE  Synced'
<1>0. /\ file \in Seq(UnitSet) /\ buf \in Seq(UnitSet) /\ logged \in Seq(EntrySet) /\ synced \in Nat
      /\ file' \in Seq(UnitSet)
  BY DEF LogTyped
<1>1. ASSUME UNCHANGED <<file, logged, synced>> PROVE Synced'
  BY <1>1 DEF Synced
<1>2. ASSUME NEW X \in Seq(UnitSet), file' = file \o X, UNCHANGED <<logged, synced>> PROVE Synced'
  <2> SUFFICES ASSUME synced > 0 PROVE Durable(file', logged, synced)
    BY <1>2 DEF Synced
  <2>1. Durable(file, logged, synced) /\ <<>> \in Seq(EntrySet)
    BY DEF Synced
  <2> QED
    BY <1>0, <1>2, <2>1, DurableLater
<1>3. CASE Announce
  BY <1>1, <1>3 DEF Announce, history
<1>4. CASE StartCall
  <2> DEFINE p == Head(todo)
             new == NewEntries(p)
  <2>1. /\ todo # <<>> /\ UNCHANGED <<file, synced>>
        /\ logged' = (IF p.tag \in ReadTags THEN logged \o new ELSE logged)
    BY <1>4 DEF StartCall
  <2>2. p \in PartSet
    BY <2>1 DEF LogTyped
  <2>3. new \in Seq(EntrySet)
    BY <1>0, <2>2, NewEntriesFacts
  <2> HIDE DEF p, new
  <2> SUFFICES ASSUME synced > 0 PROVE Durable(file, logged', synced)
    BY <2>1 DEF Synced
  <2>4. Durable(file, logged, synced) /\ <<>> \in Seq(UnitSet)
    BY DEF Synced
  <2>5. Durable(file, logged \o new, synced)
    BY <1>0, <2>3, <2>4, DurableLater
  <2> QED
    BY <2>1, <2>4, <2>5
<1>5. CASE NextRecord
  BY <1>1, <1>5 DEF NextRecord, history
<1>6. CASE WriteUnit
  <2>1. UNCHANGED <<logged, synced>> /\ (file' = file \/ file' = file \o buf)
    BY <1>6 DEF WriteUnit, history
  <2> QED
    BY <1>0, <1>1, <1>2, <2>1
<1>7. CASE FlushBuffer
  <2>1. /\ file' = file \o buf /\ UNCHANGED <<stage, logged, failures>> /\ record = <<>>
        /\ call.rest = <<>> /\ call.flush /\ synced' = (IF failures = 0 THEN Len(logged) ELSE synced)
    BY <1>7 DEF FlushBuffer, Written
  <2>2. CASE failures # 0
    BY <1>0, <1>2, <2>1, <2>2
  <2>3. CASE failures = 0
    <3>1. stage # "dead" /\ ~Fresh
      BY <2>1, NoneFacts DEF LogTyped, Fresh
    <3>2. Pending(Stream, logged, call.tag, <<>>)
      BY <2>1, <2>3, <3>1 DEF Sound, Framed
    <3>3. Stream = file'
      BY <2>1, StreamFacts
    <3>4. file' # <<>>
      BY <3>2, <3>3 DEF Pending
    <3>5. PICK cut : Clean(Stream, logged, cut) /\ cut[Len(Stream) + 1] = Len(logged)
      BY <1>0, <3>2, PendingNone
    <3> DEFINE G == file'
    <3>6. G \in Seq(UnitSet) /\ G # <<>> /\ Clean(G, logged, cut) /\ cut[Len(G) + 1] = Len(logged)
      BY <1>0, <3>3, <3>4, <3>5
    <3> HIDE DEF G
    <3>7. Begins(G, G)
      BY <3>6 DEF Begins
    <3>8. Durable(G, logged, Len(logged))
      BY <3>6, <3>7 DEF Durable
    <3> QED
      BY <2>1, <2>3, <3>8 DEF Synced, G
  <2> QED
    BY <2>2, <2>3
<1>8. ASSUME NEW n \in Nat, WriteFails(n) PROVE Synced'
  <2>1. file' = file \o SubSeq(buf, 1, n) /\ UNCHANGED <<logged, synced>> /\ n < Len(buf)
    BY <1>8 DEF WriteFails
  <2>2. SubSeq(buf, 1, n) \in Seq(UnitSet)
    <3>1. 1 \in Int /\ n \in Int /\ Len(buf) \in Nat
      BY <1>0
    <3>2. \A i \in 1 .. n : i \in 1 .. Len(buf)
      BY <2>1, <3>1
    <3>3. \A i \in 1 .. n : buf[i] \in UnitSet
      BY <1>0, <3>2
    <3> QED
      BY ONLY <3>1, <3>3, SubSeqProperties
  <2> QED
    BY <1>2, <2>1, <2>2
<1>9. CASE Crash
  BY <1>1, <1>9 DEF Crash, history
<1>10. CASE UNCHANGED vars
  BY <1>1, <1>10 DEF vars, history
<1> QED
  BY <1>3, <1>4, <1>5, <1>6, <1>7, <1>8, <1>9, <1>10, NextCases

LEMMA SyncedReads ==
    ASSUME LogTyped, Synced
    PROVE  FlushedStaysReadable
<1> SUFFICES ASSUME synced > 0 PROVE IsPrefix(SubSeq(logged, 1, synced), Parse(file).entries)
  BY DEF FlushedStaysReadable
<1>0. file \in Seq(UnitSet) /\ logged \in Seq(EntrySet)
  BY DEF LogTyped
<1>1. Durable(file, logged, synced)
  BY DEF Synced
<1>2. PICK F \in Seq(UnitSet) : \E cut :
          F # <<>> /\ Begins(F, file) /\ Clean(F, logged, cut) /\ cut[Len(F) + 1] = synced
  BY <1>1 DEF Durable
<1>3. PICK cut : F # <<>> /\ Begins(F, file) /\ Clean(F, logged, cut) /\ cut[Len(F) + 1] = synced
  BY <1>2
<1>4. synced \in 0 .. Len(logged) /\ Len(logged) \in Nat
  BY <1>0, <1>3 DEF Clean
<1>6. PICK Z \in Seq(EntrySet) : Parse(file).entries = Slice(logged, 0, synced) \o Z
  <2>1. F \in Seq(UnitSet) /\ F # <<>> /\ Clean(F, logged, cut) /\ Begins(F, file)
    BY <1>3
  <2>2. ReadsFirst(file, logged, cut[Len(F) + 1])
    BY ONLY <1>0, <2>1, ExtendedRead
  <2> QED
    BY <1>3, <2>2 DEF ReadsFirst
<1> DEFINE A == Slice(logged, 0, synced)
           P == A \o Z
<1>7. Parse(file).entries = P
  BY <1>6
<1>8. A \in Seq(EntrySet)
  <2>1. 0 \in 0 .. Len(logged) /\ synced \in 0 .. Len(logged)
    BY <1>4
  <2> QED
    BY <1>0, <2>1, SliceFacts
<1>9. A = SubSeq(logged, 1, synced)
  BY DEF Slice
<1> HIDE DEF A
<1>10. P \in Seq(EntrySet) /\ Len(A) <= Len(P) /\ \A i \in 1 .. Len(A) : A[i] = P[i]
  <2>1. Len(A) \in Nat /\ Len(Z) \in Nat
    BY <1>8
  <2>2. /\ P \in Seq(EntrySet) /\ Len(P) = Len(A) + Len(Z)
        /\ \A i \in 1 .. Len(A) + Len(Z) : P[i] = IF i <= Len(A) THEN A[i] ELSE Z[i - Len(A)]
    <3>1. A \in Seq(EntrySet) /\ Z \in Seq(EntrySet)
      BY <1>8
    <3> QED
      BY ONLY <3>1, ConcatProperties
  <2> HIDE DEF P
  <2> QED
    BY <2>1, <2>2
<1> HIDE DEF P
<1>11. IsPrefix(A, P)
  BY <1>8, <1>10, PrefixFacts
<1> QED
  BY <1>7, <1>9, <1>11
-----------------------------------------------------------------------------
LEMMA CountOfNone ==
    ASSUME NEW tags
    PROVE  Count(<<>>, tags) = 0
<1>1. {i \in DOMAIN <<>> : <<>>[i].tag \in tags} = {}
  OBVIOUS
<1> QED
  BY <1>1, FS_EmptySet DEF Count

LEMMA CountGrows ==
    ASSUME NEW L \in Seq(EntrySet), NEW M \in Seq(EntrySet), NEW t, OfKind(M, t), NEW tags
    PROVE  /\ Count(L, tags) \in Nat
           /\ Count(L \o M, tags) = Count(L, tags) + (IF t \in tags THEN Len(M) ELSE 0)
<1> DEFINE n == Len(L)
           m == Len(M)
           N == L \o M
           A == {i \in DOMAIN L : L[i].tag \in tags}
           B == {i \in DOMAIN N : N[i].tag \in tags}
           a == n + 1
           b == n + m
<1>1. n \in Nat /\ m \in Nat /\ DOMAIN L = 1 .. n
  OBVIOUS
<1>2. /\ N \in Seq(EntrySet) /\ Len(N) = n + m
      /\ \A i \in 1 .. n + m : N[i] = IF i <= n THEN L[i] ELSE M[i - n]
  BY ONLY L \in Seq(EntrySet), M \in Seq(EntrySet), ConcatProperties
<1>3. DOMAIN N = 1 .. n + m
  BY <1>2, LenProperties
<1>4. \A i \in 1 .. m : M[i].tag = t
  BY DEF OfKind
<1>5. IsFiniteSet(1 .. n)
  <2>1. 1 \in Int /\ n \in Int
    BY <1>1
  <2> QED
    BY ONLY <2>1, FS_Interval
<1>6. IsFiniteSet(A) /\ Cardinality(A) \in Nat
  <2>1. A \subseteq 1 .. n
    BY <1>1
  <2> HIDE DEF A
  <2>2. IsFiniteSet(A)
    BY <1>5, <2>1, FS_Subset
  <2> QED
    BY <2>2, FS_CardinalityType
<1> HIDE DEF N
<1>7. \A i \in 1 .. n : i \in DOMAIN N /\ N[i] = L[i]
  BY <1>1, <1>2, <1>3
<1>8. \A i \in a .. b : i \in DOMAIN N /\ N[i].tag = t
  <2> SUFFICES ASSUME NEW i \in a .. b PROVE i \in DOMAIN N /\ N[i].tag = t
    OBVIOUS
  <2>1. i \in 1 .. n + m /\ ~(i <= n) /\ i - n \in 1 .. m
    BY <1>1
  <2> QED
    BY <1>2, <1>3, <1>4, <2>1
<1>9. \A i \in DOMAIN N : i \in 1 .. n \/ i \in a .. b
  BY <1>1, <1>3
<1>10. CASE t \notin tags
  <2>1. A = B
    <3> HIDE DEF a, b, n, m
    <3> QED
      BY <1>1, <1>7, <1>8, <1>9, <1>10
  <2>2. Count(L, tags) = Cardinality(A) /\ Count(L \o M, tags) = Cardinality(B)
    BY DEF Count, N
  <2> HIDE DEF A, B
  <2> QED
    BY <1>6, <1>10, <2>1, <2>2
<1>11. CASE t \in tags
  <2> DEFINE C == a .. b
  <2>1. B = A \cup C
    <3> HIDE DEF a, b, n, m
    <3> QED
      BY <1>1, <1>7, <1>8, <1>9, <1>11
  <2>2. A \cap C = {}
    BY <1>1
  <2>3. IsFiniteSet(C) /\ Cardinality(C) = m
    <3>1. a \in Int /\ b \in Int /\ (IF a > b THEN 0 ELSE b - a + 1) = m
      BY <1>1
    <3> HIDE DEF a, b
    <3>2. IsFiniteSet(C) /\ Cardinality(C) = IF a > b THEN 0 ELSE b - a + 1
      BY ONLY <3>1, FS_Interval
    <3> QED
      BY <3>1, <3>2
  <2> HIDE DEF A, B, C
  <2>4. Cardinality(A \cup C) = Cardinality(A) + Cardinality(C) - Cardinality(A \cap C)
    BY ONLY <1>6, <2>3, FS_Union
  <2>5. Cardinality(A \cap C) = 0
    BY <2>2, FS_EmptySet
  <2>6. Cardinality(B) = Cardinality(A) + m
    BY <1>1, <1>6, <2>1, <2>3, <2>4, <2>5
  <2> QED
    BY <1>6, <1>11, <2>6 DEF Count, A, B, N
<1> QED
  BY <1>10, <1>11

LEMMA BalanceStep ==
    ASSUME LogTyped, LogTyped', Balance, [Next]_vars
    PROVE  Balance'
<1> DEFINE Even(tags, total) == Count(logged, tags) = total + Uncredited(tags)
<1> SUFFICES ASSUME failures' = 0, stage' # "dead"
             PROVE  /\ Count(logged', TbTags) = tbTotal' + Uncredited(TbTags)'
                    /\ Count(logged', EdgeTags) = edgeTotal' + Uncredited(EdgeTags)'
  BY DEF Balance
<1>0. /\ logged \in Seq(EntrySet) /\ failures \in Nat /\ tbTotal \in Nat /\ edgeTotal \in Nat
      /\ call.rest \in Seq(EntrySet) /\ Len(call.rest) \in Nat /\ record \in Seq(UnitSet)
      /\ Uniform(record, call.tag)
  BY CallFields DEF LogTyped
<1>a. ASSUME stage # "dead", failures' = failures PROVE Even(TbTags, tbTotal) /\ Even(EdgeTags, edgeTotal)
  BY <1>a DEF Balance
<1>b. TbTags \subseteq BatchTags /\ EdgeTags \subseteq BatchTags
  BY DEF TbTags, EdgeTags, BatchTags
<1>c. ASSUME UNCHANGED <<logged, record, tbTotal, edgeTotal, failures>>, stage # "dead",
             call'.tag = call.tag, call'.rest = call.rest
      PROVE  /\ Count(logged', TbTags) = tbTotal' + Uncredited(TbTags)'
             /\ Count(logged', EdgeTags) = edgeTotal' + Uncredited(EdgeTags)'
  <2>1. Uncredited(TbTags)' = Uncredited(TbTags) /\ Uncredited(EdgeTags)' = Uncredited(EdgeTags)
    BY <1>c DEF Uncredited, TbTags, EdgeTags
  <2> QED
    BY <1>a, <1>c, <2>1
<1>1. CASE Announce
  <2>1. UNCHANGED <<logged, record, tbTotal, edgeTotal, failures, call>> /\ stage # "dead"
    BY <1>1 DEF Announce, totals, history
  <2> QED
    BY <1>c, <2>1
<1>2. CASE StartCall
  <2> DEFINE p == Head(todo)
             new == NewEntries(p)
  <2>1. /\ todo # <<>> /\ record = <<>> /\ call.rest = <<>>
        /\ call' = [tag |-> p.tag, rest |-> new, flush |-> p.tag \in {"FlushMarker", "Footer"}]
        /\ logged' = (IF p.tag \in ReadTags THEN logged \o new ELSE logged)
        /\ UNCHANGED <<stage, record, failures, tbTotal, edgeTotal>>
    BY <1>2 DEF StartCall, Idle, Written, totals
  <2>2. p \in PartSet
    BY <2>1 DEF LogTyped
  <2>3. new \in Seq(EntrySet) /\ OfKind(new, p.tag)
    BY <1>0, <2>2, NewEntriesFacts
  <2>4. Even(TbTags, tbTotal) /\ Even(EdgeTags, edgeTotal)
    BY <1>a, <2>1
  <2> HIDE DEF p, new
  <2>5. call'.tag = p.tag /\ call'.rest = new
    BY <2>1
  <2>6. ASSUME NEW tags, tags \subseteq BatchTags
        PROVE  /\ Count(logged', tags) = Count(logged, tags) + (IF p.tag \in tags THEN Len(new) ELSE 0)
               /\ Count(logged, tags) \in Nat
    <3>1. /\ Count(logged \o new, tags) = Count(logged, tags) + (IF p.tag \in tags THEN Len(new) ELSE 0)
          /\ Count(logged, tags) \in Nat
      <4> DEFINE t == p.tag
      <4>1. logged \in Seq(EntrySet) /\ new \in Seq(EntrySet) /\ OfKind(new, t)
        BY <1>0, <2>3
      <4> HIDE DEF t
      <4>2. /\ Count(logged, tags) \in Nat
            /\ Count(logged \o new, tags) = Count(logged, tags) + (IF t \in tags THEN Len(new) ELSE 0)
        BY ONLY <4>1, CountGrows
      <4> QED
        BY <4>2 DEF t
    <3>2. p.tag \notin ReadTags => p.tag \notin tags
      BY <2>6, TagFacts
    <3> QED
      BY <2>1, <3>1, <3>2
  <2>7. Uncredited(TbTags) = 0 /\ Uncredited(EdgeTags) = 0
    BY <2>1 DEF Uncredited
  <2>8. Len(new) \in Nat
    BY <2>3
  <2>9. /\ Uncredited(TbTags)' = (IF p.tag \in TbTags THEN Len(new) ELSE 0)
        /\ Uncredited(EdgeTags)' = (IF p.tag \in EdgeTags THEN Len(new) ELSE 0)
    <3>1. record' = <<>>
      BY <2>1
    <3> QED
      BY <2>5, <2>8, <3>1 DEF Uncredited, TbTags, EdgeTags
  <2>10. /\ Count(logged', TbTags) = Count(logged, TbTags) + Uncredited(TbTags)'
         /\ Count(logged', EdgeTags) = Count(logged, EdgeTags) + Uncredited(EdgeTags)'
    BY <1>b, <2>6, <2>9
  <2> QED
    BY <1>0, <2>1, <2>4, <2>7, <2>10
<1>3. CASE NextRecord
  <2>1. /\ record = <<>> /\ call.rest # <<>> /\ record' = Record(Chunk)
        /\ call' = [call EXCEPT !.rest = Remaining]
        /\ UNCHANGED <<stage, failures, logged, tbTotal, edgeTotal>>
    BY <1>3 DEF NextRecord, Chunk, Remaining, history, totals
  <2>2. call'.tag = call.tag /\ call'.rest = Remaining
    BY <2>1 DEF LogTyped, CallSet
  <2>3. /\ ChunkLen \in 1 .. Len(call.rest) /\ Len(Remaining) = Len(call.rest) - ChunkLen
    BY <2>1, ChunkFacts
  <2>4. record' # <<>> /\ (call.tag \in BatchTags => record'[Len(record')].closes = ChunkLen)
    BY <2>1, RecordOfChunk
  <2>5. Even(TbTags, tbTotal) /\ Even(EdgeTags, edgeTotal)
    <3>1. stage # "dead"
      BY <2>1
    <3> QED
      BY <1>a, <2>1, <3>1
  <2>6. Len(Remaining) + ChunkLen = Len(call.rest) /\ Len(call.rest) + 0 = Len(call.rest)
    BY <1>0, <2>3
  <2>7. Uncredited(TbTags)' = Uncredited(TbTags) /\ Uncredited(EdgeTags)' = Uncredited(EdgeTags)
    <3>1. TbTags' = TbTags /\ EdgeTags' = EdgeTags
      BY DEF TbTags, EdgeTags
    <3>2. ASSUME NEW tags, tags \subseteq BatchTags
          PROVE  (IF call'.tag \in tags
                  THEN Len(call'.rest) + (IF record' = <<>> THEN 0 ELSE record'[Len(record')].closes)
                  ELSE 0)
                 = (IF call.tag \in tags
                    THEN Len(call.rest) + (IF record = <<>> THEN 0 ELSE record[Len(record)].closes)
                    ELSE 0)
      BY <2>1, <2>2, <2>4, <2>6, <3>2
    <3> QED
      BY <1>b, <3>1, <3>2 DEF Uncredited
  <2> QED
    BY <2>1, <2>5, <2>7
<1>4. CASE WriteUnit
  <2> DEFINE x == Head(record)
             n == Len(record)
             last == record[n]
  <2>1. /\ record # <<>> /\ record' = Tail(record) /\ Credit(x)
        /\ UNCHANGED <<stage, call, failures, logged>>
    BY <1>4 DEF WriteUnit, history
  <2>2. /\ x \in UnitSet /\ x = record[1] /\ (record' = <<>> <=> n = 1)
        /\ record' # <<>> => record'[Len(record')] = last
    BY <1>0, <2>1, TailFacts
  <2>3. Even(TbTags, tbTotal) /\ Even(EdgeTags, edgeTotal)
    BY <1>a, <2>1
  <2>4. n \in Nat /\ n >= 1 /\ 1 \in 1 .. n /\ n \in 1 .. n
    BY <1>0, <2>1
  <2>5. x.u = "entry" => x.e.tag = call.tag /\ (1 < n => x.closes = 0)
    BY <1>0, <2>2, <2>4 DEF Uniform
  <2>6. call.tag \in BatchTags => last.u = "entry" /\ last.closes \in Nat
    <3>1. last \in UnitSet
      BY <1>0, <2>4
    <3>2. call.tag \in BatchTags => last.u = "entry"
      BY <2>1 DEF LogTyped
    <3> QED
      BY <3>1, <3>2, UnitFacts
  <2> DEFINE add(tags) == IF x.u = "entry" /\ x.e.tag \in tags THEN x.closes ELSE 0
  <2>7. /\ tbTotal' = tbTotal + add(TbTags) /\ edgeTotal' = edgeTotal + add(EdgeTags)
    <3>1. Credit(x)
      BY <2>1
    <3> HIDE DEF x
    <3> QED
      BY <1>0, <3>1 DEF Credit, TbTags, EdgeTags
  <2> DEFINE owed(tags, r) == IF call.tag \in tags
                              THEN Len(call.rest) + (IF r = <<>> THEN 0 ELSE r[Len(r)].closes)
                              ELSE 0
  <2>8. ASSUME NEW tags, tags \subseteq BatchTags
        PROVE  owed(tags, record) = add(tags) + owed(tags, record') /\ add(tags) \in Nat /\ owed(tags, record') \in Nat
    <3>1. CASE call.tag \notin tags
      <4>1. add(tags) = 0
        BY <2>5, <3>1
      <4> QED
        BY <3>1, <4>1
    <3>2. CASE call.tag \in tags
      <4>1. call.tag \in BatchTags
        BY <2>8, <3>2
      <4>2. last.u = "entry" /\ last.closes \in Nat
        BY <2>6, <4>1
      <4>3. owed(tags, record) = Len(call.rest) + last.closes
        BY <2>1, <3>2
      <4>4. CASE n = 1
        <5>1. x = last /\ record' = <<>>
          BY <2>2, <4>4
        <5>2. add(tags) = last.closes
          BY <2>5, <3>2, <4>2, <5>1
        <5>3. owed(tags, record') = Len(call.rest)
          BY <1>0, <3>2, <5>1
        <5> HIDE DEF add, owed, last
        <5> QED
          BY <1>0, <4>2, <4>3, <5>2, <5>3
      <4>5. CASE n # 1
        <5>1. 1 < n
          BY <2>4, <4>5, SMTT(30)
        <5>2. add(tags) = 0
          BY <2>5, <5>1
        <5>3. owed(tags, record') = Len(call.rest) + last.closes
          BY <2>2, <3>2, <4>5
        <5> HIDE DEF add, owed, last
        <5> QED
          BY <1>0, <4>2, <4>3, <5>2, <5>3
      <4> QED
        BY <4>4, <4>5
    <3> QED
      BY <3>1, <3>2
  <2>9. /\ Uncredited(TbTags) = owed(TbTags, record) /\ Uncredited(EdgeTags) = owed(EdgeTags, record)
        /\ Uncredited(TbTags)' = owed(TbTags, record') /\ Uncredited(EdgeTags)' = owed(EdgeTags, record')
    BY <2>1 DEF Uncredited, TbTags, EdgeTags
  <2> HIDE DEF add, owed, x, n, last
  <2>10. /\ Uncredited(TbTags) = add(TbTags) + Uncredited(TbTags)' /\ add(TbTags) \in Nat
         /\ Uncredited(TbTags)' \in Nat
         /\ Uncredited(EdgeTags) = add(EdgeTags) + Uncredited(EdgeTags)' /\ add(EdgeTags) \in Nat
         /\ Uncredited(EdgeTags)' \in Nat
    BY <1>b, <2>8, <2>9
  <2> QED
    BY <1>0, <2>1, <2>3, <2>7, <2>10, SMTT(30)
<1>5. CASE FlushBuffer
  <2>1. /\ call.flush /\ call' = [call EXCEPT !.flush = FALSE]
        /\ UNCHANGED <<stage, record, failures, logged, tbTotal, edgeTotal>>
    BY <1>5 DEF FlushBuffer, totals
  <2>2. call'.tag = call.tag /\ call'.rest = call.rest
    BY <2>1 DEF LogTyped, CallSet
  <2> QED
    BY <1>c, <2>1, <2>2
<1>6. ASSUME NEW n \in Nat, WriteFails(n) PROVE FALSE
  <2>1. failures' = failures + 1
    BY <1>6 DEF WriteFails
  <2> QED
    BY <1>0, <2>1
<1>7. CASE Crash
  BY <1>7 DEF Crash
<1>8. CASE UNCHANGED vars
  BY <1>8, <1>c DEF vars, totals, history
<1> QED
  BY <1>1, <1>2, <1>3, <1>4, <1>5, <1>6, <1>7, <1>8, NextCases
-----------------------------------------------------------------------------
LEMMA FooterLastStep ==
    ASSUME LogTyped, LogTyped', FooterLast, [Next]_vars
    PROVE  FooterLast'
<1>0. /\ todo \in Seq(PartSet) /\ call.rest \in Seq(EntrySet) /\ Len(call.rest) \in Nat /\ Len(todo) \in Nat
      /\ call.flush \in BOOLEAN
  BY CallFields DEF LogTyped
<1>a. ASSUME UNCHANGED <<stage, todo>>, call'.tag = call.tag, Len(call'.rest) \in Nat,
             Len(call'.rest) <= Len(call.rest), call'.flush => call.flush
      PROVE  FooterLast'
  <2>1. Len(call.rest) <= 1 => Len(call'.rest) <= 1
    BY <1>0, <1>a
  <2> QED
    BY <1>a, <2>1 DEF FooterLast
<1>1. CASE OpenLog
  <2>1. stage = "open" /\ stage' = "run" /\ call' = call /\ \A i \in 1 .. Len(todo') : todo'[i].tag # "Footer"
    BY <1>1, AnnounceFacts DEF OpenLog
  <2> QED
    BY <2>1 DEF FooterLast
<1>2. ASSUME NEW n \in Nat, FlushEdges(n) PROVE FooterLast'
  <2>1. stage = "run" /\ stage' = "run" /\ call' = call /\ \A i \in 1 .. Len(todo') : todo'[i].tag # "Footer"
    BY <1>2, AnnounceFacts DEF FlushEdges
  <2> QED
    BY <2>1 DEF FooterLast
<1>3. ASSUME NEW nTb \in Nat, NEW nEdge \in Nat, PluginExit(nTb, nEdge) PROVE FooterLast'
  <2>1. /\ stage = "run" /\ stage' = "exit" /\ call' = call
        /\ todo' # <<>> /\ todo'[Len(todo')].tag = "Footer"
        /\ \A i \in 1 .. Len(todo') : todo'[i].tag = "Footer" => i = Len(todo') /\ todo'[i].n = 1
    BY <1>3, AnnounceFacts DEF PluginExit
  <2>2. call.tag # "Footer"
    BY <2>1 DEF FooterLast
  <2> QED
    BY <2>1, <2>2 DEF FooterLast
<1>4. CASE ExitReturns
  <2>1. stage = "exit" /\ stage' = "done" /\ todo = <<>> /\ todo' = todo /\ call' = call /\ ~call.flush
    BY <1>4 DEF ExitReturns, Idle
  <2>2. call.tag = "Footer" /\ Len(call.rest) <= 1
    BY <2>1 DEF FooterLast
  <2>3. \A i \in 1 .. Len(todo') : FALSE
    BY <2>1
  <2> QED
    BY <2>1, <2>2, <2>3 DEF FooterLast
<1>5. CASE StartCall
  <2> DEFINE p == Head(todo)
             new == NewEntries(p)
             l == Len(todo)
             s == Tail(todo)
  <2>1. /\ todo # <<>> /\ todo' = s /\ stage' = stage
        /\ call' = [tag |-> p.tag, rest |-> new, flush |-> p.tag \in {"FlushMarker", "Footer"}]
    BY <1>5 DEF StartCall
  <2>2. p \in PartSet /\ p = todo[1] /\ l \in Nat /\ l >= 1 /\ 1 \in 1 .. l
    BY <1>0, <2>1
  <2>3. Len(s) = l - 1 /\ \A i \in 1 .. Len(s) : s[i] = todo[i + 1]
    BY <1>0, <2>1, HeadTailProperties
  <2>4. s = <<>> <=> l = 1
    <3>1. s \in Seq(PartSet)
      BY <1>0, <2>1, HeadTailProperties
    <3> HIDE DEF s
    <3>2. s = <<>> <=> Len(s) = 0
      BY <3>1
    <3> HIDE DEF l
    <3> QED
      BY <2>2, <2>3, <3>2
  <2>5. Len(new) = p.n
    BY <2>2, NewEntriesFacts DEF LogTyped
  <2> HIDE DEF p, new, s
  <2>6. call'.tag = p.tag /\ call'.rest = new
    BY <2>1
  <2>7. stage # "done"
    BY <2>1 DEF FooterLast
  <2>8. ASSUME NEW i \in 1 .. Len(s), s[i].tag = "Footer" PROVE i = Len(s) /\ s[i].n = 1 /\ stage = "exit"
    <3>1. i + 1 \in 1 .. l /\ s[i] = todo[i + 1]
      BY <2>2, <2>3
    <3>2. i + 1 = l /\ s[i].n = 1 /\ stage = "exit"
      BY <2>8, <3>1 DEF FooterLast
    <3> HIDE DEF l
    <3> QED
      BY <2>2, <2>3, <3>2
  <2>9. stage = "exit" /\ s # <<>> => s[Len(s)].tag = "Footer"
    <3> SUFFICES ASSUME stage = "exit", s # <<>> PROVE s[Len(s)].tag = "Footer"
      OBVIOUS
    <3>1. Len(s) \in 1 .. Len(s) /\ Len(s) + 1 = l
      BY <2>2, <2>3, <2>4
    <3>2. todo[l].tag = "Footer"
      BY <2>1 DEF FooterLast
    <3> QED
      BY <2>3, <3>1, <3>2
  <2>10. stage = "exit" /\ s = <<>> => p.tag = "Footer"
    BY <2>1, <2>2, <2>4 DEF FooterLast
  <2>11. p.tag = "Footer" => s = <<>> /\ stage = "exit" /\ Len(new) <= 1
    <3> SUFFICES ASSUME p.tag = "Footer" PROVE s = <<>> /\ stage = "exit" /\ Len(new) <= 1
      OBVIOUS
    <3>1. 1 = l /\ p.n = 1 /\ stage = "exit"
      BY <2>2 DEF FooterLast
    <3> QED
      BY <2>4, <2>5, <3>1
  <2> QED
    BY <2>1, <2>6, <2>7, <2>8, <2>9, <2>10, <2>11 DEF FooterLast
<1>6. CASE NextRecord
  <2>1. /\ call.rest # <<>> /\ call' = [call EXCEPT !.rest = Remaining] /\ UNCHANGED <<stage, todo>>
    BY <1>6 DEF NextRecord, Remaining
  <2>2. call'.tag = call.tag /\ call'.rest = Remaining /\ call'.flush = call.flush
    BY <2>1 DEF LogTyped, CallSet
  <2>3. Len(Remaining) \in Nat /\ Len(Remaining) <= Len(call.rest)
    <3>1. ChunkLen \in 1 .. Len(call.rest) /\ Len(Remaining) = Len(call.rest) - ChunkLen
      BY <2>1, ChunkFacts
    <3> QED
      BY <1>0, <3>1
  <2> QED
    BY <1>a, <2>1, <2>2, <2>3
<1>7. CASE WriteUnit
  <2>1. UNCHANGED <<stage, todo, call>>
    BY <1>7 DEF WriteUnit
  <2> QED
    BY <1>0, <1>a, <2>1
<1>8. CASE FlushBuffer
  <2>1. call' = [call EXCEPT !.flush = FALSE] /\ UNCHANGED <<stage, todo>>
    BY <1>8 DEF FlushBuffer
  <2>2. call'.tag = call.tag /\ call'.rest = call.rest /\ call'.flush = FALSE
    BY <2>1 DEF LogTyped, CallSet
  <2> QED
    BY <1>0, <1>a, <2>1, <2>2
<1>9. ASSUME NEW n \in Nat, WriteFails(n) PROVE FooterLast'
  <2> DEFINE rs == IF call.tag \in BatchTags THEN <<>> ELSE call.rest
  <2>1. call' = [call EXCEPT !.rest = rs, !.flush = FALSE]
    BY <1>9 DEF WriteFails
  <2>2. UNCHANGED <<stage, todo>>
    BY <1>9 DEF WriteFails
  <2>3. Len(rs) \in Nat /\ Len(rs) <= Len(call.rest)
    BY <1>0
  <2> HIDE DEF rs
  <2>4. call'.tag = call.tag /\ call'.rest = rs /\ call'.flush = FALSE
    BY <2>1 DEF LogTyped, CallSet
  <2> QED
    BY <1>a, <2>2, <2>3, <2>4
<1>10. CASE Crash
  <2>1. stage' = "dead" /\ todo' = <<>> /\ call' = NoCall
    BY <1>10 DEF Crash
  <2>2. \A i \in 1 .. Len(todo') : FALSE
    BY <2>1
  <2> QED
    BY <2>1, <2>2, NoneFacts DEF FooterLast
<1>11. CASE UNCHANGED vars
  BY <1>0, <1>11, <1>a DEF vars
<1> QED
  BY <1>1, <1>2, <1>3, <1>4, <1>5, <1>6, <1>7, <1>8, <1>9, <1>10, <1>11, NextCases

LEMMA ClosedStep ==
    ASSUME LogTyped, LogTyped', Sound, FooterLast, Closed, [Next]_vars
    PROVE  Closed'
<1> SUFFICES ASSUME failures' = 0, call'.tag = "Footer"
             PROVE  /\ call'.rest = <<>> => Ended(Stream', logged', tbTotal', edgeTotal')
                    /\ ~call'.flush => call'.rest = <<>> /\ record' = <<>> /\ buf' = <<>>
  BY DEF Closed
<1>0. failures \in Nat /\ logged \in Seq(EntrySet) /\ record \in Seq(UnitSet) /\ Uniform(record, call.tag)
      /\ Stream \in Seq(UnitSet) /\ call.flush \in BOOLEAN
  BY StreamFacts, CallFields DEF LogTyped
<1>a. ASSUME failures' = failures, call.tag = "Footer"
      PROVE  /\ call.rest = <<>> => Ended(Stream, logged, tbTotal, edgeTotal)
             /\ ~call.flush => call.rest = <<>> /\ record = <<>> /\ buf = <<>>
  BY <1>a DEF Closed
<1>1. CASE Announce
  <2>1. UNCHANGED <<call, record, buf, logged, tbTotal, edgeTotal, failures>> /\ Stream' = Stream
    BY <1>1 DEF Announce, totals, history, Stream
  <2> QED
    BY <1>a, <2>1
<1>2. CASE StartCall
  <2> DEFINE p == Head(todo)
             new == NewEntries(p)
  <2>1. /\ todo # <<>> /\ todo \in Seq(PartSet)
        /\ call' = [tag |-> p.tag, rest |-> new, flush |-> p.tag \in {"FlushMarker", "Footer"}]
    BY <1>2 DEF StartCall, LogTyped
  <2>2. p \in PartSet /\ p = todo[1] /\ 1 \in 1 .. Len(todo)
    BY <2>1
  <2>3. Len(new) = p.n
    BY <1>0, <2>2, NewEntriesFacts
  <2> HIDE DEF p, new
  <2>4. p.tag = "Footer" /\ call'.rest = new /\ call'.flush
    BY <2>1
  <2>5. p.n = 1
    BY <2>2, <2>4 DEF FooterLast
  <2>6. new # <<>>
    BY <2>3, <2>5
  <2> QED
    BY <2>4, <2>6
<1>3. CASE NextRecord
  <2>1. /\ record = <<>> /\ call.rest # <<>> /\ record' = Record(Chunk)
        /\ call' = [call EXCEPT !.rest = Remaining]
        /\ UNCHANGED <<stage, logged, tbTotal, edgeTotal, failures>>
    BY <1>3 DEF NextRecord, Chunk, Remaining, history, totals
  <2>2. call.tag = "Footer" /\ call'.flush = call.flush
    BY <2>1 DEF LogTyped, CallSet
  <2>3. call.flush
    BY <1>a, <2>1, <2>2
  <2>4. stage # "dead" /\ ~Fresh
    BY <2>2, NoneFacts DEF LogTyped, Fresh
  <2>5. Pending(Stream, logged, "Footer", call.rest)
    BY <2>1, <2>2, <2>4 DEF Sound, Framed
  <2>6. "Footer" \notin ReadTags
    BY DEF ReadTags, BatchTags, ItemTags
  <2>7. PICK cut : Stream # <<>> /\ Clean(Stream, logged, cut) /\ cut[Len(Stream) + 1] = Len(logged)
    BY <2>5, <2>6 DEF Pending
  <2>8. Stream' = Stream \o FooterRecord(tbTotal, edgeTotal)
    <3>1. Stream' = Stream \o record'
      BY <1>3, StreamGrows
    <3>2. record' = FooterRecord(tbTotal, edgeTotal)
      BY <2>1, <2>2, RecordOfChunk
    <3> QED
      BY <3>1, <3>2
  <2>9. Ended(Stream', logged, tbTotal, edgeTotal)
    BY <1>0, <2>7, <2>8 DEF Ended
  <2> QED
    BY <2>1, <2>2, <2>3, <2>9
<1>4. CASE WriteUnit
  <2> DEFINE x == Head(record)
  <2>1. record # <<>> /\ Credit(x) /\ UNCHANGED <<call, failures, logged>>
    BY <1>4 DEF WriteUnit, history
  <2>2. x = record[1] /\ 1 \in 1 .. Len(record)
    BY <1>0, <2>1
  <2>3. x.u = "entry" => x.e.tag = "Footer"
    BY <1>0, <2>1, <2>2 DEF Uniform
  <2>4. tbTotal' = tbTotal /\ edgeTotal' = edgeTotal
    <3> HIDE DEF x
    <3> QED
      BY <2>1, <2>3 DEF Credit
  <2>5. Stream' = Stream
    BY <1>4, StreamKept
  <2>6. call.flush
    BY <1>a, <2>1
  <2> QED
    BY <1>a, <2>1, <2>4, <2>5, <2>6
<1>5. CASE FlushBuffer
  <2>1. /\ record = <<>> /\ call.rest = <<>> /\ buf' = <<>> /\ call' = [call EXCEPT !.flush = FALSE]
        /\ UNCHANGED <<record, failures, logged, tbTotal, edgeTotal>>
    BY <1>5 DEF FlushBuffer, Written, totals
  <2>2. call'.tag = call.tag /\ call'.rest = call.rest
    BY <2>1 DEF LogTyped, CallSet
  <2>3. Stream' = Stream
    BY <1>5, StreamKept
  <2> QED
    BY <1>a, <2>1, <2>2, <2>3
<1>6. ASSUME NEW n \in Nat, WriteFails(n) PROVE FALSE
  <2>1. failures' = failures + 1
    BY <1>6 DEF WriteFails
  <2> QED
    BY <1>0, <2>1
<1>7. CASE Crash
  BY <1>7, NoneFacts DEF Crash
<1>8. CASE UNCHANGED vars
  <2>1. UNCHANGED <<call, record, buf, logged, tbTotal, edgeTotal, failures>> /\ Stream' = Stream
    BY <1>8 DEF vars, totals, history, Stream
  <2> QED
    BY <1>a, <2>1
<1> QED
  BY <1>1, <1>2, <1>3, <1>4, <1>5, <1>6, <1>7, <1>8, NextCases
-----------------------------------------------------------------------------
(* What the reader makes of a file that ends in a footer. *)
LEMMA EndedReads ==
    ASSUME NEW G \in Seq(UnitSet), NEW L \in Seq(EntrySet), NEW tb \in Nat, NEW edge \in Nat,
           Ended(G, L, tb, edge)
    PROVE  Parse(G).entries = L /\ Parse(G).footer = <<FooterUnit(tb, edge)>>
<1> DEFINE r == FooterRecord(tb, edge)
           y == FooterUnit(tb, edge)
<1>1. PICK F \in Seq(UnitSet) : \E cut :
          F # <<>> /\ Clean(F, L, cut) /\ cut[Len(F) + 1] = Len(L) /\ G = F \o r
  BY DEF Ended
<1>2. PICK cut : F # <<>> /\ Clean(F, L, cut) /\ cut[Len(F) + 1] = Len(L) /\ G = F \o r
  BY <1>1
<1>3. /\ IsRecord(r) /\ Len(r) = 2 /\ r[1].tag = "Footer" /\ SubSeq(r, 2, 2) = <<y>>
      /\ RecordEntries(r) = <<>>
  BY FooterRecordFacts
<1> HIDE DEF r, y
<1>4. /\ r \in Seq(UnitSet) /\ r[1].u = "tlv" /\ r[1].len = 1
      /\ PayloadOK(r[1], <<y>>) /\ PayloadEntries(r[1], <<y>>) = <<>>
  <2>1. r \in Seq(UnitSet) /\ r[1].u = "tlv" /\ r[1].len = Len(r) - 1 /\ PayloadOK(r[1], SubSeq(r, 2, Len(r)))
    BY <1>3 DEF IsRecord
  <2>2. PayloadEntries(r[1], SubSeq(r, 2, Len(r))) = <<>>
    BY <1>3 DEF RecordEntries
  <2>3. r[1].len = 1
    BY <1>3, <2>1
  <2> QED
    BY <1>3, <2>1, <2>2, <2>3
<1> DEFINE n == Len(F)
           k == n + 1
           g == Reader(G)
<1>5. /\ n \in Nat /\ n >= 1 /\ k \in Nat
  BY <1>2
<1>6. /\ Len(G) = n + 2 /\ G[k] = r[1] /\ G[k + 1] = r[2] /\ \A i \in 1 .. n : G[i] = F[i]
  <2>1. /\ Len(F \o r) = Len(F) + Len(r)
        /\ \A i \in 1 .. Len(F) + Len(r) : (F \o r)[i] = IF i <= Len(F) THEN F[i] ELSE r[i - Len(F)]
    BY ONLY F \in Seq(UnitSet), <1>4, ConcatProperties
  <2>2. /\ k \in 1 .. n + 2 /\ ~(k <= n) /\ k - n = 1
        /\ k + 1 \in 1 .. n + 2 /\ ~(k + 1 <= n) /\ k + 1 - n = 2
        /\ \A i \in 1 .. n : i \in 1 .. n + 2 /\ i <= n
    BY <1>5
  <2>3. Len(G) = n + 2 /\ \A i \in 1 .. n + 2 : G[i] = IF i <= n THEN F[i] ELSE r[i - n]
    BY <1>2, <1>3, <2>1
  <2> HIDE DEF n, k
  <2>4. G[k] = r[1]
    BY <2>2, <2>3
  <2>5. G[k + 1] = r[2]
    <3> DEFINE j == k + 1
    <3>1. j \in 1 .. n + 2 /\ ~(j <= n) /\ j - n = 2
      BY <1>5 DEF k
    <3> HIDE DEF j
    <3>2. G[j] = r[2]
      BY <2>3, <3>1
    <3> QED
      BY <3>2 DEF j
  <2>6. \A i \in 1 .. n : G[i] = F[i]
    BY <2>2, <2>3
  <2> QED
    BY <2>3, <2>4, <2>5, <2>6
<1>7. r[2] = y /\ r[2] \in UnitSet
  <2>1. 2 \in 1 .. Len(r) /\ 2 \in 2 .. Len(r)
    BY <1>3
  <2>2. SubSeq(r, 2, 2) = <<r[2]>> \o SubSeq(r, 2 + 1, 2)
    BY ONLY <1>4, <2>1, SubSeqRecursiveFirst
  <2>3. SubSeq(r, 2 + 1, 2) = <<>>
    BY SubSeqEmpty
  <2>4. r[2] \in UnitSet
    BY <1>4, <2>1
  <2>5. <<r[2]>> \o <<>> = <<r[2]>>
    <3> DEFINE z == r[2]
    <3> HIDE DEF z
    <3>1. z \in UnitSet
      BY <2>4 DEF z
    <3>2. <<z>> \o <<>> = <<z>>
      BY <3>1
    <3> QED
      BY <3>2 DEF z
  <2>6. <<r[2]>> = <<y>>
    BY <1>3, <2>2, <2>3, <2>5
  <2>7. r[2] = y
    <3> DEFINE z == r[2]
    <3> HIDE DEF z
    <3>1. <<z>>[1] = z /\ <<y>>[1] = y
      OBVIOUS
    <3>2. <<z>> = <<y>>
      BY <2>6 DEF z
    <3>3. z = y
      BY <3>1, <3>2
    <3> QED
      BY <3>3 DEF z
  <2> QED
    BY <2>4, <2>7
<1>8. SubSeq(G, k + 1, k + 1) = <<y>>
  <2> DEFINE a == k + 1
  <2>1. a \in 1 .. Len(G) /\ a \in a .. Len(G) /\ a + 1 \in Int /\ a \in Int /\ a < a + 1
    BY <1>5, <1>6
  <2> HIDE DEF a
  <2>2. SubSeq(G, a, a) = <<G[a]>> \o SubSeq(G, a + 1, a)
    BY ONLY G \in Seq(UnitSet), <2>1, SubSeqRecursiveFirst
  <2>3. SubSeq(G, a + 1, a) = <<>>
    BY <2>1, SubSeqEmpty
  <2>4. G[a] = y /\ y \in UnitSet
    BY <1>6, <1>7 DEF a
  <2>5. <<y>> \o <<>> = <<y>>
    BY <2>4
  <2>6. SubSeq(G, a, a) = <<y>>
    BY <2>2, <2>3, <2>4, <2>5
  <2> QED
    BY <2>6 DEF a
<1>9. g[k + 2] = Empty
  <2>1. k + 2 \in 1 .. Len(G) + 1 /\ k + 2 > Len(G)
    BY <1>5, <1>6
  <2>2. g[k + 2] = Body(G, g, k + 2)
    BY <2>1, ReaderStep
  <2> HIDE DEF g, k
  <2> QED
    BY <2>1, <2>2 DEF Body
<1>10. g[k].entries = <<>> /\ g[k].footer = <<y>>
  <2>1. k \in 1 .. Len(G) + 1 /\ ~(k > Len(G)) /\ k + 1 + 1 = k + 2 /\ ~(k + 1 > Len(G))
    BY <1>5, <1>6
  <2>2. g[k] = Body(G, g, k)
    BY <2>1, ReaderStep
  <2>3. Empty.entries = <<>> /\ Empty.footer = NoFooter
    BY DEF Empty
  <2> DEFINE pe == PayloadEntries(r[1], <<y>>) \o Empty.entries
             ft == IF r[1].tag = "Footer" /\ Empty.footer = NoFooter THEN <<y>> ELSE Empty.footer
             gb == Empty.garbled
  <2>4. g[k] = [entries |-> pe, footer |-> ft, garbled |-> gb, err |-> FALSE]
    <3>1. k + G[k].len = k + 1 /\ G[k].u = "tlv" /\ G[k] = r[1]
      BY <1>4, <1>6
    <3> DEFINE q == <<y>>
               e == k + 1
    <3>2. /\ k + G[k].len = e /\ ~(e > Len(G)) /\ SubSeq(G, k + 1, e) = q /\ g[e + 1] = Empty
          /\ PayloadOK(G[k], q)
      BY <1>4, <1>8, <1>9, <2>1, <3>1
    <3>3. g[k] = [entries |-> PayloadEntries(G[k], q) \o g[e + 1].entries,
                  footer |-> IF G[k].tag = "Footer" /\ g[e + 1].footer = NoFooter
                             THEN q ELSE g[e + 1].footer,
                  garbled |-> g[e + 1].garbled, err |-> FALSE]
      <4> HIDE DEF g, q, e, k
      <4> QED
        BY <2>1, <2>2, <3>1, <3>2 DEF Body
    <3> HIDE DEF g, k, e
    <3> QED
      BY <3>1, <3>2, <3>3
  <2>5. pe = <<>> /\ ft = <<y>>
    BY <1>3, <1>4, <2>3
  <2>6. g[k].entries = pe /\ g[k].footer = ft
    <3> HIDE DEF pe, ft, gb, g, k
    <3> QED
      BY <2>4
  <2> HIDE DEF g
  <2> QED
    BY <2>5, <2>6
<1>11. ReadUpTo(G, L, cut, k)
  <2>1. Clean(F, L, cut) /\ k \in DOMAIN cut
    BY <1>2 DEF Clean
  <2>2. Agree(F, G, k)
    <3>1. k - 1 = n /\ n <= Len(G)
      BY <1>5, <1>6
    <3> HIDE DEF k
    <3> QED
      BY <1>5, <1>6, <3>1 DEF Agree
  <2>3. g[k].entries \in Seq(EntrySet)
    BY <1>10
  <2> HIDE DEF k
  <2> QED
    BY <2>1, <2>2, <2>3, CleanRead
<1>12. /\ 2 \in DOMAIN cut /\ cut[2] = 0 /\ cut[k] = Len(L) /\ 2 <= k
  BY <1>2, <1>5 DEF Clean
<1>13. <<y>> # NoFooter
  BY DEF NoFooter
<1>14. g[2].entries = Slice(L, 0, Len(L)) \o <<>> /\ g[2].footer = <<y>>
  <2> HIDE DEF g, k
  <2> QED
    BY <1>10, <1>11, <1>12, <1>13 DEF ReadUpTo, g
<1>15. Slice(L, 0, Len(L)) = L /\ L \o <<>> = L
  <2>1. SubSeq(L, 1, Len(L)) = L
    BY SubSeqFull
  <2>2. 0 + 1 = 1
    OBVIOUS
  <2>3. L \o <<>> = L
    BY ConcatEmptySeq
  <2> QED
    BY <2>1, <2>2, <2>3 DEF Slice
<1>16. Parse(G) = g[2]
  <2>1. G # <<>>
    BY <1>5, <1>6
  <2> QED
    BY <2>1, ParseReads
<1> HIDE DEF g
<1> QED
  BY <1>14, <1>15, <1>16 DEF y

LEMMA DoneReads ==
    ASSUME LogTyped, Balance, FooterLast, Closed
    PROVE  RoundTrip
<1> SUFFICES ASSUME stage = "done", failures = 0
             PROVE  /\ Parse(file).entries = logged
                    /\ Parse(file).footer = <<FooterUnit(Count(logged, {"TbExecBatch"}),
                           Count(logged, {"BranchEdgeBatch", "FallThroughBatch"}))>>
  BY DEF RoundTrip
<1>1. call.tag = "Footer" /\ ~call.flush
  BY DEF FooterLast
<1>2. record = <<>> /\ buf = <<>> /\ Ended(Stream, logged, tbTotal, edgeTotal)
  BY <1>1 DEF Closed
<1>3. Stream = file
  BY <1>2, StreamFacts
<1>4. file \in Seq(UnitSet) /\ logged \in Seq(EntrySet) /\ tbTotal \in Nat /\ edgeTotal \in Nat
  BY DEF LogTyped
<1>5. Parse(file).entries = logged /\ Parse(file).footer = <<FooterUnit(tbTotal, edgeTotal)>>
  BY <1>2, <1>3, <1>4, EndedReads
<1>6. Uncredited(TbTags) = 0 /\ Uncredited(EdgeTags) = 0
  BY <1>1 DEF Uncredited, TbTags, EdgeTags
<1>7. Count(logged, TbTags) = tbTotal + 0 /\ Count(logged, EdgeTags) = edgeTotal + 0
  BY <1>6 DEF Balance
<1>8. Count(logged, TbTags) = tbTotal /\ Count(logged, EdgeTags) = edgeTotal
  BY <1>4, <1>7
<1> QED
  BY <1>5, <1>8 DEF TbTags, EdgeTags
-----------------------------------------------------------------------------
LEMMA InitLog ==
    Init => LogInv
<1> SUFFICES ASSUME Init PROVE LogInv
  OBVIOUS
<1>1. LogTyped
  BY InitTyped
<1>2. Sound /\ DeadReads
  BY DEF Init, Sound, Fresh, DeadReads
<1>3. Synced
  BY DEF Init, Synced
<1>4. Balance
  <2>1. Uncredited(TbTags) = 0 /\ Uncredited(EdgeTags) = 0
    <3>1. call.tag = "none"
      BY NoneFacts DEF Init
    <3> QED
      BY <3>1 DEF Uncredited, TbTags, EdgeTags
  <2>2. Count(logged, TbTags) = 0 /\ Count(logged, EdgeTags) = 0
    BY CountOfNone DEF Init
  <2> QED
    BY <2>1, <2>2 DEF Balance, Init
<1>5. FooterLast /\ Closed
  <2>1. call.tag # "Footer"
    BY NoneFacts DEF Init
  <2>2. \A i \in 1 .. Len(todo) : FALSE
    BY DEF Init
  <2> QED
    BY <2>1, <2>2 DEF Init, FooterLast, Closed
<1> QED
  BY <1>1, <1>2, <1>3, <1>4, <1>5 DEF LogInv

LEMMA LogStep ==
    LogInv /\ [Next]_vars => LogInv'
<1> SUFFICES ASSUME LogInv, [Next]_vars PROVE LogInv'
  OBVIOUS
<1>1. LogTyped /\ Sound /\ DeadReads /\ Synced /\ Balance /\ FooterLast /\ Closed
  BY DEF LogInv
<1>2. LogTyped'
  BY <1>1, TypedStep
<1>3. Sound' /\ DeadReads' /\ Synced'
  BY <1>1, <1>2, SoundStep, DeadStep, SyncedStep
<1>4. Balance' /\ FooterLast' /\ Closed'
  BY <1>1, <1>2, BalanceStep, FooterLastStep, ClosedStep
<1> QED
  BY <1>2, <1>3, <1>4 DEF LogInv

LEMMA LogInvariant ==
    Spec => []LogInv
<1>1. Init => LogInv
  BY InitLog
<1>2. LogInv /\ [Next]_vars => LogInv'
  BY LogStep
<1> QED
  BY <1>1, <1>2, PTL DEF Spec

(* Crash tolerance: without a failing write, whatever part of the buffer   *)
(* has reached the file when the process dies, native::parse gets a prefix *)
(* of what was logged and misreads nothing.                                *)
THEOREM CrashIsTolerated ==
    Spec => []CrashLeavesPrefix
<1>1. LogInv => CrashLeavesPrefix
  BY AliveReads DEF LogInv, DeadReads
<1> QED
  BY <1>1, LogInvariant, PTL

(* What a flush marker has made durable is read back whatever happens to *)
(* the writes after it: failures, partial writes, a crash.               *)
THEOREM FlushIsDurable ==
    Spec => []FlushedStaysReadable
<1>1. LogInv => FlushedStaysReadable
  BY SyncedReads DEF LogInv
<1> QED
  BY <1>1, LogInvariant, PTL

(* After an exit without failing writes the reader gets the whole log, for *)
(* every record and buffer capacity, and a footer with its totals.         *)
THEOREM ProfileRoundTrips ==
    Spec => []RoundTrip
<1>1. LogInv => RoundTrip
  BY DoneReads DEF LogInv
<1> QED
  BY <1>1, LogInvariant, PTL
=============================================================================
