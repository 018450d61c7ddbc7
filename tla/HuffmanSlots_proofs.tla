------------------------- MODULE HuffmanSlots_proofs -------------------------
(***************************************************************************)
(* Every scan of every frame is coded with the tables that the decoder has *)
(* by then, whatever histograms are merged.                                *)
(***************************************************************************)
EXTENDS HuffmanSlots, FiniteSetTheorems, SequenceTheorems, WellFoundedInduction, TLAPS

-----------------------------------------------------------------------------
(* The inductive invariant.                                                *)

\* All of x is before some element of each set that comes later: contexts start tables in
\* order.
StartsBefore(s, t) == \E x \in s : \A y \in t : x < y
EndsBefore(s, t) == \A x \in s, y \in t : x < y

\* The clusters of the n contexts from base on: the slots are given out in a circle, so
\* they hold the last four histograms, and a histogram that has lost its slot has its last
\* context before the first one of its successor.
ClusterInv(c, base, n) ==
  LET h == c.histograms
      L == Len(c.histograms)
  IN  /\ c \in [histograms : Seq(SUBSET Nat), slots : Seq(Nat), slot_ids : Seq(1 .. 4)]
      /\ L <= n /\ Len(c.slot_ids) = L /\ Len(c.slots) = (IF L < 4 THEN L ELSE 4)
      /\ \A i \in 1 .. L : c.slot_ids[i] = ((i - 1) % 4) + 1
      /\ \A s \in DOMAIN c.slots :
           c.slots[s] \in 1 .. L /\ c.slots[s] > L - 4 /\ s = ((c.slots[s] - 1) % 4) + 1
      /\ \A k \in base .. base + n - 1 : \E i \in 1 .. L : k \in h[i]
      /\ \A i \in 1 .. L : h[i] \subseteq base .. base + n - 1 /\ h[i] # {}
      /\ \A i, j \in 1 .. L : i < j => h[i] \cap h[j] = {} /\ StartsBefore(h[i], h[j])
      /\ \A i, j \in 1 .. L : i + 4 <= j => EndsBefore(h[i], h[j])

\* ac_ctx_offset and num_contexts of a frame f.
OffsetOf(f, i) ==
  4 + Cardinality(UNION {{k} \X (1 .. Contexts(f.scans[k])) : k \in 1 .. i - 1})
NumContexts(f) == OffsetOf(f, Len(f.scans) + 1)

ClustersOf(f, cl) ==
  /\ cl = [dc |-> cl.dc, ac |-> cl.ac]
  /\ \E n \in 0 .. Len(f.comps) : \E k \in 0 .. NumContexts(f) - 4 :
       ClusterInv(cl.dc, 0, n) /\ ClusterInv(cl.ac, 4, k)

\* FirstTables of the tables ts.
FirstOf(ts) ==
  LET fifth == {i \in DOMAIN ts : /\ ts[i].slot >= 16
                                  /\ Cardinality({j \in 1 .. i : ts[j].slot >= 16}) > 4}
  IN  IF fifth = {} THEN Len(ts) ELSE Min(fifth) - 1

\* The tables before the first scan have slots of their own, and those of DC are among
\* them; each further one is of AC, starts after those before it, and has only contexts
\* after those of the table whose slot it takes.
AreTables(ts, contexts, progressive) ==
  /\ ts \in Seq([slot : 0 .. 19, contexts : SUBSET Nat])
  /\ ts # <<>> /\ FirstOf(ts) \in 1 .. Len(ts)
  /\ \A k \in contexts : \E t \in DOMAIN ts : k \in ts[t].contexts
  /\ \A t, u \in DOMAIN ts : t < u => ts[t].contexts \cap ts[u].contexts = {}
  /\ \A t \in DOMAIN ts : (\E k \in ts[t].contexts : k < 4) => t <= FirstOf(ts) /\ ts[t].slot < 16
  /\ \A t \in DOMAIN ts : t > FirstOf(ts) => ts[t].slot >= 16
  /\ \A t, u \in DOMAIN ts :
       t < u /\ ts[t].slot = ts[u].slot
         => u > FirstOf(ts) /\ EndsBefore(ts[t].contexts, ts[u].contexts)
  /\ \A t, u \in DOMAIN ts :
       FirstOf(ts) < t /\ t < u => StartsBefore(ts[t].contexts, ts[u].contexts)
  /\ ~progressive => FirstOf(ts) = Len(ts)

TablesOf(f, ts) ==
  AreTables(ts, (0 .. Len(f.comps) - 1) \cup (4 .. NumContexts(f) - 1), f.progressive)

\* The decoder has the last one sent of the tables for a slot; the tables sent are the
\* first ones and those that the scans so far have asked for.
SentOf(f, ts, next_dht, scan, dec) ==
  /\ scan \in 1 .. Len(f.scans) + 1 /\ next_dht \in Nat
  /\ dec \in [0 .. 19 -> Nat]
  /\ IF scan = 1 THEN next_dht = 1 /\ dec = [s \in 0 .. 19 |-> 0]
     ELSE /\ ts # <<>>
          /\ FirstOf(ts) < next_dht /\ next_dht <= Len(ts) + 1
          /\ \A k \in 4 .. OffsetOf(f, scan) - 1 : \A t \in DOMAIN ts :
               k \in ts[t].contexts => t < next_dht
          /\ \A t \in DOMAIN ts : FirstOf(ts) < t /\ t < next_dht =>
               \E k \in ts[t].contexts : k < OffsetOf(f, scan)
          /\ \A t \in DOMAIN ts : t < next_dht =>
               LET last == dec[ts[t].slot]
               IN  /\ t <= last /\ last < next_dht /\ last \in DOMAIN ts
                   /\ ts[last].slot = ts[t].slot

\* DecoderHasTheCodes and context_map of the tables ts.
TableIn(ts, context) == CHOOSE i \in DOMAIN ts : context \in ts[i].contexts
CodesOf(f, ts, next, dec) ==
  next > 1 =>
    LET i == next - 1
        scan == f.scans[i]
    IN  \A j \in DOMAIN scan.comps :
          /\ scan.Ss = 0 =>
               LET t == TableIn(ts, scan.comps[j] - 1) IN dec[ts[t].slot] = t
          /\ scan.Se > 0 =>
               LET t == TableIn(ts, OffsetOf(f, i) + j - 1) IN dec[ts[t].slot] = t

SlotsInv ==
  /\ IsFrame(frame)
  /\ tables = <<>> => ClustersOf(frame, clusters)
  /\ tables # <<>> => TablesOf(frame, tables)
  /\ SentOf(frame, tables, next_dht_index, next_scan, decoder)

-----------------------------------------------------------------------------
(* Smallest elements, and numbers of contexts.                             *)

LEMMA SmallestExists ==
  ASSUME NEW S \in SUBSET Nat, S # {}
  PROVE  \E x \in S : \A y \in S : x <= y
<1> DEFINE R == OpToRel(<, Nat)
<1>1. IsWellFoundedOn(R, Nat)
  BY NatLessThanWellFounded DEF OpToRel
<1>2. \E x \in S : \A y \in S : <<y, x>> \notin R
  <2> HIDE DEF R
  <2> QED BY <1>1, WFMin, Zenon
<1>3. PICK x \in S : \A y \in S : <<y, x>> \notin R
  BY <1>2
<1>4. \A y \in S : x <= y
  <2> SUFFICES ASSUME NEW y \in S, ~(x <= y) PROVE FALSE
    OBVIOUS
  <2>1. <<y, x>> \in Nat \X Nat /\ y < x
    OBVIOUS
  <2> QED BY <1>3, <2>1, Zenon DEF OpToRel
<1> QED BY <1>4

LEMMA MinIsSmallest ==
  ASSUME NEW S \in SUBSET Nat, S # {}
  PROVE  Min(S) \in S /\ \A y \in S : Min(S) <= y
BY SmallestExists DEF Min

LEMMA MaxOfBounded ==
  ASSUME NEW S \in SUBSET Nat, S # {}, NEW n \in Nat, \A x \in S : x <= n
  PROVE  Max(S) \in S /\ \A y \in S : y <= Max(S)
<1> DEFINE T == {n - x : x \in S}
<1>1. T \in SUBSET Nat /\ T # {}
  OBVIOUS
<1>2. PICK z \in T : \A y \in T : z <= y
  <2> HIDE DEF T
  <2> QED BY <1>1, SmallestExists
<1>3. PICK x \in S : z = n - x
  OBVIOUS
<1>4. \A y \in S : n - x <= n - y
  BY <1>2, <1>3
<1>5. ASSUME NEW y \in S PROVE y <= x
  <2>1. x \in Nat /\ y \in Nat /\ n - x <= n - y
    BY <1>4
  <2> QED BY <2>1
<1> QED BY <1>5 DEF Max

LEMMA FrameShape ==
  ASSUME NEW f, IsFrame(f)
  PROVE  /\ Len(f.scans) \in Nat \ {0} /\ DOMAIN f.scans = 1 .. Len(f.scans)
         /\ Len(f.comps) \in 1 .. 4 /\ DOMAIN f.comps = 1 .. Len(f.comps)
         /\ \A c \in DOMAIN f.comps : f.comps[c] \in [dc : 0 .. 3, ac : 0 .. 3]
         /\ f.progressive \in BOOLEAN /\ f.baseline \in BOOLEAN /\ f.own \in BOOLEAN
<1>1. f \in Frame /\ Len(f.comps) \in 1 .. 4 /\ f.scans # <<>>
  BY Zenon DEF IsFrame
<1> DEFINE C == [dc : 0 .. 3, ac : 0 .. 3]
           U == [comps : Seq(1 .. 4), Ss : 0 .. 63, Se : 0 .. 63]
<1>2. f \in [comps : Seq(C), progressive : BOOLEAN, baseline : BOOLEAN, scans : Seq(U),
                 own : BOOLEAN]
  BY <1>1, Zenon DEF Frame
<1> HIDE DEF C, U
<1>3. f.comps \in Seq(C) /\ f.scans \in Seq(U)
  BY <1>2
<1>4. Len(f.scans) \in Nat \ {0} /\ DOMAIN f.scans = 1 .. Len(f.scans)
  BY <1>1, <1>3
<1>5. DOMAIN f.comps = 1 .. Len(f.comps) /\ \A c \in DOMAIN f.comps : f.comps[c] \in C
  BY <1>3
<1>6. f.progressive \in BOOLEAN /\ f.baseline \in BOOLEAN /\ f.own \in BOOLEAN
  BY <1>2
<1> QED BY <1>1, <1>4, <1>5, <1>6, Zenon DEF C

LEMMA ScanShape ==
  ASSUME NEW f, IsFrame(f), NEW i \in DOMAIN f.scans
  PROVE  LET scan == f.scans[i]
         IN  /\ scan.Ss \in 0 .. 63 /\ scan.Se \in 0 .. 63 /\ scan.Ss <= scan.Se
             /\ DOMAIN scan.comps = 1 .. Len(scan.comps) /\ Len(scan.comps) \in 1 .. Len(f.comps)
             /\ \A j \in DOMAIN scan.comps : scan.comps[j] \in 1 .. Len(f.comps)
             /\ \A j \in DOMAIN scan.comps, k \in DOMAIN scan.comps :
                  k < j => scan.comps[k] < scan.comps[j]
             /\ IF f.progressive THEN scan.Ss = 0 => scan.Se = 0 ELSE scan.Ss = 0 /\ scan.Se = 63
             /\ scan.Ss > 0 => Len(scan.comps) = 1
<1> DEFINE scan == f.scans[i]
<1>1. f \in Frame
  BY Zenon DEF IsFrame
<1>2. scan \in [comps : Seq(1 .. 4), Ss : 0 .. 63, Se : 0 .. 63]
  <2> DEFINE C == [dc : 0 .. 3, ac : 0 .. 3]
             U == [comps : Seq(1 .. 4), Ss : 0 .. 63, Se : 0 .. 63]
  <2>1. f \in [comps : Seq(C), progressive : BOOLEAN, baseline : BOOLEAN, scans : Seq(U),
                   own : BOOLEAN]
    BY <1>1, Zenon DEF Frame
  <2> HIDE DEF C, U
  <2>2. f.scans \in Seq(U)
    BY <2>1
  <2>3. f.scans[i] \in U
    BY <2>2
  <2> QED BY <2>3 DEF U
<1>3. /\ Len(scan.comps) \in 1 .. Len(f.comps) /\ scan.Ss <= scan.Se
      /\ \A j \in DOMAIN scan.comps :
           scan.comps[j] <= Len(f.comps) /\ \A k \in 1 .. j - 1 : scan.comps[k] < scan.comps[j]
      /\ IF f.progressive THEN scan.Ss = 0 => scan.Se = 0 ELSE scan.Ss = 0 /\ scan.Se = 63
      /\ scan.Ss > 0 => Len(scan.comps) = 1
  BY Zenon DEF IsFrame
<1>4. Len(f.comps) \in 1 .. 4
  BY FrameShape
<1> HIDE DEF scan
<1>5. scan.comps \in Seq(1 .. 4) /\ scan.Ss \in 0 .. 63 /\ scan.Se \in 0 .. 63
  BY <1>2
<1>6. \A j \in DOMAIN scan.comps, k \in DOMAIN scan.comps :
        k < j => scan.comps[k] < scan.comps[j]
  BY <1>3, <1>5
<1>7. DOMAIN scan.comps = 1 .. Len(scan.comps)
      /\ \A j \in DOMAIN scan.comps : scan.comps[j] \in 1 .. Len(f.comps)
  BY <1>3, <1>4, <1>5
<1> QED BY <1>3, <1>5, <1>6, <1>7, Zenon DEF scan

\* The AC contexts of the scans before scan i.
ACContexts(f, i) == UNION {{k} \X (1 .. Contexts(f.scans[k])) : k \in 1 .. i - 1}

LEMMA ContextsOfScan ==
  ASSUME NEW f, IsFrame(f), NEW i \in DOMAIN f.scans
  PROVE  Contexts(f.scans[i]) \in 0 .. 4
<1> DEFINE scan == f.scans[i]
<1>1. Len(scan.comps) \in 1 .. Len(f.comps)
  BY ScanShape, Zenon
<1>2. Len(f.comps) \in 1 .. 4
  BY FrameShape
<1> HIDE DEF scan
<1> DEFINE n == Len(scan.comps)
           k == Len(f.comps)
<1>3. Contexts(scan) = 0 \/ Contexts(scan) = n
  BY DEF Contexts
<1>4. n \in 1 .. k /\ k \in 1 .. 4
  BY <1>1, <1>2
<1> HIDE DEF n, k
<1>5. Contexts(scan) \in 0 .. 4
  BY <1>3, <1>4
<1> QED BY <1>5 DEF scan

LEMMA OneScanMore ==
  ASSUME NEW f, IsFrame(f), NEW i \in DOMAIN f.scans
  PROVE  ACContexts(f, i + 1) = ACContexts(f, i) \cup ({i} \X (1 .. Contexts(f.scans[i])))
<1> DEFINE row(k) == {k} \X (1 .. Contexts(f.scans[k]))
           before == 1 .. i - 1
<1>2. (UNION {row(k) : k \in before \cup {i}}) = (UNION {row(k) : k \in before}) \cup row(i)
  <2> HIDE DEF row, before
  <2> QED OBVIOUS
<1>3. ACContexts(f, i) = UNION {row(k) : k \in before}
  BY DEF ACContexts
<1>4. ACContexts(f, i + 1) = UNION {row(k) : k \in 1 .. (i + 1) - 1}
  BY DEF ACContexts
<1>5. 1 .. (i + 1) - 1 = before \cup {i}
  BY FrameShape
<1> HIDE DEF row, before
<1> QED BY <1>2, <1>3, <1>4, <1>5 DEF row

LEMMA ContextsAreFinite ==
  ASSUME NEW f, IsFrame(f), NEW i \in 1 .. Len(f.scans) + 1
  PROVE  IsFiniteSet(ACContexts(f, i))
<1>1. ACContexts(f, i) \subseteq (1 .. i - 1) \X (1 .. 4)
  <2> SUFFICES ASSUME NEW k \in 1 .. i - 1
               PROVE  {k} \X (1 .. Contexts(f.scans[k])) \subseteq (1 .. i - 1) \X (1 .. 4)
    BY Zenon DEF ACContexts
  <2>1. k \in DOMAIN f.scans
    BY FrameShape
  <2> QED BY <2>1, ContextsOfScan
<1>2. IsFiniteSet(1 .. i - 1) /\ IsFiniteSet(1 .. 4)
  <2>1. i - 1 \in Int
    BY FrameShape
  <2>2. \A a, b \in Int : IsFiniteSet(a .. b)
    BY FS_Interval, Zenon
  <2>3. 1 \in Int /\ 4 \in Int
    OBVIOUS
  <2> QED BY <2>1, <2>2, <2>3, Zenon
<1>3. IsFiniteSet((1 .. i - 1) \X (1 .. 4))
  BY <1>2, FS_Product
<1> QED BY <1>1, <1>3, FS_Subset

LEMMA Offsets ==
  ASSUME NEW f, IsFrame(f)
  PROVE  /\ OffsetOf(f, 1) = 4
         /\ \A i \in 1 .. Len(f.scans) + 1 : OffsetOf(f, i) \in Nat /\ OffsetOf(f, i) >= 4
         /\ \A i \in 1 .. Len(f.scans) :
              OffsetOf(f, i + 1) = OffsetOf(f, i) + Contexts(f.scans[i])
         /\ \A i, k \in 1 .. Len(f.scans) + 1 :
              i <= k => OffsetOf(f, i) <= OffsetOf(f, k)
<1>1. Len(f.scans) \in Nat /\ DOMAIN f.scans = 1 .. Len(f.scans)
  BY FrameShape
<1>2. \A i : OffsetOf(f, i) = 4 + Cardinality(ACContexts(f, i))
  BY DEF OffsetOf, ACContexts
<1>3. ACContexts(f, 1) = {}
  BY DEF ACContexts
<1>4. \A i \in 1 .. Len(f.scans) + 1 :
        IsFiniteSet(ACContexts(f, i)) /\ Cardinality(ACContexts(f, i)) \in Nat
  BY <1>1, ContextsAreFinite, FS_CardinalityType
<1>5. ASSUME NEW i \in 1 .. Len(f.scans)
      PROVE  Cardinality(ACContexts(f, i + 1)) = Cardinality(ACContexts(f, i)) + Contexts(f.scans[i])
  <2> DEFINE more == {i} \X (1 .. Contexts(f.scans[i]))
  <2>1. Contexts(f.scans[i]) \in Nat
    BY <1>1, ContextsOfScan
  <2>2. IsFiniteSet(more) /\ Cardinality(more) = Contexts(f.scans[i])
    <3>1. \A n \in Nat : IsFiniteSet(1 .. n) /\ Cardinality(1 .. n) = n
      BY FS_Interval
    <3>2. IsFiniteSet({i}) /\ Cardinality({i}) = 1
      BY FS_Singleton
    <3> DEFINE n == Contexts(f.scans[i])
               one == {i}
               row == 1 .. n
    <3>3. IsFiniteSet(row) /\ Cardinality(row) = n /\ n \in Nat
      BY <2>1, <3>1
    <3> HIDE DEF n, one, row
    <3>4. IsFiniteSet(one) /\ Cardinality(one) = 1
      BY <3>2 DEF one
    <3>5. IsFiniteSet(one \X row) /\ Cardinality(one \X row) = Cardinality(one) * Cardinality(row)
      BY <3>3, <3>4, FS_Product
    <3>6. Cardinality(one \X row) = n
      BY <3>3, <3>4, <3>5
    <3> QED BY <3>5, <3>6, Zenon DEF n, one, row
  <2>3. ACContexts(f, i) \cap more = {}
    <3> SUFFICES ASSUME NEW e \in ACContexts(f, i) PROVE e \notin more
      OBVIOUS
    <3>1. PICK k \in 1 .. i - 1 : e \in {k} \X (1 .. Contexts(f.scans[k]))
      BY Zenon DEF ACContexts
    <3> QED BY <1>1, <3>1
  <2>4. ACContexts(f, i + 1) = ACContexts(f, i) \cup more
    BY <1>1, OneScanMore
  <2>5. IsFiniteSet(ACContexts(f, i)) /\ Cardinality(ACContexts(f, i)) \in Nat
    BY <1>1, <1>4
  <2> HIDE DEF more
  <2>6. Cardinality(ACContexts(f, i) \cup more)
          = Cardinality(ACContexts(f, i)) + Cardinality(more) - Cardinality(ACContexts(f, i) \cap more)
    BY <2>2, <2>5, FS_Union
  <2>7. Cardinality(ACContexts(f, i) \cap more) = 0
    BY <2>3, FS_EmptySet
  <2> DEFINE a == Cardinality(ACContexts(f, i))
             b == Contexts(f.scans[i])
  <2>8. Cardinality(ACContexts(f, i + 1)) = a + b - 0 /\ a \in Nat /\ b \in Nat
    BY <2>1, <2>2, <2>4, <2>5, <2>6, <2>7, Zenon
  <2> HIDE DEF a, b
  <2>9. a + b - 0 = a + b
    BY <2>8
  <2> QED BY <2>8, <2>9, Zenon DEF a, b
<1>6. ASSUME NEW i \in 1 .. Len(f.scans) + 1, NEW k \in 1 .. Len(f.scans) + 1, i <= k
      PROVE  Cardinality(ACContexts(f, i)) <= Cardinality(ACContexts(f, k))
  <2>1. ACContexts(f, i) \subseteq ACContexts(f, k)
    <3>1. 1 .. i - 1 \subseteq 1 .. k - 1
      BY <1>6
    <3> QED BY <3>1, Zenon DEF ACContexts
  <2> QED BY <1>4, <2>1, FS_Subset
<1>7. OffsetOf(f, 1) = 4
  BY <1>2, <1>3, FS_EmptySet
<1>8. \A i \in 1 .. Len(f.scans) + 1 : OffsetOf(f, i) \in Nat /\ OffsetOf(f, i) >= 4
  BY <1>2, <1>4
<1>9. ASSUME NEW i \in 1 .. Len(f.scans)
      PROVE  OffsetOf(f, i + 1) = OffsetOf(f, i) + Contexts(f.scans[i])
  <2>1. i \in DOMAIN f.scans /\ i \in 1 .. Len(f.scans) + 1
    BY <1>1
  <2>2. Contexts(f.scans[i]) \in Nat
    BY <2>1, ContextsOfScan
  <2> QED BY <1>2, <1>4, <1>5, <2>1, <2>2
<1>10. ASSUME NEW i \in 1 .. Len(f.scans) + 1, NEW k \in 1 .. Len(f.scans) + 1, i <= k
       PROVE  OffsetOf(f, i) <= OffsetOf(f, k)
  <2> DEFINE a == Cardinality(ACContexts(f, i))
             b == Cardinality(ACContexts(f, k))
  <2>1. a <= b /\ a \in Nat /\ b \in Nat /\ OffsetOf(f, i) = 4 + a /\ OffsetOf(f, k) = 4 + b
    BY <1>2, <1>4, <1>6, <1>10, Zenon
  <2> HIDE DEF a, b
  <2> QED BY <2>1
<1> QED BY <1>7, <1>8, <1>9, <1>10

-----------------------------------------------------------------------------
(* Clustering.                                                             *)

LEMMA UnionOfClusters ==
  ASSUME NEW c, NEW base \in Nat, NEW n \in Nat, ClusterInv(c, base, n)
  PROVE  NumClustered(c) = n
<1>1. /\ c.histograms \in Seq(SUBSET Nat)
      /\ \A k \in base .. base + n - 1 : \E i \in 1 .. Len(c.histograms) : k \in c.histograms[i]
      /\ \A i \in 1 .. Len(c.histograms) : c.histograms[i] \subseteq base .. base + n - 1
  BY DEF ClusterInv
<1>2. UNION Range(c.histograms) = base .. base + n - 1
  <2> DEFINE h == c.histograms
             all == base .. base + n - 1
  <2>1. /\ DOMAIN h = 1 .. Len(h)
        /\ \A k \in all : \E i \in 1 .. Len(h) : k \in h[i]
        /\ \A i \in 1 .. Len(h) : h[i] \subseteq all
    BY <1>1
  <2> HIDE DEF h, all
  <2>2. UNION Range(h) = all
    BY <2>1, Zenon DEF Range
  <2> QED BY <2>2 DEF h, all
<1>3. Cardinality(base .. base + n - 1) = n
  <2>1. base + n - 1 \in Int /\ base \in Int
    OBVIOUS
  <2> DEFINE b == base + n - 1
  <2>2. b \in Int /\ (base > b => n = 0) /\ b - base + 1 = n
    OBVIOUS
  <2> HIDE DEF b
  <2>3. Cardinality(base .. b) = IF base > b THEN 0 ELSE b - base + 1
    BY <2>1, <2>2, FS_Interval
  <2> QED BY <2>2, <2>3 DEF b
<1> QED BY <1>2, <1>3 DEF NumClustered

LEMMA FourSlots ==
  ASSUME NEW x \in Nat
  PROVE  /\ x % 4 \in 0 .. 3 /\ (x < 4 => x % 4 = x) /\ (x + 4) % 4 = x % 4
         /\ ((x % 4) + 1) % 4 = (x + 1) % 4
OBVIOUS

LEMMA NextSlot ==
  ASSUME NEW x \in Nat, NEW y, y = x + 1
  PROVE  (y - 1) % 4 = x % 4
OBVIOUS

\* A context that gets a table of its own, in a free slot or in the one after the last
\* slot that was taken.
LEMMA NewHistogramInv ==
  ASSUME NEW c, NEW base \in Nat, NEW n \in Nat, ClusterInv(c, base, n)
  PROVE  ClusterInv(NewHistogram(c, base + n), base, n + 1)
<1> DEFINE h == c.histograms
           L == Len(h)
           k == base + n
           all == base .. base + n - 1
           d == NewHistogram(c, k)
           p == Len(c.slots)
           slot == IF p < 4 THEN p + 1 ELSE ReplacedSlot(c)
<1>1. /\ h \in Seq(SUBSET Nat) /\ c.slots \in Seq(Nat) /\ c.slot_ids \in Seq(1 .. 4)
      /\ L <= n /\ Len(c.slot_ids) = L /\ p = IF L < 4 THEN L ELSE 4
  BY DEF ClusterInv
<1>2. L \in Nat /\ p \in Nat
  BY <1>1
<1>3. \A i \in 1 .. L : c.slot_ids[i] = ((i - 1) % 4) + 1
  BY DEF ClusterInv
<1>4. \A s \in DOMAIN c.slots :
        c.slots[s] \in 1 .. L /\ c.slots[s] > L - 4 /\ s = ((c.slots[s] - 1) % 4) + 1
  BY DEF ClusterInv
<1>5. \A i \in 1 .. L : h[i] \subseteq all /\ h[i] # {}
  BY DEF ClusterInv
<1>6. \A x \in all : \E i \in 1 .. L : x \in h[i]
  BY DEF ClusterInv
<1>7. \A i, j \in 1 .. L : i < j => h[i] \cap h[j] = {} /\ StartsBefore(h[i], h[j])
  BY DEF ClusterInv
<1>8. \A i, j \in 1 .. L : i + 4 <= j => EndsBefore(h[i], h[j])
  BY DEF ClusterInv
<1>9. k \in Nat /\ base .. base + (n + 1) - 1 = all \cup {k} /\ all \subseteq Nat /\ \A x \in all : x < k /\ x # k
  OBVIOUS
<1>10. ReplacedSlot(c) = (c.slot_ids[Len(c.slot_ids)] % 4) + 1
  BY DEF ReplacedSlot, Last
<1>11. /\ d.histograms = Append(h, {k}) /\ d.slot_ids = Append(c.slot_ids, slot)
       /\ d.slots = IF slot > p THEN Append(c.slots, L + 1) ELSE [c.slots EXCEPT ![slot] = L + 1]
       /\ d = [histograms |-> d.histograms, slots |-> d.slots, slot_ids |-> d.slot_ids]
  BY DEF NewHistogram
<1> HIDE DEF d
<1>12. DOMAIN c.slots = 1 .. p
  BY <1>1
<1> HIDE DEF h, L, k, all, p
<1>13. slot = (L % 4) + 1 /\ slot \in 1 .. 4
  <2>1. L % 4 \in 0 .. 3 /\ (L < 4 => L % 4 = L)
    BY <1>2, FourSlots
  <2>2. CASE L < 4
    BY <1>1, <1>2, <2>1, <2>2
  <2>3. CASE L >= 4
    <3>1. c.slot_ids[L] = ((L - 1) % 4) + 1
      BY <1>2, <1>3, <2>3
    <3>2. slot = (c.slot_ids[L] % 4) + 1
      BY <1>1, <1>2, <1>10, <2>3
    <3>3. L - 1 \in Nat /\ (L - 1) + 1 = L
      BY <1>2, <2>3
    <3>4. (((L - 1) % 4) + 1) % 4 = L % 4
      BY <3>3, FourSlots
    <3> QED BY <2>1, <3>1, <3>2, <3>4
  <2> QED BY <1>2, <2>2, <2>3
<1> HIDE DEF slot
<1>14. /\ d.histograms \in Seq(SUBSET Nat) /\ Len(d.histograms) = L + 1
       /\ \A i \in 1 .. L : d.histograms[i] = h[i]
       /\ d.histograms[L + 1] = {k}
  <2>1. h \in Seq(SUBSET Nat) /\ {k} \in SUBSET Nat /\ Len(h) = L
    BY <1>1, <1>9 DEF L
  <2>2. /\ Append(h, {k}) \in Seq(SUBSET Nat) /\ Len(Append(h, {k})) = L + 1
        /\ (\A i \in 1 .. L : Append(h, {k})[i] = h[i]) /\ Append(h, {k})[L + 1] = {k}
    BY <2>1
  <2> QED BY <1>11, <2>2, Zenon
<1>15. \A i \in 1 .. L + 1 : i \in 1 .. L \/ i = L + 1
  BY <1>2
<1>16. /\ d.slot_ids \in Seq(1 .. 4) /\ Len(d.slot_ids) = L + 1
       /\ \A i \in 1 .. L + 1 : d.slot_ids[i] = ((i - 1) % 4) + 1
  <2>1. /\ d.slot_ids \in Seq(1 .. 4) /\ Len(d.slot_ids) = L + 1
        /\ \A i \in 1 .. L : d.slot_ids[i] = c.slot_ids[i]
        /\ d.slot_ids[L + 1] = slot
    <3> DEFINE s == c.slot_ids
    <3>1. s \in Seq(1 .. 4) /\ Len(s) = L /\ slot \in 1 .. 4
      BY <1>1, <1>13
    <3> HIDE DEF s, slot
    <3>2. /\ Append(s, slot) \in Seq(1 .. 4) /\ Len(Append(s, slot)) = L + 1
          /\ (\A i \in 1 .. L : Append(s, slot)[i] = s[i]) /\ Append(s, slot)[L + 1] = slot
      BY <3>1
    <3> QED BY <1>11, <3>2, Zenon DEF s
  <2>2. ASSUME NEW i \in 1 .. L + 1
        PROVE  d.slot_ids[i] = ((i - 1) % 4) + 1
    <3>1. CASE i \in 1 .. L
      BY <1>3, <2>1, <3>1
    <3>2. CASE i = L + 1
      <4>1. (i - 1) % 4 = L % 4
        BY <1>2, <3>2, NextSlot
      <4> QED BY <1>13, <2>1, <3>2, <4>1
    <3> QED BY <1>15, <3>1, <3>2
  <2> QED BY <2>1, <2>2
<1>17. /\ d.slots \in Seq(Nat) /\ Len(d.slots) = IF L + 1 < 4 THEN L + 1 ELSE 4
       /\ \A s \in DOMAIN d.slots :
            d.slots[s] \in 1 .. L + 1 /\ d.slots[s] > (L + 1) - 4 /\ s = ((d.slots[s] - 1) % 4) + 1
  <2>1. L + 1 \in 1 .. L + 1 /\ L + 1 > (L + 1) - 4 /\ L + 1 \in Nat
    BY <1>2
  <2>2. CASE L < 4
    <3>1. L % 4 = L
      BY <1>2, <2>2, FourSlots
    <3>2. slot = L + 1 /\ p = L
      BY <1>1, <1>13, <2>2, <3>1
    <3>3. slot > p
      BY <1>2, <3>2
    <3>4. d.slots = Append(c.slots, L + 1)
      BY <1>11, <3>3
    <3>5. Len(c.slots) = L
      BY <3>2 DEF p
    <3>6. /\ d.slots \in Seq(Nat) /\ Len(d.slots) = L + 1 /\ d.slots[L + 1] = L + 1
          /\ \A s \in 1 .. L : d.slots[s] = c.slots[s]
      BY <1>1, <1>2, <2>1, <3>4, <3>5
    <3>7. DOMAIN d.slots = 1 .. L + 1
      BY <3>6
    <3>8. \A s \in 1 .. L : c.slots[s] \in 1 .. L /\ s = ((c.slots[s] - 1) % 4) + 1
      BY <1>4, <1>12, <3>2
    <3>9. \A x \in 1 .. L : x \in 1 .. L + 1 /\ x > (L + 1) - 4
      BY <1>2, <2>2
    <3>10. ASSUME NEW s \in 1 .. L + 1
           PROVE  d.slots[s] \in 1 .. L + 1 /\ d.slots[s] > (L + 1) - 4 /\ s = ((d.slots[s] - 1) % 4) + 1
      <4>1. CASE s \in 1 .. L
        BY <3>6, <3>8, <3>9, <4>1
      <4>2. CASE s = L + 1
        <5>1. d.slots[s] = L + 1
          BY <3>6, <4>2
        <5>2. (d.slots[s] - 1) % 4 = L % 4
          BY <1>2, <5>1, NextSlot
        <5> QED BY <2>1, <3>1, <4>2, <5>1, <5>2
      <4> QED BY <1>15, <4>1, <4>2
    <3>11. Len(d.slots) = IF L + 1 < 4 THEN L + 1 ELSE 4
      BY <1>2, <2>2, <3>6
    <3> QED BY <3>6, <3>7, <3>10, <3>11, Zenon
  <2>3. CASE L >= 4
    <3>1. p = 4
      BY <1>1, <1>2, <2>3
    <3>2. ~(slot > p)
      BY <1>13, <3>1
    <3>3. d.slots = [c.slots EXCEPT ![slot] = L + 1]
      BY <1>11, <3>2
    <3>4. DOMAIN c.slots = 1 .. 4 /\ Len(c.slots) = 4
      BY <1>12, <3>1 DEF p
    <3>5. d.slots \in Seq(Nat) /\ Len(d.slots) = 4 /\ DOMAIN d.slots = 1 .. 4
          /\ \A s \in 1 .. 4 : d.slots[s] = IF s = slot THEN L + 1 ELSE c.slots[s]
      <4> DEFINE new == L + 1
                 old == c.slots
      <4>1. new \in Nat /\ old \in Seq(Nat) /\ DOMAIN old = 1 .. 4 /\ Len(old) = 4
            /\ slot \in 1 .. 4 /\ d.slots = [old EXCEPT ![slot] = new]
        BY <1>1, <1>13, <2>1, <3>3, <3>4
      <4> HIDE DEF new, old
      <4>2. d.slots \in [1 .. 4 -> Nat]
        <5>1. old \in [1 .. 4 -> Nat]
          BY <4>1
        <5> QED BY <4>1, <5>1
      <4>3. d.slots \in Seq(Nat) /\ Len(d.slots) = 4 /\ DOMAIN d.slots = 1 .. 4
        <5>1. 4 \in Nat /\ DOMAIN d.slots = 1 .. 4
          BY <4>2
        <5>2. d.slots \in Seq(Nat)
          BY <4>2, <5>1, SeqDef
        <5>3. Len(d.slots) \in Nat /\ 1 .. Len(d.slots) = 1 .. 4
          BY <5>1, <5>2, LenProperties
        <5>4. 4 \in 1 .. Len(d.slots)
          BY <5>3
        <5>5. Len(d.slots) \in 1 .. Len(d.slots)
          BY <5>3, <5>4
        <5>6. Len(d.slots) \in 1 .. 4
          BY <5>3, <5>5
        <5>7. \A q : 4 \in 1 .. q /\ q \in 1 .. 4 => q = 4
          OBVIOUS
        <5>8. Len(d.slots) = 4
          BY <5>4, <5>6, <5>7, Zenon
        <5> QED BY <5>1, <5>2, <5>8, Zenon
      <4>4. \A s \in 1 .. 4 : d.slots[s] = IF s = slot THEN new ELSE old[s]
        BY <4>1
      <4> QED BY <4>3, <4>4 DEF new, old
    <3>6. ASSUME NEW s \in 1 .. 4
          PROVE  d.slots[s] \in 1 .. L + 1 /\ d.slots[s] > (L + 1) - 4 /\ s = ((d.slots[s] - 1) % 4) + 1
      <4>1. CASE s = slot
        <5>1. d.slots[s] = L + 1
          BY <3>5, <4>1
        <5>2. (d.slots[s] - 1) % 4 = L % 4
          BY <1>2, <5>1, NextSlot
        <5> QED BY <1>13, <2>1, <4>1, <5>1, <5>2
      <4>2. CASE s # slot
        <5> DEFINE x == c.slots[s]
        <5>1. d.slots[s] = x /\ x \in 1 .. L /\ x > L - 4 /\ s = ((x - 1) % 4) + 1
          BY <1>4, <3>4, <3>5, <4>2
        <5> HIDE DEF x
        <5>2. L - 4 \in Nat /\ (L - 4) + 4 = L
          BY <1>2, <2>3
        <5>3. (L - 4) % 4 = L % 4
          BY <5>2, FourSlots
        <5>4. x - 1 # L - 4
          BY <1>13, <4>2, <5>1, <5>3
        <5>5. x \in 1 .. L + 1 /\ x > (L + 1) - 4
          BY <1>2, <5>1, <5>4
        <5> QED BY <5>1, <5>5
      <4> QED BY <4>1, <4>2
    <3>7. Len(d.slots) = IF L + 1 < 4 THEN L + 1 ELSE 4
      BY <1>2, <2>3, <3>5
    <3> QED BY <3>5, <3>6, <3>7, Zenon
  <2> QED BY <1>2, <2>2, <2>3
<1>18. \A x \in all \cup {k} : \E i \in 1 .. L + 1 : x \in d.histograms[i]
  <2>1. L + 1 \in 1 .. L + 1 /\ 1 .. L \subseteq 1 .. L + 1
    BY <1>2
  <2> QED BY <1>6, <1>14, <2>1, Zenon
<1>19. \A i \in 1 .. L + 1 : d.histograms[i] \subseteq all \cup {k} /\ d.histograms[i] # {}
  <2>1. {k} # {}
    OBVIOUS
  <2> QED BY <1>5, <1>14, <1>15, <2>1, Zenon
<1>20. ASSUME NEW i \in 1 .. L
       PROVE  h[i] \cap {k} = {} /\ StartsBefore(h[i], {k}) /\ EndsBefore(h[i], {k})
  <2>1. h[i] \subseteq all /\ \E x \in h[i] : TRUE
    BY <1>5
  <2> QED BY <1>9, <2>1 DEF EndsBefore, StartsBefore
<1>21. \A i, j \in 1 .. L + 1 : i < j =>
         d.histograms[i] \cap d.histograms[j] = {} /\ StartsBefore(d.histograms[i], d.histograms[j])
  <2>1. \A i, j \in 1 .. L + 1 : i < j => i \in 1 .. L /\ (j \in 1 .. L \/ j = L + 1)
    BY <1>2
  <2> SUFFICES ASSUME NEW i \in 1 .. L + 1, NEW j \in 1 .. L + 1, i < j
               PROVE  d.histograms[i] \cap d.histograms[j] = {}
                      /\ StartsBefore(d.histograms[i], d.histograms[j])
    BY Zenon
  <2>2. i \in 1 .. L /\ d.histograms[i] = h[i]
    BY <1>14, <2>1
  <2>3. CASE j \in 1 .. L
    BY <1>7, <1>14, <2>2, <2>3
  <2>4. CASE j = L + 1
    BY <1>14, <1>20, <2>2, <2>4
  <2> QED BY <2>1, <2>3, <2>4
<1>22. \A i, j \in 1 .. L + 1 : i + 4 <= j => EndsBefore(d.histograms[i], d.histograms[j])
  <2>1. \A i, j \in 1 .. L + 1 : i + 4 <= j => i \in 1 .. L /\ (j \in 1 .. L \/ j = L + 1)
    BY <1>2
  <2> SUFFICES ASSUME NEW i \in 1 .. L + 1, NEW j \in 1 .. L + 1, i + 4 <= j
               PROVE  EndsBefore(d.histograms[i], d.histograms[j])
    BY Zenon
  <2>2. i \in 1 .. L /\ d.histograms[i] = h[i]
    BY <1>14, <2>1
  <2>3. CASE j \in 1 .. L
    BY <1>8, <1>14, <2>2, <2>3
  <2>4. CASE j = L + 1
    BY <1>14, <1>20, <2>2, <2>4
  <2> QED BY <2>1, <2>3, <2>4
<1>23. L + 1 <= n + 1
  BY <1>1, <1>2
<1>24. d \in [histograms : Seq(SUBSET Nat), slots : Seq(Nat), slot_ids : Seq(1 .. 4)]
  BY <1>11, <1>14, <1>16, <1>17
<1>25. ClusterInv(d, base, n + 1)
  <2> DEFINE M == L + 1
  <2>1. /\ Len(d.slot_ids) = M /\ Len(d.slots) = (IF M < 4 THEN M ELSE 4)
        /\ \A i \in 1 .. M : d.slot_ids[i] = ((i - 1) % 4) + 1
        /\ \A s \in DOMAIN d.slots :
             d.slots[s] \in 1 .. M /\ d.slots[s] > M - 4 /\ s = ((d.slots[s] - 1) % 4) + 1
    BY <1>16, <1>17
  <2>2. M <= n + 1 /\ Len(d.histograms) = M
    BY <1>14, <1>23
  <2>3. /\ \A x \in all \cup {k} : \E i \in 1 .. M : x \in d.histograms[i]
        /\ \A i \in 1 .. M : d.histograms[i] \subseteq all \cup {k} /\ d.histograms[i] # {}
        /\ \A i, j \in 1 .. M : i < j =>
             d.histograms[i] \cap d.histograms[j] = {} /\ StartsBefore(d.histograms[i], d.histograms[j])
        /\ \A i, j \in 1 .. M : i + 4 <= j => EndsBefore(d.histograms[i], d.histograms[j])
    BY <1>18, <1>19, <1>21, <1>22
  <2> HIDE DEF M
  <2> QED BY <1>9, <1>24, <2>1, <2>2, <2>3, Zenon DEF ClusterInv
<1> QED BY <1>25 DEF d, k

\* A context that shares the table in a slot, which is one of the last four.
LEMMA MergeHistogramInv ==
  ASSUME NEW c, NEW base \in Nat, NEW n \in Nat, ClusterInv(c, base, n), NEW slot \in DOMAIN c.slots
  PROVE  ClusterInv(MergeHistogram(c, base + n, slot), base, n + 1)
<1> DEFINE h == c.histograms
           L == Len(h)
           k == base + n
           all == base .. base + n - 1
           m == c.slots[slot]
           d == MergeHistogram(c, k, slot)
<1>1. /\ c \in [histograms : Seq(SUBSET Nat), slots : Seq(Nat), slot_ids : Seq(1 .. 4)]
      /\ L <= n /\ Len(c.slot_ids) = L /\ Len(c.slots) = IF L < 4 THEN L ELSE 4
      /\ \A i \in 1 .. L : c.slot_ids[i] = ((i - 1) % 4) + 1
      /\ \A s \in DOMAIN c.slots :
           c.slots[s] \in 1 .. L /\ c.slots[s] > L - 4 /\ s = ((c.slots[s] - 1) % 4) + 1
  BY Zenon DEF ClusterInv
<1>2. h \in Seq(SUBSET Nat)
  BY <1>1
<1>3. L \in Nat /\ m \in 1 .. L /\ m > L - 4
  BY <1>1, <1>2
<1>4. \A i \in 1 .. L : h[i] \subseteq all /\ h[i] # {}
  BY DEF ClusterInv
<1>5. \A x \in all : \E i \in 1 .. L : x \in h[i]
  BY DEF ClusterInv
<1>6. \A i, j \in 1 .. L : i < j => h[i] \cap h[j] = {} /\ StartsBefore(h[i], h[j])
  BY DEF ClusterInv
<1>7. \A i, j \in 1 .. L : i + 4 <= j => EndsBefore(h[i], h[j])
  BY DEF ClusterInv
<1>8. k \in Nat /\ base .. base + (n + 1) - 1 = all \cup {k} /\ all \subseteq Nat /\ \A x \in all : x < k /\ x # k
  OBVIOUS
<1>9. d = [c EXCEPT !.histograms = [h EXCEPT ![m] = h[m] \cup {k}]]
  BY DEF MergeHistogram
<1> HIDE DEF d
<1>10. d.slots = c.slots /\ d.slot_ids = c.slot_ids /\ d.histograms = [h EXCEPT ![m] = h[m] \cup {k}]
       /\ d = [histograms |-> d.histograms, slots |-> c.slots, slot_ids |-> c.slot_ids]
       /\ c.slots \in Seq(Nat) /\ c.slot_ids \in Seq(1 .. 4)
  BY <1>1, <1>9
<1>11. Len(h) = L
  OBVIOUS
<1> HIDE DEF h, L, k, all, m
<1>12. /\ d.histograms \in Seq(SUBSET Nat) /\ Len(d.histograms) = L
       /\ \A i \in 1 .. L : d.histograms[i] = IF i = m THEN h[m] \cup {k} ELSE h[i]
  <2>1. h[m] \cup {k} \in SUBSET Nat
    BY <1>2, <1>3, <1>8, <1>11
  <2> QED BY <1>2, <1>3, <1>10, <1>11, <2>1
<1>13. \A i \in 1 .. L : d.histograms[i] \subseteq all \cup {k} /\ d.histograms[i] # {}
  BY <1>3, <1>4, <1>12
<1>14. \A x \in all \cup {k} : \E i \in 1 .. L : x \in d.histograms[i]
  BY <1>3, <1>5, <1>12
<1>15. \A i \in 1 .. L : \A x \in h[i] : x < k /\ x # k
  BY <1>4, <1>8
<1>16. ASSUME NEW i \in 1 .. L, NEW j \in 1 .. L, i < j
       PROVE  d.histograms[i] \cap d.histograms[j] = {} /\ StartsBefore(d.histograms[i], d.histograms[j])
  <2>1. h[i] \cap h[j] = {} /\ StartsBefore(h[i], h[j])
    BY <1>6, <1>16
  <2>2. PICK x \in h[i] : \A y \in h[j] : x < y
    BY <2>1 DEF StartsBefore
  <2>3. i # j
    BY <1>3, <1>16
  <2>4. d.histograms[i] \cap d.histograms[j] = {}
    BY <1>12, <1>15, <2>1, <2>3
  <2>5. \A y \in d.histograms[j] : x < y
    BY <1>12, <1>15, <2>2
  <2>6. x \in d.histograms[i]
    BY <1>12
  <2> QED BY <2>4, <2>5, <2>6 DEF StartsBefore
<1>17. ASSUME NEW i \in 1 .. L, NEW j \in 1 .. L, i + 4 <= j
       PROVE  EndsBefore(d.histograms[i], d.histograms[j])
  <2>1. EndsBefore(h[i], h[j])
    BY <1>7, <1>17
  <2>2. d.histograms[i] = h[i]
    BY <1>3, <1>12, <1>17
  <2>3. d.histograms[j] = h[j] \/ d.histograms[j] = h[j] \cup {k}
    BY <1>12
  <2>4. \A x \in h[i] : x < k
    BY <1>15
  <2> SUFFICES ASSUME NEW x \in h[i], NEW y \in d.histograms[j] PROVE x < y
    BY <2>2 DEF EndsBefore
  <2>5. y \in h[j] \/ y = k
    BY <2>3
  <2> QED BY <2>1, <2>4, <2>5 DEF EndsBefore
<1>18. L <= n + 1
  BY <1>1, <1>3
<1>19. d \in [histograms : Seq(SUBSET Nat), slots : Seq(Nat), slot_ids : Seq(1 .. 4)]
  BY <1>10, <1>12
<1>20. /\ Len(d.slot_ids) = L /\ Len(d.slots) = IF L < 4 THEN L ELSE 4
       /\ \A i \in 1 .. L : d.slot_ids[i] = ((i - 1) % 4) + 1
       /\ \A s \in DOMAIN d.slots :
            d.slots[s] \in 1 .. L /\ d.slots[s] > L - 4 /\ s = ((d.slots[s] - 1) % 4) + 1
  BY <1>1, <1>10 DEF L
<1>21. ClusterInv(d, base, n + 1)
  <2>1. /\ \A x \in base .. base + (n + 1) - 1 : \E i \in 1 .. L : x \in d.histograms[i]
        /\ \A i \in 1 .. L :
             d.histograms[i] \subseteq base .. base + (n + 1) - 1 /\ d.histograms[i] # {}
    BY <1>8, <1>13, <1>14, Zenon
  <2>2. /\ \A i, j \in 1 .. L : i < j =>
               d.histograms[i] \cap d.histograms[j] = {} /\ StartsBefore(d.histograms[i], d.histograms[j])
        /\ \A i, j \in 1 .. L : i + 4 <= j => EndsBefore(d.histograms[i], d.histograms[j])
    BY <1>16, <1>17
  <2>3. Len(d.histograms) = L
    BY <1>12
  <2> QED BY <1>18, <1>19, <1>20, <2>1, <2>2, <2>3, Zenon DEF ClusterInv
<1> QED BY <1>21 DEF d, k

-----------------------------------------------------------------------------
(* The tables.                                                             *)

LEMMA IntervalSize ==
  ASSUME NEW a \in Nat, NEW b \in Nat, a <= b
  PROVE  IsFiniteSet(a + 1 .. b) /\ Cardinality(a + 1 .. b) = b - a
<1> DEFINE c == a + 1
<1>1. c \in Int /\ b \in Int /\ (c > b => b - a = 0) /\ b - c + 1 = b - a
  OBVIOUS
<1> HIDE DEF c
<1>2. IsFiniteSet(c .. b) /\ Cardinality(c .. b) = IF c > b THEN 0 ELSE b - c + 1
  BY <1>1, FS_Interval
<1>3. Cardinality(c .. b) = b - a
  BY <1>1, <1>2
<1> QED BY <1>2, <1>3 DEF c

\* D tables of DC, then A of AC.
LEMMA FirstOfDCThenAC ==
  ASSUME NEW ts, NEW D \in Nat, NEW A \in Nat, Len(ts) = D + A, DOMAIN ts = 1 .. D + A,
         \A i \in 1 .. D + A : (ts[i].slot >= 16) = (i > D)
  PROVE  FirstOf(ts) = IF A <= 4 THEN D + A ELSE D + 4
<1> DEFINE AC(i) == {j \in 1 .. i : ts[j].slot >= 16}
           fifth == {i \in DOMAIN ts : ts[i].slot >= 16 /\ Cardinality(AC(i)) > 4}
<1>1. ASSUME NEW i \in 1 .. D + A, i > D
      PROVE  Cardinality(AC(i)) = i - D
  <2>1. AC(i) = D + 1 .. i
    BY <1>1
  <2>2. Cardinality(D + 1 .. i) = i - D
    BY <1>1, IntervalSize
  <2> QED BY <2>1, <2>2
<1> HIDE DEF AC
<1>2. \A i \in 1 .. D + A : i > D => (Cardinality(AC(i)) > 4) = (i > D + 4)
  BY <1>1
<1>3. fifth = D + 5 .. D + A
  BY <1>2
<1>4. FirstOf(ts) = IF fifth = {} THEN Len(ts) ELSE Min(fifth) - 1
  BY DEF FirstOf, AC
<1> HIDE DEF fifth
<1>5. CASE A <= 4
  <2>1. fifth = {}
    BY <1>3, <1>5
  <2> QED BY <1>4, <1>5, <2>1
<1>6. CASE A > 4
  <2>1. fifth \in SUBSET Nat /\ D + 5 \in fifth /\ \A i \in fifth : D + 5 <= i
    BY <1>3, <1>6
  <2>2. Min(fifth) \in fifth /\ \A y \in fifth : Min(fifth) <= y
    BY <2>1, MinIsSmallest
  <2> DEFINE m == Min(fifth)
  <2>3. m \in Nat /\ D + 5 <= m /\ m <= D + 5
    BY <2>1, <2>2
  <2>4. FirstOf(ts) = m - 1
    BY <1>4, <2>1, Zenon
  <2> HIDE DEF m
  <2> QED BY <1>6, <2>3, <2>4
<1> QED BY <1>5, <1>6

\* Tables with slots of their own are all sent before the first scan.
LEMMA FirstOfSingle ==
  ASSUME NEW ts \in Seq([slot : 0 .. 19, contexts : SUBSET Nat]),
         \A t, u \in DOMAIN ts : t # u => ts[t].slot # ts[u].slot
  PROVE  FirstOf(ts) = Len(ts)
<1> DEFINE AC(i) == {j \in 1 .. i : ts[j].slot >= 16}
           fifth == {i \in DOMAIN ts : ts[i].slot >= 16 /\ Cardinality(AC(i)) > 4}
<1>1. ASSUME NEW i \in DOMAIN ts
      PROVE  ~(Cardinality(AC(i)) > 4)
  <2> DEFINE f == [j \in AC(i) |-> ts[j].slot]
  <2>1. AC(i) \subseteq DOMAIN ts
    <3>1. DOMAIN ts = 1 .. Len(ts) /\ i \in 1 .. Len(ts) /\ Len(ts) \in Nat
      OBVIOUS
    <3>2. 1 .. i \subseteq 1 .. Len(ts)
      BY <3>1
    <3> QED BY <3>1, <3>2
  <2>2. ASSUME NEW j \in AC(i) PROVE ts[j].slot \in 16 .. 19
    <3> DEFINE T == [slot : 0 .. 19, contexts : SUBSET Nat]
    <3>1. ts \in Seq(T) /\ j \in DOMAIN ts /\ ts[j].slot >= 16
      BY <2>1
    <3> HIDE DEF T
    <3>2. ts[j] \in T
      BY <3>1
    <3> DEFINE x == ts[j].slot
    <3>3. x \in 0 .. 19 /\ x >= 16
      BY <3>1, <3>2 DEF T
    <3> HIDE DEF x
    <3>4. x \in 16 .. 19
      BY <3>3
    <3> QED BY <3>4 DEF x
  <2>3. f \in Injection(AC(i), 16 .. 19)
    BY <2>1, <2>2 DEF Injection, IsInjective
  <2>4. IsFiniteSet(16 .. 19) /\ Cardinality(16 .. 19) = 4
    <3>1. 15 \in Nat /\ 19 \in Nat /\ 15 <= 19 /\ 19 - 15 = 4
      OBVIOUS
    <3>2. IsFiniteSet(15 + 1 .. 19) /\ Cardinality(15 + 1 .. 19) = 19 - 15
      BY <3>1, IntervalSize, Zenon
    <3> DEFINE slots == 15 + 1 .. 19
    <3>3. slots = 16 .. 19
      OBVIOUS
    <3>4. IsFiniteSet(slots) /\ Cardinality(slots) = 19 - 15
      BY <3>2
    <3> HIDE DEF slots
    <3> QED BY <3>1, <3>3, <3>4, Zenon
  <2> HIDE DEF f, AC
  <2>6. IsFiniteSet(AC(i)) /\ Cardinality(AC(i)) <= Cardinality(16 .. 19)
    BY <2>3, <2>4, FS_Injection
  <2>7. Cardinality(AC(i)) \in Nat
    BY <2>6, FS_CardinalityType
  <2> QED BY <2>4, <2>6, <2>7
<1>2. fifth = {}
  BY <1>1
<1> QED BY <1>2 DEF FirstOf

LEMMA SameSlot ==
  ASSUME NEW x \in Nat, NEW y \in Nat, x % 4 = y % 4, x < y
  PROVE  x + 4 <= y
OBVIOUS

LEMMA EitherPart ==
  ASSUME NEW D \in Nat, NEW A \in Nat, NEW t \in 1 .. D + A
  PROVE  t \in 1 .. D \/ \E i \in 1 .. A : t = D + i
<1>1. CASE t <= D
  BY <1>1
<1>2. CASE t > D
  <2>1. t - D \in 1 .. A /\ t = D + (t - D)
    BY <1>2
  <2> QED BY <2>1
<1> QED BY <1>1, <1>2

LEMMA Joined ==
  ASSUME NEW T, NEW a \in Seq(T), NEW b \in Seq(T), NEW D, NEW A, D = Len(a), A = Len(b)
  PROVE  /\ a \o b \in Seq(T) /\ Len(a \o b) = D + A
         /\ DOMAIN (a \o b) = 1 .. D + A
         /\ \A i \in 1 .. D : i \in DOMAIN (a \o b) /\ (a \o b)[i] = a[i]
         /\ \A i \in 1 .. A : D + i \in DOMAIN (a \o b) /\ (a \o b)[D + i] = b[i]
<1>1. D \in Nat /\ A \in Nat
  OBVIOUS
<1>2. a \o b \in Seq(T) /\ Len(a \o b) = D + A
  OBVIOUS
<1>3. DOMAIN (a \o b) = 1 .. D + A
  BY <1>2, LenProperties
<1>4. \A i \in 1 .. D : i \in DOMAIN (a \o b) /\ (a \o b)[i] = a[i]
  BY <1>1, <1>3
<1>5. ASSUME NEW i \in 1 .. A
      PROVE  D + i \in DOMAIN (a \o b) /\ (a \o b)[D + i] = b[i]
  BY <1>1, <1>3
<1> QED BY <1>2, <1>3, <1>4, <1>5

\* The tables of the clusters: those of DC in slots of their own, those of AC in a circle of
\* four slots.
LEMMA ClusteredTables ==
  ASSUME NEW dc, NEW ac, NEW n \in 1 .. 4, NEW k \in Nat, NEW progressive \in BOOLEAN,
         ClusterInv(dc, 0, n), ClusterInv(ac, 4, k), ~progressive => k <= 4
  PROVE  AreTables([i \in 1 .. Len(dc.histograms) |-> [slot |-> i - 1, contexts |-> dc.histograms[i]]] \o
                   [i \in 1 .. Len(ac.histograms) |-> [slot |-> 15 + ac.slot_ids[i],
                                                       contexts |-> ac.histograms[i]]],
                   (0 .. n - 1) \cup (4 .. (4 + k) - 1), progressive)
<1> DEFINE g == dc.histograms
           h == ac.histograms
           D == Len(dc.histograms)
           A == Len(ac.histograms)
           T == [slot : 0 .. 19, contexts : SUBSET Nat]
           of_dc == [i \in 1 .. D |-> [slot |-> i - 1, contexts |-> g[i]]]
           of_ac == [i \in 1 .. A |-> [slot |-> 15 + ac.slot_ids[i], contexts |-> h[i]]]
           ts == of_dc \o of_ac
           first == FirstOf(ts)
<1>1. /\ g \in Seq(SUBSET Nat) /\ D \in Nat /\ D <= n
      /\ \A x \in 0 .. n - 1 : \E i \in 1 .. D : x \in g[i]
      /\ \A i \in 1 .. D : g[i] \subseteq 0 .. n - 1 /\ g[i] # {}
      /\ \A i, j \in 1 .. D : i < j => g[i] \cap g[j] = {} /\ StartsBefore(g[i], g[j])
  <2>1. 0 + n - 1 = n - 1
    OBVIOUS
  <2>2. dc \in [histograms : Seq(SUBSET Nat), slots : Seq(Nat), slot_ids : Seq(1 .. 4)]
    BY Zenon DEF ClusterInv
  <2>3. g \in Seq(SUBSET Nat)
    BY <2>2
  <2>4. D \in Nat
    BY <2>3, LenProperties
  <2> QED BY <2>1, <2>3, <2>4, Zenon DEF ClusterInv
<1>2. /\ h \in Seq(SUBSET Nat) /\ A \in Nat /\ A <= k /\ ac.slot_ids \in Seq(1 .. 4) /\ Len(ac.slot_ids) = A
      /\ \A i \in 1 .. A : ac.slot_ids[i] = ((i - 1) % 4) + 1
      /\ \A x \in 4 .. 4 + k - 1 : \E i \in 1 .. A : x \in h[i]
      /\ \A i \in 1 .. A : h[i] \subseteq 4 .. 4 + k - 1 /\ h[i] # {}
      /\ \A i, j \in 1 .. A : i < j => h[i] \cap h[j] = {} /\ StartsBefore(h[i], h[j])
      /\ \A i, j \in 1 .. A : i + 4 <= j => EndsBefore(h[i], h[j])
  <2>2. ac \in [histograms : Seq(SUBSET Nat), slots : Seq(Nat), slot_ids : Seq(1 .. 4)]
    BY Zenon DEF ClusterInv
  <2>3. h \in Seq(SUBSET Nat) /\ ac.slot_ids \in Seq(1 .. 4)
    BY <2>2
  <2>4. A \in Nat
    BY <2>3, LenProperties
  <2> QED BY <2>3, <2>4, Zenon DEF ClusterInv
<1> HIDE DEF g, h, D, A
<1>3. \A x \in 4 .. 4 + k - 1 : x >= 4 /\ x \in Nat
  OBVIOUS
<1>4. \A x \in 0 .. n - 1 : x < 4 /\ x \in Nat
  OBVIOUS
<1>5. D \in 1 .. 4 /\ A \in Nat /\ A <= k /\ D \in Nat /\ A + D \in Nat
  <2>1. 0 \in 0 .. n - 1
    OBVIOUS
  <2>2. \E i \in 1 .. D : TRUE
    BY <1>1, <2>1
  <2>3. D \in Nat /\ D <= n /\ A \in Nat /\ A <= k
    BY <1>1, <1>2, Zenon
  <2>4. D \in 1 .. 4
    BY <2>2, <2>3
  <2> QED BY <2>3, <2>4
<1>6. \A i \in 1 .. D : i - 1 \in 0 .. 3 /\ g[i] \in SUBSET Nat
  <2>1. \A i \in 1 .. D : i - 1 \in 0 .. 3
    BY <1>5
  <2>2. \A i \in 1 .. D : g[i] \subseteq 0 .. n - 1
    BY <1>1, Zenon
  <2>3. 0 .. n - 1 \subseteq Nat
    OBVIOUS
  <2> QED BY <2>1, <2>2, <2>3, Zenon
<1>7. \A i \in 1 .. A : 15 + ac.slot_ids[i] = 16 + ((i - 1) % 4) /\ 16 + ((i - 1) % 4) \in 16 .. 19
                         /\ h[i] \in SUBSET Nat
  <2> SUFFICES ASSUME NEW i \in 1 .. A
               PROVE  15 + ac.slot_ids[i] = 16 + ((i - 1) % 4) /\ 16 + ((i - 1) % 4) \in 16 .. 19
                      /\ h[i] \in SUBSET Nat
    OBVIOUS
  <2>1. i - 1 \in Nat
    BY <1>2
  <2>2. (i - 1) % 4 \in 0 .. 3
    BY <2>1, FourSlots
  <2>3. ac.slot_ids[i] = ((i - 1) % 4) + 1
    BY <1>2
  <2>4. h[i] \in SUBSET Nat
    BY <1>2
  <2> QED BY <2>2, <2>3, <2>4
<1>8. of_dc \in Seq(T) /\ Len(of_dc) = D /\ \A i \in 1 .. D : of_dc[i].slot = i - 1 /\ of_dc[i].contexts = g[i]
  <2>1. \A i \in 1 .. D : of_dc[i] = [slot |-> i - 1, contexts |-> g[i]]
    OBVIOUS
  <2>2. of_dc \in [1 .. D -> T]
    <3>1. \A i \in 1 .. D : [slot |-> i - 1, contexts |-> g[i]] \in T
      <4> SUFFICES ASSUME NEW i \in 1 .. D PROVE [slot |-> i - 1, contexts |-> g[i]] \in T
        OBVIOUS
      <4> DEFINE x == g[i]
      <4>1. i - 1 \in 0 .. 19 /\ x \in SUBSET Nat
        BY <1>6
      <4> HIDE DEF x
      <4>2. [slot |-> i - 1, contexts |-> x] \in T
        BY <4>1
      <4> QED BY <4>2 DEF x
    <3> HIDE DEF T
    <3> QED BY <3>1, Zenon
  <2> HIDE DEF T, of_dc
  <2>3. of_dc \in Seq(T) /\ Len(of_dc) = D
    BY <1>1, <2>2
  <2> QED BY <2>1, <2>3
<1>9. of_ac \in Seq(T) /\ Len(of_ac) = A
      /\ \A i \in 1 .. A : of_ac[i].slot = 16 + ((i - 1) % 4) /\ of_ac[i].contexts = h[i]
  <2>1. \A i \in 1 .. A : of_ac[i] = [slot |-> 15 + ac.slot_ids[i], contexts |-> h[i]]
    OBVIOUS
  <2>2. of_ac \in [1 .. A -> T]
    <3>1. \A i \in 1 .. A : [slot |-> 15 + ac.slot_ids[i], contexts |-> h[i]] \in T
      <4> SUFFICES ASSUME NEW i \in 1 .. A PROVE [slot |-> 15 + ac.slot_ids[i], contexts |-> h[i]] \in T
        OBVIOUS
      <4> DEFINE x == h[i]
                 y == 16 + ((i - 1) % 4)
      <4>1. 15 + ac.slot_ids[i] = y /\ y \in 16 .. 19 /\ x \in SUBSET Nat
        BY <1>7, Zenon
      <4> HIDE DEF x, y
      <4>2. y \in 0 .. 19
        BY <4>1
      <4>3. [slot |-> y, contexts |-> x] \in T
        BY <4>1, <4>2
      <4> QED BY <4>1, <4>3 DEF x
    <3> HIDE DEF T
    <3> QED BY <3>1, Zenon
  <2> HIDE DEF T, of_ac
  <2>3. of_ac \in Seq(T) /\ Len(of_ac) = A
    BY <1>2, <2>2
  <2> QED BY <1>7, <2>1, <2>3
<1> HIDE DEF of_dc, of_ac, T
<1>10. /\ ts \in Seq(T) /\ Len(ts) = D + A /\ DOMAIN ts = 1 .. D + A
       /\ \A i \in 1 .. D : i \in DOMAIN ts /\ ts[i] = of_dc[i]
       /\ \A i \in 1 .. A : D + i \in DOMAIN ts /\ ts[D + i] = of_ac[i]
  <2>1. of_dc \in Seq(T) /\ of_ac \in Seq(T) /\ D = Len(of_dc) /\ A = Len(of_ac)
    BY <1>8, <1>9
  <2> HIDE DEF ts
  <2>2. /\ of_dc \o of_ac \in Seq(T) /\ Len(of_dc \o of_ac) = D + A
        /\ DOMAIN (of_dc \o of_ac) = 1 .. D + A
    BY <2>1, Joined
  <2>3. \A i \in 1 .. D : i \in DOMAIN (of_dc \o of_ac) /\ (of_dc \o of_ac)[i] = of_dc[i]
    BY <2>1, Joined
  <2>4. \A i \in 1 .. A : D + i \in DOMAIN (of_dc \o of_ac) /\ (of_dc \o of_ac)[D + i] = of_ac[i]
    BY <2>1, Joined
  <2> QED BY <2>2, <2>3, <2>4, Zenon DEF ts
<1> HIDE DEF ts
<1>11. DOMAIN ts = 1 .. D + A
  BY <1>10
<1>12. \A i \in 1 .. D : i \in DOMAIN ts /\ ts[i].slot = i - 1 /\ ts[i].contexts = g[i]
  BY <1>8, <1>10, Zenon
<1>13. \A i \in 1 .. A : D + i \in DOMAIN ts /\ ts[D + i].slot = 16 + ((i - 1) % 4)
                          /\ ts[D + i].contexts = h[i]
  BY <1>9, <1>10, Zenon
<1>14. \A t \in DOMAIN ts : t \in 1 .. D \/ \E i \in 1 .. A : t = D + i
  BY <1>5, <1>11, EitherPart
<1>15. first = IF A <= 4 THEN D + A ELSE D + 4
  <2>1. ASSUME NEW i \in 1 .. D + A PROVE (ts[i].slot >= 16) = (i > D)
    <3>1. CASE i \in 1 .. D
      <4>1. ts[i].slot = i - 1 /\ i - 1 \in 0 .. 3
        BY <1>6, <1>12, <3>1
      <4>2. ~(i > D)
        BY <1>5, <3>1
      <4> QED BY <4>1, <4>2
    <3>2. ASSUME NEW j \in 1 .. A, i = D + j PROVE (ts[i].slot >= 16) = (i > D)
      <4>1. ts[i].slot \in 16 .. 19
        BY <1>7, <1>13, <3>2
      <4>2. i > D
        BY <1>1, <1>2, <3>2
      <4> QED BY <4>1, <4>2
    <3> QED BY <1>11, <1>14, <3>1, <3>2
  <2> QED BY <1>5, <1>10, <2>1, FirstOfDCThenAC, Zenon
<1> HIDE DEF first
<1>16. ts # <<>> /\ first \in 1 .. Len(ts) /\ first \in Nat
  BY <1>1, <1>2, <1>5, <1>10, <1>15
<1>17. \A x \in (0 .. n - 1) \cup (4 .. (4 + k) - 1) : \E t \in DOMAIN ts : x \in ts[t].contexts
  <2>1. (4 + k) - 1 = 4 + k - 1
    OBVIOUS
  <2>2. \A x \in 0 .. n - 1 : \E t \in DOMAIN ts : x \in ts[t].contexts
    BY <1>1, <1>12, Zenon
  <2>3. \A x \in 4 .. 4 + k - 1 : \E t \in DOMAIN ts : x \in ts[t].contexts
    BY <1>2, <1>13, Zenon
  <2> QED BY <2>1, <2>2, <2>3, Zenon
<1>18. ASSUME NEW t \in DOMAIN ts, NEW u \in DOMAIN ts, t < u
       PROVE  /\ ts[t].contexts \cap ts[u].contexts = {}
              /\ ts[t].slot = ts[u].slot => u > first /\ EndsBefore(ts[t].contexts, ts[u].contexts)
              /\ first < t => StartsBefore(ts[t].contexts, ts[u].contexts)
  <2>1. CASE t \in 1 .. D /\ u \in 1 .. D
    <3>1. ts[t].contexts \cap ts[u].contexts = {}
      BY <1>1, <1>12, <1>18, <2>1
    <3>2. ts[t].slot # ts[u].slot
      <4>1. ts[t].slot = t - 1 /\ ts[u].slot = u - 1
        BY <1>12, <2>1
      <4>2. t \in Int /\ u \in Int
        BY <2>1
      <4> QED BY <1>18, <4>1, <4>2
    <3>3. ~(first < t)
      BY <1>5, <1>15, <2>1
    <3> QED BY <3>1, <3>2, <3>3
  <2>2. ASSUME t \in 1 .. D, NEW j \in 1 .. A, u = D + j
        PROVE  /\ ts[t].contexts \cap ts[u].contexts = {} /\ ts[t].slot # ts[u].slot /\ ~(first < t)
    <3>1. ts[t].contexts \subseteq 0 .. n - 1 /\ ts[u].contexts \subseteq 4 .. 4 + k - 1
      BY <1>1, <1>2, <1>12, <1>13, <2>2
    <3>2. ts[t].contexts \cap ts[u].contexts = {}
      BY <1>3, <1>4, <3>1
    <3>3. ts[t].slot \in 0 .. 3
      BY <1>6, <1>12, <2>2
    <3>4. ts[u].slot \in 16 .. 19
      BY <1>7, <1>13, <2>2
    <3>5. ~(first < t)
      BY <1>1, <1>2, <1>15, <2>2
    <3> QED BY <3>2, <3>3, <3>4, <3>5
  <2>3. ASSUME NEW i \in 1 .. A, t = D + i, NEW j \in 1 .. A, u = D + j
        PROVE  /\ ts[t].contexts \cap ts[u].contexts = {}
               /\ ts[t].slot = ts[u].slot => u > first /\ EndsBefore(ts[t].contexts, ts[u].contexts)
               /\ first < t => StartsBefore(ts[t].contexts, ts[u].contexts)
    <3>1. ts[t].contexts = h[i] /\ ts[u].contexts = h[j]
          /\ ts[t].slot = 16 + ((i - 1) % 4) /\ ts[u].slot = 16 + ((j - 1) % 4)
      BY <1>13, <2>3, Zenon
    <3>2. i < j
      BY <1>1, <1>2, <1>18, <2>3
    <3>3. h[i] \cap h[j] = {} /\ StartsBefore(h[i], h[j])
      BY <1>2, <3>2
    <3>4. ASSUME ts[t].slot = ts[u].slot
          PROVE  u > first /\ EndsBefore(h[i], h[j])
      <4>1. i - 1 \in Nat /\ j - 1 \in Nat /\ i - 1 < j - 1
        BY <1>2, <3>2
      <4>2. (i - 1) % 4 \in 0 .. 3 /\ (j - 1) % 4 \in 0 .. 3
        BY <4>1, FourSlots
      <4>3. (i - 1) % 4 = (j - 1) % 4
        BY <3>1, <3>4, <4>2
      <4>4. (i - 1) + 4 <= j - 1
        BY <4>1, <4>3, SameSlot
      <4>5. i + 4 <= j
        BY <1>2, <4>4
      <4>6. u > first
        BY <1>1, <1>2, <1>15, <2>3, <4>5
      <4> QED BY <1>2, <4>5, <4>6
    <3> QED BY <3>1, <3>3, <3>4, Zenon
  <2>4. \A x \in 1 .. A, y \in 1 .. D : ~(D + x < y)
    BY <1>5
  <2>5. CASE t \in 1 .. D
    BY <1>14, <2>1, <2>2, <2>5, Zenon
  <2>6. CASE \E i \in 1 .. A : t = D + i
    BY <1>14, <1>18, <2>3, <2>4, <2>6, Zenon
  <2> QED BY <1>14, <2>5, <2>6, Zenon
<1>19. ASSUME NEW t \in DOMAIN ts
       PROVE  /\ (\E x \in ts[t].contexts : x < 4) => t <= first /\ ts[t].slot < 16
              /\ t > first => ts[t].slot >= 16
  <2>1. CASE t \in 1 .. D
    <3>1. ts[t].slot = t - 1 /\ t - 1 \in 0 .. 3 /\ t <= D /\ t \in Nat
      BY <1>5, <1>6, <1>12, <2>1
    <3>2. D <= first
      BY <1>5, <1>15
    <3>3. t <= first /\ ts[t].slot < 16
      BY <1>5, <1>16, <3>1, <3>2
    <3>4. ~(t > first)
      BY <1>16, <3>1, <3>3
    <3> QED BY <3>3, <3>4
  <2>2. ASSUME NEW i \in 1 .. A, t = D + i
        PROVE  ts[t].slot >= 16 /\ \A x \in ts[t].contexts : ~(x < 4)
    <3>1. ts[t].contexts = h[i] /\ ts[t].slot \in 16 .. 19
      BY <1>7, <1>13, <2>2
    <3>2. h[i] \subseteq 4 .. 4 + k - 1
      BY <1>2, Zenon
    <3>3. \A x \in ts[t].contexts : ~(x < 4)
      BY <1>3, <3>1, <3>2
    <3> QED BY <3>1, <3>3
  <2>3. ASSUME NEW i \in 1 .. A, t = D + i
        PROVE  /\ (\E x \in ts[t].contexts : x < 4) => t <= first /\ ts[t].slot < 16
               /\ t > first => ts[t].slot >= 16
    BY <2>2, <2>3, Zenon
  <2> QED BY <1>14, <2>1, <2>3, Zenon
<1>20. ~progressive => first = Len(ts)
  BY <1>1, <1>2, <1>10, <1>15
<1>21. AreTables(ts, (0 .. n - 1) \cup (4 .. (4 + k) - 1), progressive)
  BY <1>10, <1>16, <1>17, <1>18, <1>19, <1>20, Zenon DEF AreTables, T, first
<1> QED BY <1>21 DEF ts, of_dc, of_ac, g, h, D, A

-----------------------------------------------------------------------------
(* The tables of the application.                                          *)

\* The places up to k of u where an element is first used, and the place of the i-th one.
FirstUses(u, k) == {j \in 1 .. k : \A l \in 1 .. j - 1 : u[l] # u[j]}
NthUse(u, m, i) == CHOOSE k \in FirstUses(u, m) : Cardinality(FirstUses(u, k)) = i

LEMMA FirstUsesCounted ==
  ASSUME NEW u, NEW m \in Nat
  PROVE  /\ \A k \in 0 .. m : IsFiniteSet(FirstUses(u, k)) /\ Cardinality(FirstUses(u, k)) \in Nat
         /\ Cardinality(FirstUses(u, 0)) = 0
         /\ \A k \in 1 .. m : Cardinality(FirstUses(u, k)) =
              Cardinality(FirstUses(u, k - 1)) + (IF k \in FirstUses(u, m) THEN 1 ELSE 0)
         /\ \A k, l \in 0 .. m :
              k <= l => Cardinality(FirstUses(u, k)) <= Cardinality(FirstUses(u, l))
<1>1. ASSUME NEW k \in 0 .. m
      PROVE  IsFiniteSet(FirstUses(u, k)) /\ Cardinality(FirstUses(u, k)) \in Nat
  <2>1. FirstUses(u, k) \subseteq 1 .. k /\ 1 \in Int /\ k \in Int
    BY DEF FirstUses
  <2>2. IsFiniteSet(1 .. k)
    BY <2>1, FS_Interval
  <2>3. IsFiniteSet(FirstUses(u, k))
    BY <2>1, <2>2, FS_Subset
  <2> QED BY <2>3, FS_CardinalityType
<1>2. Cardinality(FirstUses(u, 0)) = 0
  <2>1. FirstUses(u, 0) = {}
    BY DEF FirstUses
  <2> QED BY <2>1, FS_EmptySet
<1>3. ASSUME NEW k \in 1 .. m
      PROVE  Cardinality(FirstUses(u, k)) =
               Cardinality(FirstUses(u, k - 1)) + (IF k \in FirstUses(u, m) THEN 1 ELSE 0)
  <2>1. k - 1 \in 0 .. m /\ k \notin FirstUses(u, k - 1)
    BY DEF FirstUses
  <2>2. IsFiniteSet(FirstUses(u, k - 1)) /\ Cardinality(FirstUses(u, k - 1)) \in Nat
    BY <1>1, <2>1
  <2>3. CASE k \in FirstUses(u, m)
    <3>1. FirstUses(u, k) = FirstUses(u, k - 1) \cup {k}
      BY <2>3 DEF FirstUses
    <3>2. Cardinality(FirstUses(u, k - 1) \cup {k}) = Cardinality(FirstUses(u, k - 1)) + 1
      BY <2>1, <2>2, FS_AddElement, Zenon
    <3> QED BY <2>3, <3>1, <3>2
  <2>4. CASE k \notin FirstUses(u, m)
    <3>1. FirstUses(u, k) = FirstUses(u, k - 1)
      BY <2>4 DEF FirstUses
    <3> QED BY <2>2, <2>4, <3>1
  <2> QED BY <2>3, <2>4
<1>4. ASSUME NEW k \in 0 .. m, NEW l \in 0 .. m, k <= l
      PROVE  Cardinality(FirstUses(u, k)) <= Cardinality(FirstUses(u, l))
  <2>1. FirstUses(u, k) \subseteq FirstUses(u, l)
    BY <1>4 DEF FirstUses
  <2> QED BY <1>1, <2>1, FS_Subset
<1> QED BY <1>1, <1>2, <1>3, <1>4

\* Every element of u once.
Enumerates(N, u, m) ==
  /\ N \in Nat
  /\ \A i \in 1 .. N : NthUse(u, m, i) \in 1 .. m
  /\ \A i, j \in 1 .. N : i # j => u[NthUse(u, m, i)] # u[NthUse(u, m, j)]
  /\ \A k \in 1 .. m : \E i \in 1 .. N : u[NthUse(u, m, i)] = u[k]

LEMMA OnceEach ==
  ASSUME NEW u, NEW m \in Nat, NEW N, N = Cardinality(FirstUses(u, m))
  PROVE  Enumerates(N, u, m)
<1> DEFINE n(k) == Cardinality(FirstUses(u, k))
           at(i) == NthUse(u, m, i)
<1>1. /\ \A k \in 0 .. m : n(k) \in Nat
      /\ n(0) = 0 /\ N = n(m)
      /\ \A k \in 1 .. m : n(k) = n(k - 1) + (IF k \in FirstUses(u, m) THEN 1 ELSE 0)
      /\ \A k, l \in 0 .. m : k <= l => n(k) <= n(l)
  BY FirstUsesCounted, Zenon
<1>2. \A i : at(i) = CHOOSE k \in FirstUses(u, m) : n(k) = i
  BY DEF NthUse
<1> HIDE DEF n, at
<1>3. N \in Nat
  BY <1>1
<1>4. ASSUME NEW i \in 1 .. N
      PROVE  at(i) \in FirstUses(u, m) /\ n(at(i)) = i
  <2> DEFINE S == {k \in 1 .. m : n(k) >= i}
  <2>1. S \in SUBSET Nat /\ S # {}
    <3>1. m \in 1 .. m
      BY <1>1
    <3> QED BY <1>1, <3>1
  <2>2. PICK k \in S : \A l \in S : k <= l
    BY <2>1, SmallestExists
  <2>3. k \in 1 .. m /\ n(k) >= i /\ k - 1 \in 0 .. m
    BY <2>2
  <2>4. n(k - 1) < i
    <3>1. CASE k = 1
      BY <1>1, <3>1
    <3>2. CASE k # 1
      <4>1. k - 1 \in 1 .. m /\ ~(k <= k - 1)
        BY <2>3, <3>2
      <4>2. k - 1 \notin S
        BY <2>2, <4>1
      <4> QED BY <1>1, <2>3, <4>1, <4>2
    <3> QED BY <3>1, <3>2
  <2>5. k \in FirstUses(u, m) /\ n(k) = i
    BY <1>1, <2>3, <2>4
  <2> QED BY <1>2, <2>5, Zenon
<1>5. \A k \in FirstUses(u, m) : k \in 1 .. m /\ k \in Nat /\ \A l \in 1 .. k - 1 : u[l] # u[k]
  BY DEF FirstUses
<1>6. ASSUME NEW i \in 1 .. N, NEW j \in 1 .. N, i # j
      PROVE  u[at(i)] # u[at(j)]
  <2> DEFINE k == at(i)
             l == at(j)
  <2>1. k \in FirstUses(u, m) /\ l \in FirstUses(u, m) /\ n(k) = i /\ n(l) = j
    BY <1>4
  <2> HIDE DEF k, l
  <2>2. k # l
    BY <1>6, <2>1
  <2>3. k \in 1 .. l - 1 \/ l \in 1 .. k - 1
    BY <1>5, <2>1, <2>2
  <2>4. u[k] # u[l]
    BY <1>5, <2>1, <2>3
  <2> QED BY <2>4 DEF k, l
<1>7. ASSUME NEW k \in 1 .. m
      PROVE  \E i \in 1 .. N : u[at(i)] = u[k]
  <2> DEFINE S == {l \in 1 .. m : u[l] = u[k]}
  <2>1. S \in SUBSET Nat /\ S # {}
    OBVIOUS
  <2>2. PICK l \in S : \A x \in S : l <= x
    BY <2>1, SmallestExists
  <2>3. l \in 1 .. m /\ u[l] = u[k]
    BY <2>2
  <2>4. ASSUME NEW x \in 1 .. l - 1
        PROVE  u[x] # u[l]
    <3>1. x \in 1 .. m /\ ~(l <= x)
      BY <2>3
    <3>2. x \notin S
      BY <2>2, <3>1
    <3> QED BY <2>3, <3>1, <3>2
  <2>5. l \in FirstUses(u, m)
    BY <2>3, <2>4 DEF FirstUses
  <2>6. l - 1 \in 0 .. m /\ l \in 0 .. m /\ m \in 0 .. m /\ l <= m
    BY <2>3
  <2>7. n(l) \in 1 .. N
    BY <1>1, <1>3, <2>3, <2>5, <2>6
  <2> DEFINE i == n(l)
             a == at(n(l))
  <2>8. a \in FirstUses(u, m) /\ n(a) = n(l)
    BY <1>4, <2>7
  <2>9. a = l
    <3> HIDE DEF a
    <3>1. a \in 1 .. m /\ a - 1 \in 0 .. m /\ a \in 0 .. m
      BY <1>5, <2>8
    <3>2. CASE a < l
      <4>1. a <= l - 1
        BY <2>3, <3>1, <3>2
      <4>2. n(a) <= n(l - 1) /\ n(l) = n(l - 1) + 1
        BY <1>1, <2>3, <2>5, <2>6, <3>1, <4>1
      <4> QED BY <1>1, <2>6, <2>8, <4>2
    <3>3. CASE l < a
      <4>1. l <= a - 1
        BY <2>3, <3>1, <3>3
      <4>2. n(l) <= n(a - 1) /\ n(a) = n(a - 1) + 1
        BY <1>1, <2>6, <2>8, <3>1, <4>1
      <4> QED BY <1>1, <2>8, <3>1, <4>2
    <3> QED BY <2>3, <3>1, <3>2, <3>3
  <2>10. u[at(i)] = u[k]
    BY <2>3, <2>9
  <2> QED BY <2>7, <2>10
<1>8. \A i \in 1 .. N : at(i) \in 1 .. m
  BY <1>4, <1>5
<1> QED BY <1>3, <1>6, <1>7, <1>8 DEF at, Enumerates

\* Each AC context is that of one component in one scan.
LEMMA ContextOwner ==
  ASSUME NEW f, IsFrame(f), NEW k \in 4 .. NumContexts(f) - 1
  PROVE  \E i \in DOMAIN f.scans : \E j \in 1 .. Contexts(f.scans[i]) : k = OffsetOf(f, i) + j - 1
<1> DEFINE L == Len(f.scans)
           o(i) == OffsetOf(f, i)
           n(i) == Contexts(f.scans[i])
           S == {i \in 1 .. L + 1 : o(i) > k}
<1>1. L \in Nat /\ DOMAIN f.scans = 1 .. L
  BY FrameShape
<1>2. o(1) = 4 /\ (\A i \in 1 .. L + 1 : o(i) \in Nat) /\ (\A i \in 1 .. L : o(i + 1) = o(i) + n(i))
      /\ NumContexts(f) = o(L + 1)
  BY Offsets, Zenon DEF NumContexts
<1>3. \A i \in 1 .. L : n(i) \in Nat
  BY <1>1, ContextsOfScan
<1> HIDE DEF L, o, n
<1>4. L + 1 \in 1 .. L + 1 /\ o(L + 1) > k /\ k \in Nat /\ k >= 4
  BY <1>1, <1>2
<1>5. S \in SUBSET Nat /\ S # {}
  BY <1>1, <1>4
<1>6. PICK m \in S : \A l \in S : m <= l
  BY <1>5, SmallestExists
<1>7. m \in 1 .. L + 1 /\ o(m) > k /\ m # 1
  BY <1>2, <1>4, <1>6
<1> DEFINE i == m - 1
<1>8. i \in 1 .. L /\ i + 1 = m /\ ~(m <= i) /\ i \in 1 .. L + 1
  BY <1>1, <1>7
<1> HIDE DEF i
<1>9. ~(o(i) > k)
  BY <1>6, <1>8
<1> DEFINE j == k - o(i) + 1
<1>10. o(i) \in Nat /\ n(i) \in Nat /\ o(m) = o(i) + n(i)
  BY <1>2, <1>3, <1>8
<1>11. j \in 1 .. n(i) /\ k = o(i) + j - 1
  BY <1>4, <1>7, <1>9, <1>10
<1> QED BY <1>1, <1>8, <1>11 DEF o, n

LEMMA OneOwner ==
  ASSUME NEW f, IsFrame(f), NEW i \in DOMAIN f.scans, NEW k \in DOMAIN f.scans,
         NEW j \in 1 .. Contexts(f.scans[i]), NEW l \in 1 .. Contexts(f.scans[k]),
         OffsetOf(f, i) + j - 1 = OffsetOf(f, k) + l - 1
  PROVE  i = k /\ j = l
<1> DEFINE L == Len(f.scans)
           o(x) == OffsetOf(f, x)
           n(x) == Contexts(f.scans[x])
<1>1. L \in Nat /\ DOMAIN f.scans = 1 .. L
  BY FrameShape
<1>2. /\ \A x \in 1 .. L + 1 : o(x) \in Nat
      /\ \A x \in 1 .. L : o(x + 1) = o(x) + n(x)
      /\ \A x, y \in 1 .. L + 1 : x <= y => o(x) <= o(y)
  BY Offsets, Zenon
<1>3. \A x \in 1 .. L : n(x) \in Nat
  BY <1>1, ContextsOfScan
<1>4. i \in 1 .. L /\ k \in 1 .. L /\ j \in 1 .. n(i) /\ l \in 1 .. n(k) /\ o(i) + j - 1 = o(k) + l - 1
  BY <1>1
<1> HIDE DEF L, o, n
<1>5. ASSUME NEW x \in 1 .. L, NEW y \in 1 .. L, x < y, NEW a \in 1 .. n(x), NEW b \in 1 .. n(y)
      PROVE  o(x) + a - 1 # o(y) + b - 1
  <2>1. x + 1 \in 1 .. L + 1 /\ y \in 1 .. L + 1 /\ x + 1 <= y /\ x \in 1 .. L + 1
    BY <1>1, <1>5
  <2>2. o(x + 1) <= o(y) /\ o(x + 1) = o(x) + n(x) /\ o(x) \in Nat /\ o(y) \in Nat
        /\ n(x) \in Nat /\ n(y) \in Nat
    BY <1>2, <1>3, <2>1
  <2> QED BY <2>2
<1>6. i = k
  <2>1. ~(i < k)
    BY <1>4, <1>5
  <2>2. ~(k < i)
    BY <1>4, <1>5
  <2> QED BY <1>1, <1>4, <2>1, <2>2
<1>7. o(i) \in Nat /\ n(i) \in Nat
  BY <1>1, <1>2, <1>3, <1>4
<1> QED BY <1>4, <1>6, <1>7

\* The slots in the order in which the components of f use them, and the contexts that use
\* a slot.
UsesOf(f) ==
  [k \in 1 .. 2 * Len(f.comps) |->
     LET comp == f.comps[(k + 1) \div 2] IN IF k % 2 = 1 THEN comp.dc ELSE 16 + comp.ac]
UsersOf(f, slot) ==
  IF slot < 16 THEN {c - 1 : c \in {x \in DOMAIN f.comps : f.comps[x].dc = slot}}
  ELSE UNION {{OffsetOf(f, i) + j - 1 :
                 j \in {x \in 1 .. Contexts(f.scans[i]) :
                          16 + f.comps[f.scans[i].comps[x]].ac = slot}} : i \in DOMAIN f.scans}

LEMMA SlotsUsed ==
  ASSUME NEW f, IsFrame(f)
  PROVE  /\ 2 * Len(f.comps) \in Nat
         /\ \A k \in 1 .. 2 * Len(f.comps) : UsesOf(f)[k] \in 0 .. 19
         /\ \A c \in DOMAIN f.comps :
              /\ \E k \in 1 .. 2 * Len(f.comps) : UsesOf(f)[k] = f.comps[c].dc
              /\ \E k \in 1 .. 2 * Len(f.comps) : UsesOf(f)[k] = 16 + f.comps[c].ac
<1> DEFINE n == Len(f.comps)
           d(c) == f.comps[c].dc
           a(c) == f.comps[c].ac
<1>1. n \in 1 .. 4 /\ DOMAIN f.comps = 1 .. n
  BY FrameShape
<1>2. \A c \in 1 .. n : d(c) \in 0 .. 3 /\ a(c) \in 0 .. 3
  BY FrameShape
<1>3. \A k \in 1 .. 2 * n :
        UsesOf(f)[k] = IF k % 2 = 1 THEN d((k + 1) \div 2) ELSE 16 + a((k + 1) \div 2)
  BY Zenon DEF UsesOf
<1> HIDE DEF n, d, a
<1>4. \A k \in 1 .. 2 * n : (k + 1) \div 2 \in 1 .. n
  BY <1>1
<1>5. \A k \in 1 .. 2 * n : UsesOf(f)[k] \in 0 .. 19
  BY <1>2, <1>3, <1>4
<1>6. ASSUME NEW c \in 1 .. n
      PROVE  /\ 2 * c - 1 \in 1 .. 2 * n /\ (2 * c - 1) % 2 = 1 /\ ((2 * c - 1) + 1) \div 2 = c
             /\ 2 * c \in 1 .. 2 * n /\ (2 * c) % 2 # 1 /\ ((2 * c) + 1) \div 2 = c
  BY <1>1
<1>7. ASSUME NEW c \in 1 .. n
      PROVE  UsesOf(f)[2 * c - 1] = d(c) /\ UsesOf(f)[2 * c] = 16 + a(c)
  <2>1. UsesOf(f)[2 * c - 1] = d(c)
    BY <1>3, <1>6
  <2>2. UsesOf(f)[2 * c] = 16 + a(c)
    BY <1>3, <1>6
  <2> QED BY <2>1, <2>2
<1>8. 2 * n \in Nat
  BY <1>1
<1> QED BY <1>1, <1>5, <1>6, <1>7, <1>8 DEF n, d, a

\* A table has the contexts that use its slot, so tables of different slots share none.
LEMMA UsersShape ==
  ASSUME NEW f, IsFrame(f)
  PROVE  /\ \A s \in 0 .. 19 : UsersOf(f, s) \in SUBSET Nat
         /\ \A s \in 0 .. 19 : \A k \in UsersOf(f, s) : k < 4 => s < 16
         /\ \A s, t \in 0 .. 19 : s # t => UsersOf(f, s) \cap UsersOf(f, t) = {}
         /\ \A c \in DOMAIN f.comps : c - 1 \in UsersOf(f, f.comps[c].dc)
         /\ \A i \in DOMAIN f.scans : \A j \in 1 .. Contexts(f.scans[i]) :
              OffsetOf(f, i) + j - 1 \in UsersOf(f, 16 + f.comps[f.scans[i].comps[j]].ac)
<1> DEFINE n == Len(f.comps)
           L == Len(f.scans)
           slot(i, j) == 16 + f.comps[f.scans[i].comps[j]].ac
           d(c) == f.comps[c].dc
           of_dc(s) == {c - 1 : c \in {x \in DOMAIN f.comps : f.comps[x].dc = s}}
           of_ac(s) == UNION {{OffsetOf(f, i) + j - 1 :
                                 j \in {x \in 1 .. Contexts(f.scans[i]) : slot(i, x) = s}} :
                               i \in DOMAIN f.scans}
<1>1. n \in 1 .. 4 /\ DOMAIN f.comps = 1 .. n /\ L \in Nat /\ DOMAIN f.scans = 1 .. L
      /\ \A c \in 1 .. n : d(c) \in 0 .. 3
  BY FrameShape
<1>2. \A s : UsersOf(f, s) = IF s < 16 THEN of_dc(s) ELSE of_ac(s)
  BY Zenon DEF UsersOf
<1>3. \A i \in 1 .. L : OffsetOf(f, i) \in Nat /\ OffsetOf(f, i) >= 4
  BY <1>1, Offsets
<1>4. \A i \in 1 .. L : Contexts(f.scans[i]) \in Nat
  BY <1>1, ContextsOfScan
<1>5. ASSUME NEW i \in 1 .. L, NEW j \in 1 .. Contexts(f.scans[i])
      PROVE  OffsetOf(f, i) + j - 1 \in Nat /\ OffsetOf(f, i) + j - 1 >= 4
  BY <1>3, <1>4
<1>6. \A s : of_dc(s) = {c - 1 : c \in {x \in 1 .. n : d(x) = s}}
  BY <1>1, Zenon
<1>7. \A s : \A k \in of_ac(s) : \E i \in 1 .. L : \E j \in 1 .. Contexts(f.scans[i]) :
        k = OffsetOf(f, i) + j - 1 /\ slot(i, j) = s
  BY <1>1, Zenon
<1>8. \A s : of_dc(s) \in SUBSET Nat /\ \A k \in of_dc(s) : k < 4
  <2> HIDE DEF n, d, of_dc
  <2> QED BY <1>1, <1>6
<1>9. \A s : of_ac(s) \in SUBSET Nat /\ \A k \in of_ac(s) : k >= 4
  <2> HIDE DEF L, of_ac, slot
  <2> QED BY <1>5, <1>7
<1>10. \A s, t : s # t => of_dc(s) \cap of_dc(t) = {}
  <2> HIDE DEF n, d, of_dc
  <2> SUFFICES ASSUME NEW s, NEW t, NEW k \in of_dc(s), k \in of_dc(t) PROVE s = t
    OBVIOUS
  <2>1. PICK x \in 1 .. n : d(x) = s /\ k = x - 1
    BY <1>6
  <2>2. PICK y \in 1 .. n : d(y) = t /\ k = y - 1
    BY <1>6
  <2>3. x = y
    BY <1>1, <2>1, <2>2
  <2> QED BY <2>1, <2>2, <2>3
<1>11. \A s, t : s # t => of_ac(s) \cap of_ac(t) = {}
  <2> HIDE DEF of_ac, slot
  <2> SUFFICES ASSUME NEW s, NEW t, NEW k \in of_ac(s), k \in of_ac(t) PROVE s = t
    OBVIOUS
  <2>1. PICK i \in 1 .. L : \E j \in 1 .. Contexts(f.scans[i]) :
          k = OffsetOf(f, i) + j - 1 /\ slot(i, j) = s
    BY <1>7, Zenon
  <2>2. PICK j \in 1 .. Contexts(f.scans[i]) : k = OffsetOf(f, i) + j - 1 /\ slot(i, j) = s
    BY <2>1
  <2>3. PICK u \in 1 .. L : \E l \in 1 .. Contexts(f.scans[u]) :
          k = OffsetOf(f, u) + l - 1 /\ slot(u, l) = t
    BY <1>7, Zenon
  <2>4. PICK l \in 1 .. Contexts(f.scans[u]) : k = OffsetOf(f, u) + l - 1 /\ slot(u, l) = t
    BY <2>3
  <2>5. i = u /\ j = l
    BY <1>1, <2>2, <2>4, OneOwner
  <2> QED BY <2>2, <2>4, <2>5
<1>12. \A c \in 1 .. n : c - 1 \in UsersOf(f, d(c))
  <2> HIDE DEF n, d, of_dc
  <2> SUFFICES ASSUME NEW c \in 1 .. n PROVE c - 1 \in UsersOf(f, d(c))
    OBVIOUS
  <2>1. c - 1 \in of_dc(d(c))
    BY <1>6, Zenon
  <2>2. d(c) < 16
    BY <1>1
  <2> QED BY <1>2, <2>1, <2>2, Zenon
<1>13. ASSUME NEW i \in 1 .. L, NEW j \in 1 .. Contexts(f.scans[i])
       PROVE  OffsetOf(f, i) + j - 1 \in UsersOf(f, slot(i, j))
  <2>1. OffsetOf(f, i) + j - 1 \in of_ac(slot(i, j))
    <3> DEFINE s == slot(i, j)
               k == OffsetOf(f, i) + j - 1
    <3>1. slot(i, j) = s /\ k = OffsetOf(f, i) + j - 1
      OBVIOUS
    <3> HIDE DEF slot, s, k
    <3>2. k \in {OffsetOf(f, i) + y - 1 : y \in {x \in 1 .. Contexts(f.scans[i]) : slot(i, x) = s}}
      BY <3>1, Zenon
    <3>3. i \in DOMAIN f.scans
      BY <1>1
    <3>4. k \in of_ac(s)
      BY <3>2, <3>3, Zenon
    <3> QED BY <3>4 DEF s, k
  <2>2. ~(slot(i, j) < 16)
    <3> DEFINE c == f.scans[i].comps[j]
               a == f.comps[c].ac
    <3>1. Contexts(f.scans[i]) = 0 \/ Contexts(f.scans[i]) = Len(f.scans[i].comps)
      BY DEF Contexts
    <3>2. j \in DOMAIN f.scans[i].comps
      BY <1>1, <3>1, ScanShape
    <3>3. c \in DOMAIN f.comps
      BY <1>1, <3>2, ScanShape
    <3>4. a \in 0 .. 3
      <4> HIDE DEF c
      <4>1. f.comps[c] \in [dc : 0 .. 3, ac : 0 .. 3]
        BY <3>3, FrameShape
      <4> QED BY <4>1
    <3> HIDE DEF a
    <3>5. ~(16 + a < 16)
      BY <3>4
    <3> QED BY <3>5 DEF a
  <2> QED BY <1>2, <2>1, <2>2, Zenon
<1> HIDE DEF n, L, slot, d, of_dc, of_ac
<1>14. \A s \in 0 .. 19 : UsersOf(f, s) \in SUBSET Nat
  BY <1>2, <1>8, <1>9, Zenon
<1>15. \A s \in 0 .. 19 : \A k \in UsersOf(f, s) : k < 4 => s < 16
  <2> SUFFICES ASSUME NEW s \in 0 .. 19, NEW k \in UsersOf(f, s), k < 4, ~(s < 16) PROVE FALSE
    OBVIOUS
  <2>1. k \in of_ac(s)
    BY <1>2, Zenon
  <2>2. k \in Nat /\ k >= 4
    BY <1>9, <2>1
  <2> QED BY <2>2
<1>16. \A s, t : \A k \in of_dc(s) : k \notin of_ac(t)
  <2> SUFFICES ASSUME NEW s, NEW t, NEW k \in of_dc(s), k \in of_ac(t) PROVE FALSE
    OBVIOUS
  <2>1. k \in Nat /\ k < 4 /\ k >= 4
    BY <1>8, <1>9
  <2> QED BY <2>1
<1>17. \A s, t \in 0 .. 19 : s # t => UsersOf(f, s) \cap UsersOf(f, t) = {}
  <2> SUFFICES ASSUME NEW s \in 0 .. 19, NEW t \in 0 .. 19, s # t,
                      NEW k \in UsersOf(f, s), k \in UsersOf(f, t)
               PROVE  FALSE
    OBVIOUS
  <2>1. CASE s < 16 /\ t < 16
    <3>1. UsersOf(f, s) = of_dc(s) /\ UsersOf(f, t) = of_dc(t)
      BY <1>2, <2>1
    <3>2. k \in of_dc(s) \cap of_dc(t)
      BY <3>1
    <3> QED BY <1>10, <3>2
  <2>2. CASE ~(s < 16) /\ ~(t < 16)
    <3>1. UsersOf(f, s) = of_ac(s) /\ UsersOf(f, t) = of_ac(t)
      BY <1>2, <2>2
    <3>2. k \in of_ac(s) \cap of_ac(t)
      BY <3>1
    <3> QED BY <1>11, <3>2
  <2>3. CASE s < 16 /\ ~(t < 16)
    BY <1>2, <1>16, <2>3, Zenon
  <2>4. CASE ~(s < 16) /\ t < 16
    BY <1>2, <1>16, <2>4, Zenon
  <2> QED BY <2>1, <2>2, <2>3, <2>4, Zenon
<1>18. \A c \in DOMAIN f.comps : c - 1 \in UsersOf(f, f.comps[c].dc)
  BY <1>1, <1>12, Zenon DEF d
<1>19. \A i \in DOMAIN f.scans : \A j \in 1 .. Contexts(f.scans[i]) :
         OffsetOf(f, i) + j - 1 \in UsersOf(f, 16 + f.comps[f.scans[i].comps[j]].ac)
  BY <1>1, <1>13, Zenon DEF slot
<1> QED BY <1>14, <1>15, <1>17, <1>18, <1>19

\* Slots, each once, with those of every component among them.
EachOnce(f, slots, N) ==
  /\ N \in Nat /\ DOMAIN slots = 1 .. N
  /\ \A i \in 1 .. N : slots[i] \in 0 .. 19
  /\ \A i, j \in 1 .. N : i # j => slots[i] # slots[j]
  /\ \A c \in DOMAIN f.comps :
       (\E i \in 1 .. N : slots[i] = f.comps[c].dc) /\ \E i \in 1 .. N : slots[i] = 16 + f.comps[c].ac

LEMMA SlotsOnce ==
  ASSUME NEW f, IsFrame(f), NEW u, u = UsesOf(f), NEW m, m = 2 * Len(f.comps),
         NEW N, N = Cardinality(FirstUses(u, m))
  PROVE  EachOnce(f, [i \in 1 .. N |-> u[NthUse(u, m, i)]], N)
<1>1. m \in Nat /\ (\A k \in 1 .. m : u[k] \in 0 .. 19)
      /\ \A c \in DOMAIN f.comps :
              /\ \E k \in 1 .. m : u[k] = f.comps[c].dc
              /\ \E k \in 1 .. m : u[k] = 16 + f.comps[c].ac
  BY SlotsUsed, Zenon
<1> DEFINE at(i) == NthUse(u, m, i)
           once == [i \in 1 .. N |-> u[at(i)]]
<1>2. /\ N \in Nat
      /\ \A i \in 1 .. N : at(i) \in 1 .. m
      /\ \A i, j \in 1 .. N : i # j => u[at(i)] # u[at(j)]
      /\ \A k \in 1 .. m : \E i \in 1 .. N : u[at(i)] = u[k]
  <2>1. m \in Nat
    BY <1>1
  <2>2. Enumerates(N, u, m)
    BY <2>1, OnceEach
  <2> QED BY <2>2, Zenon DEF Enumerates
<1>3. DOMAIN once = 1 .. N /\ \A i \in 1 .. N : once[i] = u[at(i)]
  OBVIOUS
<1> HIDE DEF at, once
<1>4. ASSUME NEW i \in 1 .. N PROVE once[i] \in 0 .. 19
  <2>1. at(i) \in 1 .. m
    BY <1>2
  <2>2. u[at(i)] \in 0 .. 19
    BY <1>1, <2>1
  <2> QED BY <1>3, <2>2
<1>5. ASSUME NEW i \in 1 .. N, NEW j \in 1 .. N, i # j
      PROVE  once[i] # once[j]
  <2>1. u[at(i)] # u[at(j)]
    BY <1>2, <1>5
  <2>2. once[i] = u[at(i)] /\ once[j] = u[at(j)]
    BY <1>3
  <2> QED BY <2>1, <2>2
<1>6. ASSUME NEW k \in 1 .. m PROVE \E i \in 1 .. N : once[i] = u[k]
  <2>1. PICK i \in 1 .. N : u[at(i)] = u[k]
    BY <1>2
  <2>2. once[i] = u[at(i)]
    BY <1>3
  <2> QED BY <2>1, <2>2
<1>7. ASSUME NEW c \in DOMAIN f.comps
      PROVE  (\E i \in 1 .. N : once[i] = f.comps[c].dc) /\ \E i \in 1 .. N : once[i] = 16 + f.comps[c].ac
  <2>1. PICK k \in 1 .. m : u[k] = f.comps[c].dc
    BY <1>1
  <2>2. PICK l \in 1 .. m : u[l] = 16 + f.comps[c].ac
    BY <1>1
  <2>3. PICK i \in 1 .. N : once[i] = u[k]
    BY <1>6
  <2>4. PICK j \in 1 .. N : once[j] = u[l]
    BY <1>6
  <2> QED BY <2>1, <2>2, <2>3, <2>4
<1>8. EachOnce(f, once, N)
  BY <1>2, <1>3, <1>4, <1>5, <1>7 DEF EachOnce
<1> QED BY <1>8 DEF once, at

LEMMA CopiedTables ==
  ASSUME NEW f, IsFrame(f), ~f.progressive, NEW N, NEW once, EachOnce(f, once, N)
  PROVE  TablesOf(f, [i \in DOMAIN once |-> [slot |-> once[i], contexts |-> UsersOf(f, once[i])]])
<1> DEFINE T == [slot : 0 .. 19, contexts : SUBSET Nat]
           ts == [i \in DOMAIN once |-> [slot |-> once[i], contexts |-> UsersOf(f, once[i])]]
           n == Len(f.comps)
           all == (0 .. n - 1) \cup (4 .. NumContexts(f) - 1)
<1>2. N \in Nat
  BY DEF EachOnce
<1>3. DOMAIN once = 1 .. N
  BY DEF EachOnce
<1>4. \A i \in 1 .. N : once[i] \in 0 .. 19
  BY DEF EachOnce
<1>5. \A i, j \in 1 .. N : i # j => once[i] # once[j]
  BY DEF EachOnce
<1>6. \A c \in DOMAIN f.comps :
        (\E i \in 1 .. N : once[i] = f.comps[c].dc) /\ \E i \in 1 .. N : once[i] = 16 + f.comps[c].ac
  BY DEF EachOnce
<1>7. /\ \A s \in 0 .. 19 : UsersOf(f, s) \in SUBSET Nat
      /\ \A s \in 0 .. 19 : \A k \in UsersOf(f, s) : k < 4 => s < 16
      /\ \A s, t \in 0 .. 19 : s # t => UsersOf(f, s) \cap UsersOf(f, t) = {}
      /\ \A c \in DOMAIN f.comps : c - 1 \in UsersOf(f, f.comps[c].dc)
      /\ \A i \in DOMAIN f.scans : \A j \in 1 .. Contexts(f.scans[i]) :
           OffsetOf(f, i) + j - 1 \in UsersOf(f, 16 + f.comps[f.scans[i].comps[j]].ac)
  BY UsersShape, Zenon
<1>8. n \in 1 .. 4 /\ DOMAIN f.comps = 1 .. n
  BY FrameShape
<1>9. DOMAIN ts = 1 .. N /\ \A i \in 1 .. N : ts[i].slot = once[i] /\ ts[i].contexts = UsersOf(f, once[i])
  BY <1>3
<1>10. ts \in Seq(T) /\ Len(ts) = N
  <2>1. \A i \in 1 .. N : [slot |-> once[i], contexts |-> UsersOf(f, once[i])] \in T
    <3> SUFFICES ASSUME NEW i \in 1 .. N
                 PROVE  [slot |-> once[i], contexts |-> UsersOf(f, once[i])] \in T
      OBVIOUS
    <3> DEFINE x == UsersOf(f, once[i])
               y == once[i]
    <3>1. y \in 0 .. 19 /\ x \in SUBSET Nat
      BY <1>4, <1>7, Zenon
    <3> HIDE DEF x, y
    <3>2. [slot |-> y, contexts |-> x] \in T
      BY <3>1
    <3> QED BY <3>2 DEF x, y
  <2>2. ts \in [1 .. N -> T]
    <3> HIDE DEF T
    <3> QED BY <1>3, <2>1, Zenon
  <2> HIDE DEF T, ts
  <2> QED BY <1>2, <2>2
<1> HIDE DEF ts, T
<1>11. \A t, v \in DOMAIN ts : t # v => ts[t].slot # ts[v].slot
  BY <1>5, <1>9, Zenon
<1>12. FirstOf(ts) = Len(ts)
  BY <1>10, <1>11, FirstOfSingle, Zenon DEF T
<1>13. N >= 1
  <2> HIDE DEF n
  <2>1. 1 \in DOMAIN f.comps
    BY <1>8
  <2>2. \E i \in 1 .. N : TRUE
    BY <1>6, <2>1, Zenon
  <2> QED BY <1>2, <2>2
<1>14. ts # <<>> /\ FirstOf(ts) \in 1 .. Len(ts)
  BY <1>2, <1>10, <1>12, <1>13
<1>15. \A i \in 1 .. N : \A k \in UsersOf(f, once[i]) : \E t \in DOMAIN ts : k \in ts[t].contexts
  BY <1>9, Zenon
<1>16. \A k \in all : \E t \in DOMAIN ts : k \in ts[t].contexts
  <2>1. ASSUME NEW k \in 0 .. n - 1
        PROVE  \E t \in DOMAIN ts : k \in ts[t].contexts
    <3>1. k + 1 \in DOMAIN f.comps /\ (k + 1) - 1 = k
      BY <1>8
    <3> DEFINE c == k + 1
    <3>2. c \in DOMAIN f.comps /\ c - 1 = k
      BY <3>1
    <3> HIDE DEF c
    <3>3. k \in UsersOf(f, f.comps[c].dc)
      BY <1>7, <3>2, Zenon
    <3>4. PICK i \in 1 .. N : once[i] = f.comps[c].dc
      BY <1>6, <3>2
    <3>5. k \in UsersOf(f, once[i])
      BY <3>3, <3>4
    <3> QED BY <1>15, <3>5, Zenon
  <2>2. ASSUME NEW k \in 4 .. NumContexts(f) - 1
        PROVE  \E t \in DOMAIN ts : k \in ts[t].contexts
    <3>1. PICK i \in DOMAIN f.scans :
            \E j \in 1 .. Contexts(f.scans[i]) : k = OffsetOf(f, i) + j - 1
      BY ContextOwner, Zenon
    <3>2. PICK j \in 1 .. Contexts(f.scans[i]) : k = OffsetOf(f, i) + j - 1
      BY <3>1
    <3> DEFINE c == f.scans[i].comps[j]
    <3>3. c \in DOMAIN f.comps
      <4>1. Contexts(f.scans[i]) = 0 \/ Contexts(f.scans[i]) = Len(f.scans[i].comps)
        BY DEF Contexts
      <4>2. j \in DOMAIN f.scans[i].comps
        BY <4>1, ScanShape
      <4> QED BY <1>8, <4>2, ScanShape
    <3>4. k \in UsersOf(f, 16 + f.comps[c].ac)
      BY <1>7, <3>2, Zenon
    <3> HIDE DEF c
    <3>5. PICK x \in 1 .. N : once[x] = 16 + f.comps[c].ac
      BY <1>6, <3>3
    <3>6. k \in UsersOf(f, once[x])
      BY <3>4, <3>5
    <3> QED BY <1>15, <3>6, Zenon
  <2> HIDE DEF n
  <2> QED BY <2>1, <2>2
<1>17. ASSUME NEW t \in DOMAIN ts, NEW v \in DOMAIN ts, t # v
       PROVE  ts[t].contexts \cap ts[v].contexts = {}
  <2> DEFINE x == once[t]
             y == once[v]
  <2>1. t \in 1 .. N /\ v \in 1 .. N
    BY <1>9
  <2>2. ts[t].contexts = UsersOf(f, x) /\ ts[v].contexts = UsersOf(f, y)
    BY <1>9, <2>1
  <2>3. x \in 0 .. 19 /\ y \in 0 .. 19 /\ x # y
    BY <1>4, <1>5, <1>17, <2>1
  <2> HIDE DEF x, y
  <2> QED BY <1>7, <2>2, <2>3, Zenon
<1>18. \A t \in DOMAIN ts : t \in Nat /\ t <= FirstOf(ts) /\ ~(t > FirstOf(ts))
  BY <1>2, <1>9, <1>10, <1>12
<1>19. \A t, v \in DOMAIN ts : t < v => t # v
  BY <1>2, <1>9
<1>20. ASSUME NEW t \in DOMAIN ts, \E k \in ts[t].contexts : k < 4
       PROVE  ts[t].slot < 16
  <2> DEFINE x == once[t]
  <2>1. t \in 1 .. N /\ ts[t].contexts = UsersOf(f, x) /\ ts[t].slot = x
    BY <1>9
  <2>2. x \in 0 .. 19
    BY <1>4, <2>1
  <2> HIDE DEF x
  <2> QED BY <1>7, <1>20, <2>1, <2>2, Zenon
<1>21. AreTables(ts, all, f.progressive)
  <2>1. \A t, v \in DOMAIN ts : ~(FirstOf(ts) < t /\ t < v)
    BY <1>2, <1>9, <1>18, <1>10, <1>12
  <2>2. ts \in Seq([slot : 0 .. 19, contexts : SUBSET Nat])
    BY <1>10 DEF T
  <2>3. /\ \A t, v \in DOMAIN ts : t < v => ts[t].contexts \cap ts[v].contexts = {}
        /\ \A t, v \in DOMAIN ts : ~(t < v /\ ts[t].slot = ts[v].slot)
    BY <1>11, <1>17, <1>19, Zenon
  <2> HIDE DEF all
  <2> QED BY <1>12, <1>14, <1>16, <1>18, <1>20, <2>1, <2>2, <2>3, Zenon DEF AreTables
<1> QED BY <1>21 DEF TablesOf, ts

\* The scans of a sequential frame share no component, so there are at most four contexts.
LEMMA SequentialContexts ==
  ASSUME NEW f, IsFrame(f)
  PROVE  NumContexts(f) \in Nat /\ NumContexts(f) >= 4 /\ (~f.progressive => NumContexts(f) - 4 <= 4)
<1> DEFINE L == Len(f.scans)
           S == ACContexts(f, L + 1)
           n == Len(f.comps)
           component(p) == f.scans[p[1]].comps[p[2]]
           g == [p \in S |-> component(p)]
<1>1. L \in Nat /\ DOMAIN f.scans = 1 .. L /\ n \in 1 .. 4
  BY FrameShape
<1>2. NumContexts(f) = 4 + Cardinality(S)
  BY Zenon DEF NumContexts, OffsetOf, ACContexts
<1>3. IsFiniteSet(S) /\ Cardinality(S) \in Nat
  <2>1. L + 1 \in 1 .. L + 1
    BY <1>1
  <2>2. IsFiniteSet(S)
    BY <2>1, ContextsAreFinite, Zenon
  <2> QED BY <2>2, FS_CardinalityType, Zenon
<1>4. ASSUME ~f.progressive PROVE Cardinality(S) <= 4
  <2>1. ASSUME NEW p \in S
        PROVE  \E i \in DOMAIN f.scans : \E j \in DOMAIN f.scans[i].comps : p = <<i, j>>
    <3>1. PICK i \in 1 .. (L + 1) - 1 : p \in {i} \X (1 .. Contexts(f.scans[i]))
      BY Zenon DEF ACContexts
    <3>2. i \in DOMAIN f.scans
      BY <1>1, <3>1
    <3>3. PICK j \in 1 .. Contexts(f.scans[i]) : p = <<i, j>>
      BY <3>1
    <3>4. Contexts(f.scans[i]) = 0 \/ Contexts(f.scans[i]) = Len(f.scans[i].comps)
      BY DEF Contexts
    <3>5. j \in DOMAIN f.scans[i].comps
      <4>1. DOMAIN f.scans[i].comps = 1 .. Len(f.scans[i].comps)
        BY <3>2, ScanShape
      <4> QED BY <3>4, <4>1
    <3> QED BY <3>2, <3>3, <3>5
  <2> HIDE DEF S
  <2>2. ASSUME NEW p \in S PROVE component(p) \in 1 .. n
    <3>1. PICK i \in DOMAIN f.scans : \E j \in DOMAIN f.scans[i].comps : p = <<i, j>>
      BY <2>1
    <3>2. PICK j \in DOMAIN f.scans[i].comps : p = <<i, j>>
      BY <3>1
    <3>3. f.scans[i].comps[j] \in 1 .. n
      BY <3>2, ScanShape
    <3> QED BY <3>2, <3>3
  <2>3. ASSUME NEW p \in S, NEW q \in S, component(p) = component(q) PROVE p = q
    <3>1. PICK i \in DOMAIN f.scans : \E j \in DOMAIN f.scans[i].comps : p = <<i, j>>
      BY <2>1
    <3>2. PICK j \in DOMAIN f.scans[i].comps : p = <<i, j>>
      BY <3>1
    <3>3. PICK k \in DOMAIN f.scans : \E l \in DOMAIN f.scans[k].comps : q = <<k, l>>
      BY <2>1
    <3>4. PICK l \in DOMAIN f.scans[k].comps : q = <<k, l>>
      BY <3>3
    <3>5. f.scans[i].comps[j] = f.scans[k].comps[l]
      BY <2>3, <3>2, <3>4
    <3>6. i = k
      <4> SUFFICES ASSUME i # k PROVE FALSE
        OBVIOUS
      <4>1. \A x, y \in DOMAIN f.scans :
              x # y => Range(f.scans[x].comps) \cap Range(f.scans[y].comps) = {}
        BY <1>4, Zenon DEF IsFrame
      <4>2. f.scans[i].comps[j] \in Range(f.scans[i].comps)
            /\ f.scans[k].comps[l] \in Range(f.scans[k].comps)
        BY DEF Range
      <4> QED BY <3>5, <4>1, <4>2
    <3>7. j = l
      <4> DEFINE scan == f.scans[i]
                 c == scan.comps
      <4>1. /\ DOMAIN c = 1 .. Len(c) /\ \A x \in DOMAIN c : c[x] \in 1 .. n
            /\ \A x \in DOMAIN c, y \in DOMAIN c : y < x => c[y] < c[x]
        BY ScanShape
      <4>2. j \in DOMAIN c /\ l \in DOMAIN c /\ c[j] = c[l]
        BY <3>5, <3>6
      <4> HIDE DEF c
      <4>3. ~(j < l) /\ ~(l < j)
        BY <4>1, <4>2
      <4> QED BY <4>1, <4>2, <4>3
    <3> QED BY <3>2, <3>4, <3>6, <3>7
  <2>4. g \in Injection(S, 1 .. n)
    <3> HIDE DEF component
    <3> QED BY <2>2, <2>3 DEF Injection, IsInjective
  <2> HIDE DEF g, n
  <2>5. 1 \in Int /\ n \in Int /\ ~(1 > n)
    BY <1>1
  <2>6. IsFiniteSet(1 .. n) /\ Cardinality(1 .. n) = n - 1 + 1
    BY <2>5, FS_Interval, Zenon
  <2>7. Cardinality(S) <= Cardinality(1 .. n)
    BY <2>4, <2>6, FS_Injection, Zenon
  <2>8. n - 1 + 1 <= 4
    BY <1>1
  <2> QED BY <1>1, <1>3, <2>6, <2>7, <2>8
<1> HIDE DEF S
<1> QED BY <1>2, <1>3, <1>4

-----------------------------------------------------------------------------
(* Scan headers.                                                           *)

LEMMA OneTable ==
  ASSUME NEW ts, NEW all, NEW p, AreTables(ts, all, p), NEW k \in all
  PROVE  /\ TableIn(ts, k) \in DOMAIN ts /\ k \in ts[TableIn(ts, k)].contexts
         /\ \A t \in DOMAIN ts : k \in ts[t].contexts => t = TableIn(ts, k)
<1>1. /\ \E t \in DOMAIN ts : k \in ts[t].contexts
      /\ \A t, u \in DOMAIN ts : t < u => ts[t].contexts \cap ts[u].contexts = {}
  BY Zenon DEF AreTables
<1>2. TableIn(ts, k) \in DOMAIN ts /\ k \in ts[TableIn(ts, k)].contexts
  BY <1>1, Zenon DEF TableIn
<1>3. DOMAIN ts \subseteq Nat
  <2> DEFINE T == [slot : 0 .. 19, contexts : SUBSET Nat]
  <2>1. ts \in Seq(T)
    BY Zenon DEF AreTables
  <2> HIDE DEF T
  <2> QED BY <2>1
<1>4. ASSUME NEW t \in DOMAIN ts, k \in ts[t].contexts
      PROVE  t = TableIn(ts, k)
  <2> DEFINE u == TableIn(ts, k)
  <2>1. u \in DOMAIN ts /\ k \in ts[u].contexts
    BY <1>2
  <2> HIDE DEF u
  <2>2. ~(t < u) /\ ~(u < t)
    BY <1>1, <1>4, <2>1, Zenon
  <2>3. t \in Nat /\ u \in Nat
    BY <1>3, <2>1
  <2> QED BY <2>2, <2>3 DEF u
<1> QED BY <1>2, <1>4

\* The contexts of scan i.
LEMMA ContextsOfHeader ==
  ASSUME NEW f, IsFrame(f), NEW i \in 1 .. Len(f.scans)
  PROVE  LET scan == f.scans[i]
         IN  /\ OffsetOf(f, i) \in Nat /\ OffsetOf(f, i) >= 4
             /\ OffsetOf(f, i + 1) \in Nat /\ OffsetOf(f, i) <= OffsetOf(f, i + 1)
             /\ OffsetOf(f, i + 1) <= NumContexts(f)
             /\ scan.Ss \in Nat /\ scan.Se \in Nat
             /\ f.progressive /\ scan.Ss = 0 => scan.Se = 0 /\ OffsetOf(f, i + 1) = OffsetOf(f, i)
             /\ f.progressive /\ scan.Ss > 0 => OffsetOf(f, i + 1) = OffsetOf(f, i) + 1
             /\ ~f.progressive => scan.Ss = 0
             /\ scan.Se > 0 => \A j \in DOMAIN scan.comps :
                  j \in Nat /\ j >= 1 /\ OffsetOf(f, i) + j - 1 \in 4 .. NumContexts(f) - 1
                  /\ OffsetOf(f, i) + j - 1 < OffsetOf(f, i + 1)
             /\ \A j \in DOMAIN scan.comps : scan.comps[j] - 1 \in 0 .. Len(f.comps) - 1
<1> DEFINE scan == f.scans[i]
           b == OffsetOf(f, i)
           c == OffsetOf(f, i + 1)
           m == Len(scan.comps)
           n == Len(f.comps)
<1>1. Len(f.scans) \in Nat /\ DOMAIN f.scans = 1 .. Len(f.scans) /\ n \in 1 .. 4
  BY FrameShape
<1>2. /\ scan.Ss \in 0 .. 63 /\ scan.Se \in 0 .. 63 /\ scan.Ss <= scan.Se
      /\ DOMAIN scan.comps = 1 .. m /\ m \in 1 .. n
      /\ \A j \in DOMAIN scan.comps : scan.comps[j] \in 1 .. n
      /\ IF f.progressive THEN scan.Ss = 0 => scan.Se = 0 ELSE scan.Ss = 0 /\ scan.Se = 63
      /\ scan.Ss > 0 => m = 1
  BY <1>1, ScanShape
<1>3. /\ \A x \in 1 .. Len(f.scans) + 1 : OffsetOf(f, x) \in Nat /\ OffsetOf(f, x) >= 4
      /\ c = b + Contexts(scan)
      /\ \A x, y \in 1 .. Len(f.scans) + 1 : x <= y => OffsetOf(f, x) <= OffsetOf(f, y)
  BY Offsets, Zenon
<1>4. Contexts(scan) = IF scan.Se > 0 THEN m ELSE 0
  BY DEF Contexts
<1>5. i \in 1 .. Len(f.scans) + 1 /\ i + 1 \in 1 .. Len(f.scans) + 1 /\ i + 1 <= Len(f.scans) + 1
      /\ Len(f.scans) + 1 \in 1 .. Len(f.scans) + 1
  BY <1>1
<1>6. b \in Nat /\ b >= 4 /\ c \in Nat /\ NumContexts(f) \in Nat /\ c <= NumContexts(f)
  BY <1>3, <1>5, Zenon DEF NumContexts
<1> HIDE DEF scan, b, c, m, n
<1>7. m \in Nat /\ m >= 1 /\ n \in Nat
  BY <1>1, <1>2
<1>8. scan.Ss \in Nat /\ scan.Se \in Nat /\ scan.Ss <= scan.Se /\ (scan.Ss > 0 => m = 1)
  <2>1. 0 .. 63 \subseteq Nat
    OBVIOUS
  <2> QED BY <1>2, <2>1, Zenon
<1>9. c = b + (IF scan.Se > 0 THEN m ELSE 0)
  BY <1>3, <1>4, Zenon
<1>10. b <= c /\ scan.Ss \in Nat /\ scan.Se \in Nat
  BY <1>6, <1>7, <1>8, <1>9
<1>11. f.progressive /\ scan.Ss = 0 => scan.Se = 0 /\ c = b
  BY <1>2, <1>3, <1>4, <1>6, <1>7
<1>12. f.progressive /\ scan.Ss > 0 => c = b + 1
  BY <1>6, <1>7, <1>8, <1>9
<1>13. ~f.progressive => scan.Ss = 0
  BY <1>2
<1>14. ASSUME scan.Se > 0, NEW j \in DOMAIN scan.comps
       PROVE  j \in Nat /\ j >= 1 /\ b + j - 1 \in 4 .. NumContexts(f) - 1 /\ b + j - 1 < c
  BY <1>2, <1>3, <1>4, <1>6, <1>7, <1>14
<1>15. \A j \in DOMAIN scan.comps : scan.comps[j] - 1 \in 0 .. n - 1
  BY <1>2, <1>7
<1> QED BY <1>6, <1>10, <1>11, <1>12, <1>13, <1>14, <1>15 DEF scan, b, c, n

\* What the decoder has after n more tables.
Received(ts, next, n, dec) ==
  [s \in 0 .. 19 |->
     LET sent == {i \in next .. next + n - 1 : ts[i].slot = s}
     IN  IF sent = {} THEN dec[s] ELSE Max(sent)]

LEMMA ReceivedShape ==
  ASSUME NEW ts, NEW next \in Nat, NEW n \in Nat, NEW dec \in [0 .. 19 -> Nat]
  PROVE  LET new == Received(ts, next, n, dec)
         IN  /\ new \in [0 .. 19 -> Nat]
             /\ \A s \in 0 .. 19 :
                  \/ new[s] = dec[s] /\ \A i \in next .. next + n - 1 : ts[i].slot # s
                  \/ /\ new[s] \in next .. next + n - 1 /\ ts[new[s]].slot = s
                     /\ \A i \in next .. next + n - 1 : ts[i].slot = s => i <= new[s]
<1> DEFINE new == Received(ts, next, n, dec)
           sent(s) == {i \in next .. next + n - 1 : ts[i].slot = s}
<1>1. DOMAIN new = 0 .. 19
      /\ \A s \in 0 .. 19 : new[s] = IF sent(s) = {} THEN dec[s] ELSE Max(sent(s))
  BY DEF Received
<1> HIDE DEF new
<1>2. ASSUME NEW s \in 0 .. 19
      PROVE  /\ new[s] \in Nat
             /\ \/ new[s] = dec[s] /\ \A i \in next .. next + n - 1 : ts[i].slot # s
                \/ /\ new[s] \in next .. next + n - 1 /\ ts[new[s]].slot = s
                   /\ \A i \in next .. next + n - 1 : ts[i].slot = s => i <= new[s]
  <2>1. CASE sent(s) = {}
    BY <1>1, <2>1
  <2>2. CASE sent(s) # {}
    <3>1. sent(s) \in SUBSET Nat /\ next + n \in Nat /\ \A x \in sent(s) : x <= next + n
      OBVIOUS
    <3>2. \A x \in sent(s) : x \in next .. next + n - 1 /\ ts[x].slot = s /\ x \in Nat
      OBVIOUS
    <3>3. \A i \in next .. next + n - 1 : ts[i].slot = s => i \in sent(s)
      OBVIOUS
    <3> HIDE DEF sent
    <3>4. Max(sent(s)) \in sent(s) /\ \A y \in sent(s) : y <= Max(sent(s))
      BY <2>2, <3>1, MaxOfBounded
    <3>5. new[s] = Max(sent(s))
      BY <1>1, <2>2
    <3> QED BY <3>2, <3>3, <3>4, <3>5
  <2> QED BY <2>1, <2>2
<1>3. \A s \in 0 .. 19 : new[s] \in Nat
  BY <1>2
<1>4. new \in [0 .. 19 -> Nat]
  <2>1. new = [s \in 0 .. 19 |-> new[s]]
    BY <1>1, Zenon DEF new, Received
  <2> QED BY <1>3, <2>1
<1> QED BY <1>2, <1>4 DEF new

\* num_dht
NumDht(f, ts, next, i) ==
  IF i = 1 THEN FirstOf(ts)
  ELSE IF f.scans[i].Ss > 0 /\ TableIn(ts, OffsetOf(f, i)) = next THEN 1 ELSE 0

LEMMA TablesShape ==
  ASSUME NEW f, NEW ts, TablesOf(f, ts)
  PROVE  /\ Len(ts) \in Nat /\ DOMAIN ts = 1 .. Len(ts) /\ ts # <<>> /\ FirstOf(ts) \in 1 .. Len(ts)
         /\ \A t \in DOMAIN ts : ts[t].slot \in 0 .. 19 /\ ts[t].contexts \in SUBSET Nat
         /\ \A t \in DOMAIN ts : \A k \in ts[t].contexts : k < 4 => t <= FirstOf(ts) /\ ts[t].slot < 16
         /\ \A t \in DOMAIN ts : t > FirstOf(ts) => ts[t].slot >= 16
         /\ \A t, u \in DOMAIN ts : t < u /\ ts[t].slot = ts[u].slot =>
              u > FirstOf(ts) /\ \A x \in ts[t].contexts : \A y \in ts[u].contexts : x < y
         /\ \A t, u \in DOMAIN ts : FirstOf(ts) < t /\ t < u =>
              \E x \in ts[t].contexts : \A y \in ts[u].contexts : x < y
         /\ ~f.progressive => FirstOf(ts) = Len(ts)
<1> DEFINE T == [slot : 0 .. 19, contexts : SUBSET Nat]
<1>1. ts \in Seq(T) /\ ts # <<>> /\ FirstOf(ts) \in 1 .. Len(ts)
  BY Zenon DEF TablesOf, AreTables
<1>2. \A t \in DOMAIN ts : ts[t].slot \in 0 .. 19 /\ ts[t].contexts \in SUBSET Nat
  <2> SUFFICES ASSUME NEW t \in DOMAIN ts PROVE ts[t].slot \in 0 .. 19 /\ ts[t].contexts \in SUBSET Nat
    OBVIOUS
  <2> HIDE DEF T
  <2>1. ts[t] \in T
    BY <1>1
  <2> QED BY <2>1 DEF T
<1>3. Len(ts) \in Nat /\ DOMAIN ts = 1 .. Len(ts)
  <2> HIDE DEF T
  <2> QED BY <1>1
<1>4. /\ \A t \in DOMAIN ts : (\E k \in ts[t].contexts : k < 4) => t <= FirstOf(ts) /\ ts[t].slot < 16
      /\ \A t \in DOMAIN ts : t > FirstOf(ts) => ts[t].slot >= 16
      /\ \A t, u \in DOMAIN ts :
           t < u /\ ts[t].slot = ts[u].slot
             => u > FirstOf(ts) /\ EndsBefore(ts[t].contexts, ts[u].contexts)
      /\ \A t, u \in DOMAIN ts :
           FirstOf(ts) < t /\ t < u => StartsBefore(ts[t].contexts, ts[u].contexts)
      /\ ~f.progressive => FirstOf(ts) = Len(ts)
  BY Zenon DEF TablesOf, AreTables
<1> QED BY <1>1, <1>2, <1>3, <1>4, Zenon DEF EndsBefore, StartsBefore

\* The tables that the header of scan i sends are the next ones, and all that the scan's
\* contexts need.
LEMMA HeaderTables ==
  ASSUME NEW f, IsFrame(f), NEW ts, TablesOf(f, ts), NEW i \in 1 .. Len(f.scans), NEW next, NEW dec,
         SentOf(f, ts, next, i, dec)
  PROVE  LET n == NumDht(f, ts, next, i)
         IN  /\ n \in Nat /\ next \in Nat /\ next >= 1 /\ next + n <= Len(ts) + 1
             /\ FirstOf(ts) < next + n
             /\ \A k \in 4 .. OffsetOf(f, i + 1) - 1 : \A t \in DOMAIN ts :
                  k \in ts[t].contexts => t < next + n
             /\ \A t \in DOMAIN ts : FirstOf(ts) < t /\ t < next + n =>
                  \E k \in ts[t].contexts : k < OffsetOf(f, i + 1)
<1> DEFINE n == NumDht(f, ts, next, i)
           F == FirstOf(ts)
           L == Len(ts)
           b == OffsetOf(f, i)
           c == OffsetOf(f, i + 1)
           scan == f.scans[i]
<1>1. /\ L \in Nat /\ DOMAIN ts = 1 .. L /\ F \in 1 .. L
      /\ \A t \in DOMAIN ts : ts[t].contexts \in SUBSET Nat
      /\ \A t \in DOMAIN ts : \A k \in ts[t].contexts : k < 4 => t <= F
      /\ \A t, u \in DOMAIN ts : F < t /\ t < u =>
           \E x \in ts[t].contexts : \A y \in ts[u].contexts : x < y
      /\ ~f.progressive => F = L
  BY TablesShape, Zenon
<1>2. /\ b \in Nat /\ b >= 4 /\ c \in Nat /\ b <= c /\ c <= NumContexts(f)
      /\ f.progressive /\ scan.Ss = 0 => scan.Se = 0 /\ c = b
      /\ f.progressive /\ scan.Ss > 0 => c = b + 1
      /\ ~f.progressive => scan.Ss = 0
      /\ scan.Ss \in Nat
  BY ContextsOfHeader, Zenon
<1>3. NumContexts(f) \in Nat
  BY SequentialContexts
<1>4. f.progressive \in BOOLEAN
  BY FrameShape
<1>5. next \in Nat /\ (i = 1 => next = 1)
      /\ (i # 1 =>
            /\ F < next /\ next <= L + 1
            /\ \A k \in 4 .. b - 1 : \A t \in DOMAIN ts : k \in ts[t].contexts => t < next
            /\ \A t \in DOMAIN ts : F < t /\ t < next => \E k \in ts[t].contexts : k < b)
  BY Zenon DEF SentOf
<1>6. n = IF i = 1 THEN F ELSE IF scan.Ss > 0 /\ TableIn(ts, b) = next THEN 1 ELSE 0
  BY DEF NumDht
<1>7. i = 1 => b = 4
  BY Offsets
<1>8. b < c => TableIn(ts, b) \in DOMAIN ts /\ b \in ts[TableIn(ts, b)].contexts
               /\ \A t \in DOMAIN ts : b \in ts[t].contexts => t = TableIn(ts, b)
  <2> SUFFICES ASSUME b < c
               PROVE  TableIn(ts, b) \in DOMAIN ts /\ b \in ts[TableIn(ts, b)].contexts
                      /\ \A t \in DOMAIN ts : b \in ts[t].contexts => t = TableIn(ts, b)
    OBVIOUS
  <2> HIDE DEF b, c
  <2> DEFINE all == (0 .. Len(f.comps) - 1) \cup (4 .. NumContexts(f) - 1)
  <2>1. b \in 4 .. NumContexts(f) - 1
    BY <1>2, <1>3
  <2>2. b \in all
    BY <2>1
  <2>3. AreTables(ts, all, f.progressive)
    BY DEF TablesOf
  <2> HIDE DEF all
  <2> QED BY <2>2, <2>3, OneTable
<1> HIDE DEF n, F, L, b, c, scan
<1>9. CASE i = 1
  <2>1. next = 1 /\ n = F /\ b = 4
    BY <1>5, <1>6, <1>7, <1>9
  <2>2. next + n <= L + 1 /\ F < next + n /\ n \in Nat /\ next >= 1
    BY <1>1, <2>1
  <2>3. ASSUME NEW k \in 4 .. c - 1, NEW t \in DOMAIN ts, k \in ts[t].contexts
        PROVE  t < next + n
    <3>1. CASE ~f.progressive
      BY <1>1, <2>1, <3>1
    <3>2. CASE f.progressive
      <4>1. scan.Ss = 0
        BY <1>9 DEF scan, IsFrame
      <4>2. c = b
        BY <1>2, <3>2, <4>1
      <4> QED BY <2>1, <4>2
    <3> QED BY <3>1, <3>2
  <2>4. \A t \in DOMAIN ts : ~(F < t /\ t < next + n)
    BY <1>1, <2>1
  <2> QED BY <1>5, <2>2, <2>3, <2>4 DEF n, F, L, c
<1>10. CASE i # 1
  <2>1. /\ F < next /\ next <= L + 1
        /\ \A k \in 4 .. b - 1 : \A t \in DOMAIN ts : k \in ts[t].contexts => t < next
        /\ \A t \in DOMAIN ts : F < t /\ t < next => \E k \in ts[t].contexts : k < b
    BY <1>5, <1>10
  <2>2. next \in Nat /\ next >= 1
    BY <1>1, <1>5, <2>1
  <2>3. \A k \in 4 .. c - 1 : k \in 4 .. b - 1 \/ (k \in b .. c - 1)
    BY <1>2
  <2>4. CASE scan.Ss > 0 /\ TableIn(ts, b) = next
    <3>1. n = 1 /\ f.progressive /\ c = b + 1
      BY <1>2, <1>4, <1>6, <1>10, <2>4
    <3>2. b < c /\ \A k \in b .. c - 1 : k = b
      BY <1>2, <3>1
    <3>3. next \in DOMAIN ts /\ b \in ts[next].contexts /\ \A t \in DOMAIN ts : b \in ts[t].contexts => t = next
      BY <1>8, <2>4, <3>2
    <3>4. next + n <= L + 1 /\ F < next + n /\ n \in Nat
      BY <1>1, <2>1, <2>2, <3>1, <3>3
    <3>5. ASSUME NEW k \in 4 .. c - 1, NEW t \in DOMAIN ts, k \in ts[t].contexts
          PROVE  t < next + n
      <4>1. t \in Nat
        BY <1>1
      <4>2. CASE k \in 4 .. b - 1
        <5>1. t < next
          BY <2>1, <3>5, <4>2
        <5> QED BY <2>2, <3>1, <4>1, <5>1
      <4>3. CASE k \in b .. c - 1
        <5>1. t = next
          BY <3>2, <3>3, <3>5, <4>3
        <5> QED BY <2>2, <3>1, <5>1
      <4> QED BY <2>3, <4>2, <4>3
    <3>6. ASSUME NEW t \in DOMAIN ts, F < t, t < next + n
          PROVE  \E k \in ts[t].contexts : k < c
      <4>1. t \in Nat /\ (t < next \/ t = next)
        BY <1>1, <2>2, <3>1, <3>6
      <4>2. CASE t = next
        BY <3>2, <3>3, <4>2
      <4>3. CASE t < next
        <5>1. PICK k \in ts[t].contexts : k < b
          BY <2>1, <3>6, <4>3
        <5>2. k \in Nat
          BY <1>1
        <5>3. k < c
          BY <1>2, <3>2, <5>1, <5>2
        <5> QED BY <5>3
      <4> QED BY <4>1, <4>2, <4>3
    <3> QED BY <2>2, <3>4, <3>5, <3>6 DEF n, F, L, c
  <2>5. CASE ~(scan.Ss > 0 /\ TableIn(ts, b) = next)
    <3>1. n = 0 /\ next + n = next
      BY <1>6, <1>10, <2>2, <2>5
    <3>2. ASSUME NEW k \in 4 .. c - 1, NEW t \in DOMAIN ts, k \in ts[t].contexts
          PROVE  t < next
      <4>1. t \in 1 .. L /\ t \in Nat /\ k \in Nat
        BY <1>1
      <4>2. CASE ~f.progressive
        BY <1>1, <2>1, <2>2, <4>1, <4>2
      <4>3. CASE f.progressive /\ scan.Ss = 0
        <5>1. k \in 4 .. b - 1
          BY <1>2, <4>3
        <5> QED BY <2>1, <3>2, <5>1
      <4>4. CASE f.progressive /\ scan.Ss > 0
        <5>1. c = b + 1
          BY <1>2, <4>4
        <5>2. CASE k \in 4 .. b - 1
          BY <2>1, <3>2, <5>2
        <5>3. CASE k = b
          <6>1. b < c
            BY <1>2, <5>1
          <6>2. t = TableIn(ts, b) /\ t # next
            BY <1>8, <2>5, <3>2, <4>4, <5>3, <6>1
          <6>3. CASE next < t
            <7>1. next \in DOMAIN ts /\ F < next
              BY <1>1, <2>1, <2>2, <4>1, <6>3
            <7>2. PICK x \in ts[next].contexts : \A y \in ts[t].contexts : x < y
              BY <1>1, <6>3, <7>1
            <7>3. x \in Nat /\ x < b
              BY <1>1, <3>2, <5>3, <7>1, <7>2
            <7>4. ~(x < 4)
              <8>1. ~(next <= F)
                BY <1>1, <2>2, <7>1
              <8> QED BY <1>1, <7>1, <8>1
            <7>5. x \in 4 .. b - 1
              BY <1>2, <7>3, <7>4
            <7>6. next < next
              BY <2>1, <7>1, <7>5
            <7> QED BY <2>2, <7>6
          <6> QED BY <2>2, <4>1, <6>2, <6>3
        <5> QED BY <1>2, <5>1, <5>2, <5>3
      <4> QED BY <1>2, <1>4, <4>2, <4>3, <4>4
    <3>3. ASSUME NEW t \in DOMAIN ts, F < t, t < next
          PROVE  \E k \in ts[t].contexts : k < c
      <4>1. PICK k \in ts[t].contexts : k < b
        BY <2>1, <3>3
      <4>2. k \in Nat
        BY <1>1
      <4>3. k < c
        BY <1>2, <4>1, <4>2
      <4> QED BY <4>3
    <3> QED BY <2>1, <2>2, <3>1, <3>2, <3>3 DEF n, F, L, c
  <2> QED BY <2>4, <2>5
<1> QED BY <1>9, <1>10

LEMMA HeaderSent ==
  ASSUME NEW f, IsFrame(f), NEW ts, TablesOf(f, ts), NEW i \in 1 .. Len(f.scans), NEW next, NEW dec,
         SentOf(f, ts, next, i, dec)
  PROVE  LET n == NumDht(f, ts, next, i)
         IN  SentOf(f, ts, next + n, i + 1, Received(ts, next, n, dec))
<1> DEFINE n == NumDht(f, ts, next, i)
           new == Received(ts, next, n, dec)
           L == Len(ts)
           slot(t) == ts[t].slot
<1>1. /\ n \in Nat /\ next \in Nat /\ next >= 1 /\ next + n <= L + 1
      /\ FirstOf(ts) < next + n
      /\ \A k \in 4 .. OffsetOf(f, i + 1) - 1 : \A t \in DOMAIN ts :
           k \in ts[t].contexts => t < next + n
      /\ \A t \in DOMAIN ts : FirstOf(ts) < t /\ t < next + n =>
           \E k \in ts[t].contexts : k < OffsetOf(f, i + 1)
  BY HeaderTables, Zenon
<1>2. L \in Nat /\ DOMAIN ts = 1 .. L /\ ts # <<>> /\ \A t \in DOMAIN ts : slot(t) \in 0 .. 19
  BY TablesShape, Zenon
<1>3. dec \in [0 .. 19 -> Nat] /\ (i = 1 => next = 1)
      /\ (i # 1 => \A t \in DOMAIN ts : t < next =>
            /\ t <= dec[slot(t)] /\ dec[slot(t)] < next /\ dec[slot(t)] \in DOMAIN ts
            /\ slot(dec[slot(t)]) = slot(t))
  BY Zenon DEF SentOf
<1>4. /\ new \in [0 .. 19 -> Nat]
      /\ \A s \in 0 .. 19 :
           \/ new[s] = dec[s] /\ \A x \in next .. next + n - 1 : slot(x) # s
           \/ /\ new[s] \in next .. next + n - 1 /\ slot(new[s]) = s
              /\ \A x \in next .. next + n - 1 : slot(x) = s => x <= new[s]
  <2>1. n \in Nat /\ next \in Nat /\ dec \in [0 .. 19 -> Nat]
    BY <1>1, <1>3
  <2> HIDE DEF n
  <2> QED BY <2>1, ReceivedShape, Zenon
<1>5. i \in Nat /\ i + 1 \in 1 .. Len(f.scans) + 1 /\ i + 1 # 1
  <2>1. Len(f.scans) \in Nat
    BY FrameShape
  <2> QED BY <2>1
<1> HIDE DEF n, new, L, slot
<1>6. ASSUME NEW t \in DOMAIN ts, t < next + n
      PROVE  /\ t <= new[slot(t)] /\ new[slot(t)] < next + n /\ new[slot(t)] \in DOMAIN ts
             /\ slot(new[slot(t)]) = slot(t)
  <2> DEFINE s == slot(t)
  <2>1. s \in 0 .. 19 /\ t \in 1 .. L /\ t \in Nat
    BY <1>2
  <2>2. s = slot(t)
    OBVIOUS
  <2> HIDE DEF s
  <2>3. CASE new[s] = dec[s] /\ \A x \in next .. next + n - 1 : slot(x) # s
    <3>1. t < next
      BY <1>1, <1>6, <2>1, <2>2, <2>3
    <3>2. i # 1
      <4>1. i = 1 => next = 1
        BY <1>3
      <4>2. t >= 1
        BY <2>1
      <4> QED BY <2>1, <3>1, <4>1, <4>2
    <3>3. t <= dec[s] /\ dec[s] < next /\ dec[s] \in DOMAIN ts /\ slot(dec[s]) = s
      BY <1>3, <2>2, <3>1, <3>2
    <3>4. dec[s] < next + n
      BY <1>1, <1>2, <3>3
    <3> QED BY <2>2, <2>3, <3>3, <3>4
  <2>4. CASE /\ new[s] \in next .. next + n - 1 /\ slot(new[s]) = s
             /\ \A x \in next .. next + n - 1 : slot(x) = s => x <= new[s]
    <3> DEFINE last == new[s]
    <3>1. last \in next .. next + n - 1 /\ slot(last) = s
          /\ \A x \in next .. next + n - 1 : slot(x) = s => x <= last
      BY <2>4
    <3> HIDE DEF last
    <3>2. last \in DOMAIN ts /\ last < next + n
      BY <1>1, <1>2, <3>1
    <3>3. t <= last
      <4>1. CASE t < next
        BY <1>1, <2>1, <3>1, <4>1
      <4>2. CASE t >= next
        <5>1. t \in next .. next + n - 1
          BY <1>1, <1>6, <2>1, <4>2
        <5> QED BY <2>2, <3>1, <5>1
      <4> QED BY <1>1, <2>1, <4>1, <4>2
    <3> QED BY <2>2, <3>1, <3>2, <3>3 DEF last
  <2> QED BY <1>4, <2>1, <2>2, <2>3, <2>4
<1>7. next + n \in Nat
  BY <1>1
<1>8. \A t \in DOMAIN ts : t < next + n =>
        LET last == new[ts[t].slot]
        IN  t <= last /\ last < next + n /\ last \in DOMAIN ts /\ ts[last].slot = ts[t].slot
  BY <1>6, Zenon DEF slot
<1>9. SentOf(f, ts, next + n, i + 1, new)
  BY <1>1, <1>2, <1>4, <1>5, <1>7, <1>8, Zenon DEF SentOf, L
<1> QED BY <1>9 DEF n, new

\* The decoder has the last table of a slot that was sent: for a DC context that is its own
\* table, and a later one for the slot of an AC context would start after this scan.
LEMMA CodesAreSent ==
  ASSUME NEW f, IsFrame(f), NEW ts, TablesOf(f, ts), NEW i \in 1 .. Len(f.scans), NEW next, NEW dec,
         SentOf(f, ts, next, i + 1, dec)
  PROVE  CodesOf(f, ts, i + 1, dec)
<1> DEFINE L == Len(ts)
           F == FirstOf(ts)
           b == OffsetOf(f, i)
           c == OffsetOf(f, i + 1)
           scan == f.scans[i]
           n == Len(f.comps)
           all == (0 .. n - 1) \cup (4 .. NumContexts(f) - 1)
           slot(t) == ts[t].slot
           last(t) == dec[ts[t].slot]
<1>1. /\ L \in Nat /\ DOMAIN ts = 1 .. L /\ F \in 1 .. L
      /\ \A t \in DOMAIN ts : ts[t].contexts \in SUBSET Nat
      /\ \A t \in DOMAIN ts : \A k \in ts[t].contexts : k < 4 => t <= F /\ slot(t) < 16
      /\ \A t \in DOMAIN ts : t > F => slot(t) >= 16
      /\ \A t, u \in DOMAIN ts : t < u /\ slot(t) = slot(u) =>
           u > F /\ \A x \in ts[t].contexts : \A y \in ts[u].contexts : x < y
      /\ ~f.progressive => F = L
      /\ \A t \in DOMAIN ts : slot(t) \in 0 .. 19
  BY TablesShape, Zenon
<1>2. /\ b \in Nat /\ c \in Nat
      /\ f.progressive /\ scan.Ss = 0 => scan.Se = 0 /\ c = b
      /\ f.progressive /\ scan.Ss > 0 => c = b + 1
      /\ scan.Ss \in Nat /\ scan.Se \in Nat
      /\ scan.Se > 0 => \A j \in DOMAIN scan.comps :
           j \in Nat /\ j >= 1 /\ b + j - 1 \in 4 .. NumContexts(f) - 1 /\ b + j - 1 < c
      /\ \A j \in DOMAIN scan.comps : scan.comps[j] - 1 \in 0 .. n - 1
  BY ContextsOfHeader, Zenon
<1>3. f.progressive \in BOOLEAN /\ n \in 1 .. 4 /\ Len(f.scans) \in Nat
  BY FrameShape
<1>4. i \in Nat /\ i + 1 # 1 /\ (i + 1) - 1 = i
  OBVIOUS
<1>5. /\ next \in Nat /\ F < next
      /\ \A k \in 4 .. c - 1 : \A t \in DOMAIN ts : k \in ts[t].contexts => t < next
      /\ \A t \in DOMAIN ts : F < t /\ t < next => \E k \in ts[t].contexts : k < c
      /\ \A t \in DOMAIN ts : t < next =>
           t <= last(t) /\ last(t) < next /\ last(t) \in DOMAIN ts /\ slot(last(t)) = slot(t)
  BY <1>4, Zenon DEF SentOf
<1>6. ASSUME NEW k \in all
      PROVE  TableIn(ts, k) \in DOMAIN ts /\ k \in ts[TableIn(ts, k)].contexts
  <2>1. AreTables(ts, all, f.progressive)
    BY DEF TablesOf
  <2> HIDE DEF all
  <2> QED BY <2>1, OneTable
<1> HIDE DEF L, F, b, c, n, scan, slot, last
<1>7. ASSUME NEW t \in DOMAIN ts, t < next
      PROVE  last(t) = t \/ (t < last(t) /\ last(t) > F /\ last(t) < next /\ last(t) \in DOMAIN ts
                             /\ slot(last(t)) = slot(t)
                             /\ \A x \in ts[t].contexts : \A y \in ts[last(t)].contexts : x < y)
  <2> DEFINE u == last(t)
  <2>1. t <= u /\ u < next /\ u \in DOMAIN ts /\ slot(u) = slot(t)
    BY <1>5, <1>7
  <2> HIDE DEF u
  <2>2. CASE t = u
    BY <2>2 DEF u
  <2>3. CASE t # u
    <3>1. t < u
      BY <1>1, <2>1, <2>3
    <3>2. u > F /\ \A x \in ts[t].contexts : \A y \in ts[u].contexts : x < y
      BY <1>1, <2>1, <3>1
    <3> QED BY <2>1, <3>1, <3>2 DEF u
  <2> QED BY <2>2, <2>3
<1>8. ASSUME NEW j \in DOMAIN scan.comps
      PROVE  LET t == TableIn(ts, scan.comps[j] - 1) IN last(t) = t
  <2> DEFINE k == scan.comps[j] - 1
             t == TableIn(ts, k)
  <2>1. k \in 0 .. n - 1
    BY <1>2
  <2>2. k \in all /\ k < 4
    BY <1>3, <2>1
  <2> HIDE DEF k
  <2>3. t \in DOMAIN ts /\ k \in ts[t].contexts
    BY <1>6, <2>2
  <2> HIDE DEF t
  <2>4. t <= F /\ slot(t) < 16
    BY <1>1, <2>2, <2>3
  <2>5. t < next
    BY <1>1, <1>5, <2>3, <2>4
  <2>6. last(t) = t
    <3> DEFINE u == last(t)
    <3>1. u = t \/ (u > F /\ u \in DOMAIN ts /\ slot(u) = slot(t))
      BY <1>7, <2>3, <2>5, Zenon
    <3> HIDE DEF u
    <3>2. u = t
      <4> SUFFICES ASSUME u > F, u \in DOMAIN ts, slot(u) = slot(t) PROVE FALSE
        BY <3>1
      <4>1. slot(u) >= 16 /\ slot(u) \in 0 .. 19
        BY <1>1
      <4> QED BY <2>4, <4>1
    <3> QED BY <3>2 DEF u
  <2> QED BY <2>6 DEF t, k
<1>9. ASSUME scan.Se > 0, NEW j \in DOMAIN scan.comps
      PROVE  LET t == TableIn(ts, b + j - 1) IN last(t) = t
  <2> DEFINE k == b + j - 1
             t == TableIn(ts, k)
  <2>1. k \in 4 .. NumContexts(f) - 1 /\ k < c /\ k >= b /\ k \in Nat
    BY <1>2, <1>9
  <2>2. k \in all /\ k \in 4 .. c - 1
    BY <1>2, <2>1
  <2> HIDE DEF k
  <2>3. t \in DOMAIN ts /\ k \in ts[t].contexts
    BY <1>6, <2>2
  <2> HIDE DEF t
  <2>4. t < next
    BY <1>5, <2>2, <2>3
  <2>5. last(t) = t
    <3> DEFINE u == last(t)
    <3>1. u = t \/ (u > F /\ u < next /\ u \in DOMAIN ts /\ \A y \in ts[u].contexts : k < y)
      BY <1>7, <2>3, <2>4, Zenon
    <3> HIDE DEF u
    <3>2. u = t
      <4> SUFFICES ASSUME u > F, u < next, u \in DOMAIN ts, \A y \in ts[u].contexts : k < y PROVE FALSE
        BY <3>1
      <4>1. u \in 1 .. L
        BY <1>1
      <4>2. PICK y \in ts[u].contexts : y < c
        BY <1>1, <1>5
      <4>3. y \in Nat /\ k < y
        BY <1>1
      <4>4. CASE ~f.progressive
        BY <1>1, <4>1, <4>4
      <4>5. CASE f.progressive /\ scan.Ss = 0
        BY <1>2, <1>9, <4>5
      <4>6. CASE f.progressive /\ scan.Ss > 0
        <5>1. c = b + 1
          BY <1>2, <4>6
        <5> QED BY <1>2, <2>1, <4>2, <4>3, <5>1
      <4> QED BY <1>2, <1>3, <4>4, <4>5, <4>6
    <3> QED BY <3>2 DEF u
  <2> QED BY <2>5 DEF t, k
<1> QED BY <1>4, <1>8, <1>9, Zenon DEF CodesOf, scan, b, last

-----------------------------------------------------------------------------
(* The steps.                                                              *)

LEMMA InitInv == Init => SlotsInv
<1> SUFFICES ASSUME Init PROVE SlotsInv
  OBVIOUS
<1>1. IsFrame(frame)
  BY FramesAssumption DEF Init
<1>2. \A base \in Nat : ClusterInv(NoClusters, base, 0)
  BY DEF ClusterInv, NoClusters
<1>3. ClustersOf(frame, clusters)
  <2>1. 0 \in 0 .. Len(frame.comps) /\ 0 \in Nat /\ 4 \in Nat
    <3> DEFINE n == Len(frame.comps)
    <3>1. n \in 1 .. 4
      BY <1>1, FrameShape
    <3> HIDE DEF n
    <3> QED BY <3>1 DEF n
  <2>2. 0 \in 0 .. NumContexts(frame) - 4
    BY <1>1, SequentialContexts
  <2>3. clusters.dc = NoClusters /\ clusters.ac = NoClusters
        /\ clusters = [dc |-> clusters.dc, ac |-> clusters.ac]
    BY DEF Init
  <2> QED BY <1>2, <2>1, <2>2, <2>3, Zenon DEF ClustersOf
<1>4. SentOf(frame, tables, next_dht_index, next_scan, decoder)
  <2>1. Len(frame.scans) \in Nat
    BY <1>1, FrameShape
  <2>2. 1 \in 1 .. Len(frame.scans) + 1
    BY <2>1
  <2> QED BY <2>2 DEF SentOf, Init
<1> QED BY <1>1, <1>3, <1>4 DEF SlotsInv, Init

\* No header has been written while tables are made.
LEMMA NotSentYet ==
  ASSUME NEW f, NEW next, NEW i, NEW dec, SentOf(f, <<>>, next, i, dec), NEW ts
  PROVE  SentOf(f, ts, next, i, dec)
BY DEF SentOf

LEMMA ClusteredInv ==
  ASSUME NEW c, NEW base \in Nat, NEW n \in Nat, ClusterInv(c, base, n), NEW k, k = base + n,
         NEW d \in Clustered(c, k)
  PROVE  ClusterInv(d, base, n + 1)
<1>1. CASE d = NewHistogram(c, k)
  BY <1>1, NewHistogramInv
<1>2. CASE \E slot \in DOMAIN c.slots : d = MergeHistogram(c, k, slot)
  BY <1>2, MergeHistogramInv
<1>3. d = NewHistogram(c, k) \/ \E slot \in DOMAIN c.slots : d = MergeHistogram(c, k, slot)
  BY Zenon DEF Clustered
<1> QED BY <1>1, <1>2, <1>3

LEMMA ClusterDCInv == SlotsInv /\ ClusterDC => SlotsInv'
<1> SUFFICES ASSUME SlotsInv, ClusterDC PROVE SlotsInv'
  OBVIOUS
<1>1. /\ tables = <<>> /\ frame' = frame /\ tables' = tables /\ next_dht_index' = next_dht_index
      /\ next_scan' = next_scan /\ decoder' = decoder
      /\ NumClustered(clusters.dc) < Len(frame.comps)
      /\ \E c \in Clustered(clusters.dc, NumClustered(clusters.dc)) : clusters' = [clusters EXCEPT !.dc = c]
  BY DEF ClusterDC, num_components
<1>2. IsFrame(frame) /\ SentOf(frame, tables, next_dht_index, next_scan, decoder) /\ ClustersOf(frame, clusters)
  BY <1>1 DEF SlotsInv
<1>3. PICK n \in 0 .. Len(frame.comps), k \in 0 .. NumContexts(frame) - 4 :
        ClusterInv(clusters.dc, 0, n) /\ ClusterInv(clusters.ac, 4, k)
  BY <1>2 DEF ClustersOf
<1>4. n \in Nat /\ 0 \in Nat /\ n = 0 + n
  BY <1>3
<1>5. NumClustered(clusters.dc) = n
  BY <1>3, <1>4, UnionOfClusters
<1>6. PICK c \in Clustered(clusters.dc, n) : clusters' = [clusters EXCEPT !.dc = c]
  BY <1>1, <1>5
<1>7. ClusterInv(c, 0, n + 1)
  BY <1>3, <1>4, <1>6, ClusteredInv
<1>8. clusters'.ac = clusters.ac /\ clusters'.dc = c /\ clusters' = [dc |-> clusters'.dc, ac |-> clusters'.ac]
  <2>1. clusters = [dc |-> clusters.dc, ac |-> clusters.ac]
    BY <1>2, Zenon DEF ClustersOf
  <2> QED BY <1>6, <2>1
<1>9. n + 1 \in 0 .. Len(frame.comps)
  <2> DEFINE m == Len(frame.comps)
  <2>1. n < m /\ m \in Nat
    BY <1>1, <1>2, <1>5, FrameShape
  <2> HIDE DEF m
  <2> QED BY <1>4, <2>1 DEF m
<1>10. ClustersOf(frame, clusters')
  BY <1>3, <1>7, <1>8, <1>9, Zenon DEF ClustersOf
<1> QED BY <1>1, <1>2, <1>10, Zenon DEF SlotsInv

LEMMA ClusterACInv == SlotsInv /\ ClusterAC => SlotsInv'
<1> SUFFICES ASSUME SlotsInv, ClusterAC PROVE SlotsInv'
  OBVIOUS
<1>1. /\ tables = <<>> /\ frame' = frame /\ tables' = tables /\ next_dht_index' = next_dht_index
      /\ next_scan' = next_scan /\ decoder' = decoder
      /\ NumClustered(clusters.ac) < NumContexts(frame) - 4
      /\ \E c \in Clustered(clusters.ac, 4 + NumClustered(clusters.ac)) :
           clusters' = [clusters EXCEPT !.ac = c]
  BY DEF ClusterAC, num_contexts, ac_ctx_offset, NumContexts, OffsetOf
<1>2. IsFrame(frame) /\ SentOf(frame, tables, next_dht_index, next_scan, decoder) /\ ClustersOf(frame, clusters)
  BY <1>1 DEF SlotsInv
<1>3. PICK n \in 0 .. Len(frame.comps), k \in 0 .. NumContexts(frame) - 4 :
        ClusterInv(clusters.dc, 0, n) /\ ClusterInv(clusters.ac, 4, k)
  BY <1>2 DEF ClustersOf
<1>4. k \in Nat /\ 4 \in Nat
  BY <1>3
<1>5. NumClustered(clusters.ac) = k
  BY <1>3, <1>4, UnionOfClusters
<1>6. PICK c \in Clustered(clusters.ac, 4 + k) : clusters' = [clusters EXCEPT !.ac = c]
  BY <1>1, <1>5
<1>7. ClusterInv(c, 4, k + 1)
  BY <1>3, <1>4, <1>6, ClusteredInv
<1>8. clusters'.dc = clusters.dc /\ clusters'.ac = c /\ clusters' = [dc |-> clusters'.dc, ac |-> clusters'.ac]
  <2>1. clusters = [dc |-> clusters.dc, ac |-> clusters.ac]
    BY <1>2, Zenon DEF ClustersOf
  <2> QED BY <1>6, <2>1
<1>9. k + 1 \in 0 .. NumContexts(frame) - 4
  <2>1. NumContexts(frame) \in Nat
    BY <1>2, SequentialContexts
  <2> QED BY <1>1, <1>4, <1>5, <2>1
<1>10. ClustersOf(frame, clusters')
  BY <1>3, <1>7, <1>8, <1>9, Zenon DEF ClustersOf
<1> QED BY <1>1, <1>2, <1>10, Zenon DEF SlotsInv

LEMMA OptimizeInv == SlotsInv /\ OptimizeHuffmanCodes => SlotsInv'
<1> SUFFICES ASSUME SlotsInv, OptimizeHuffmanCodes PROVE SlotsInv'
  OBVIOUS
<1> DEFINE dc == clusters.dc
           ac == clusters.ac
           ts == [i \in 1 .. Len(dc.histograms) |-> [slot |-> i - 1, contexts |-> dc.histograms[i]]] \o
                 [i \in 1 .. Len(ac.histograms) |-> [slot |-> 15 + ac.slot_ids[i],
                                                     contexts |-> ac.histograms[i]]]
<1>1. /\ tables = <<>> /\ frame' = frame /\ next_dht_index' = next_dht_index
      /\ next_scan' = next_scan /\ decoder' = decoder
      /\ NumClustered(dc) = Len(frame.comps)
      /\ NumClustered(ac) = NumContexts(frame) - 4
      /\ tables' = ts
  BY DEF OptimizeHuffmanCodes, num_components, num_contexts, ac_ctx_offset, NumContexts, OffsetOf
<1>2. IsFrame(frame) /\ SentOf(frame, tables, next_dht_index, next_scan, decoder) /\ ClustersOf(frame, clusters)
  BY <1>1 DEF SlotsInv
<1> HIDE DEF ts
<1>3. PICK n \in 0 .. Len(frame.comps), k \in 0 .. NumContexts(frame) - 4 :
        ClusterInv(dc, 0, n) /\ ClusterInv(ac, 4, k)
  BY <1>2 DEF ClustersOf
<1>4. k \in Nat /\ 4 \in Nat /\ n \in Nat /\ 0 \in Nat
  BY <1>3
<1>5. n = Len(frame.comps) /\ k = NumContexts(frame) - 4
  BY <1>1, <1>3, <1>4, UnionOfClusters
<1>6. n \in 1 .. 4
  BY <1>2, <1>5, FrameShape
<1>7. NumContexts(frame) \in Nat /\ NumContexts(frame) >= 4
      /\ (~frame.progressive => NumContexts(frame) - 4 <= 4)
  BY <1>2, SequentialContexts
<1>8. ~frame.progressive => k <= 4
  BY <1>5, <1>7
<1>9. 4 + k = NumContexts(frame)
  BY <1>5, <1>7
<1>10. frame.progressive \in BOOLEAN
  BY <1>2, FrameShape
<1>11. AreTables(ts, (0 .. n - 1) \cup (4 .. (4 + k) - 1), frame.progressive)
  BY <1>3, <1>4, <1>6, <1>8, <1>10, ClusteredTables DEF ts
<1>12. TablesOf(frame, ts) /\ ts # <<>>
  <2>1. TablesOf(frame, ts)
    BY <1>5, <1>9, <1>11, Zenon DEF TablesOf
  <2> QED BY <2>1, TablesShape
<1>13. SentOf(frame, ts, next_dht_index, next_scan, decoder)
  BY <1>1, <1>2, NotSentYet
<1> QED BY <1>1, <1>2, <1>12, <1>13, Zenon DEF SlotsInv

LEMMA CopyInv == SlotsInv /\ CopyHuffmanTables => SlotsInv'
<1> SUFFICES ASSUME SlotsInv, CopyHuffmanTables PROVE SlotsInv'
  OBVIOUS
<1> DEFINE u == UsesOf(frame)
           m == 2 * Len(frame.comps)
           N == Cardinality(FirstUses(u, m))
           once == [i \in 1 .. N |-> u[NthUse(u, m, i)]]
           ts == [i \in DOMAIN once |-> [slot |-> once[i], contexts |-> UsersOf(frame, once[i])]]
<1>1. /\ frame.own /\ tables = <<>> /\ frame' = frame /\ next_dht_index' = next_dht_index
      /\ next_scan' = next_scan /\ decoder' = decoder
  BY DEF CopyHuffmanTables
<1>2. tables' = ts
  BY Zenon DEF CopyHuffmanTables, UsesOf, UsersOf, FirstUses, NthUse, num_components, ac_ctx_offset, OffsetOf
<1>3. IsFrame(frame) /\ SentOf(frame, tables, next_dht_index, next_scan, decoder)
  BY DEF SlotsInv
<1>4. ~frame.progressive
  BY <1>1, <1>3 DEF IsFrame
<1>5. EachOnce(frame, once, N)
  BY <1>3, SlotsOnce
<1> HIDE DEF u, m, N, once
<1>6. TablesOf(frame, ts)
  BY <1>3, <1>4, <1>5, CopiedTables
<1> HIDE DEF ts
<1>7. ts # <<>>
  BY <1>6, TablesShape
<1>8. SentOf(frame, ts, next_dht_index, next_scan, decoder)
  BY <1>1, <1>3, NotSentYet
<1> QED BY <1>1, <1>2, <1>3, <1>6, <1>7, <1>8, Zenon DEF SlotsInv

LEMMA HeaderInv == SlotsInv /\ WriteScanHeader => SlotsInv'
<1> SUFFICES ASSUME SlotsInv, WriteScanHeader PROVE SlotsInv'
  OBVIOUS
<1> DEFINE n == NumDht(frame, tables, next_dht_index, next_scan)
<1>1. /\ tables # <<>> /\ next_scan <= Len(frame.scans) /\ frame' = frame /\ tables' = tables
      /\ next_scan' = next_scan + 1
  BY DEF WriteScanHeader
<1>2. num_dht(next_scan) = n
  BY Zenon DEF num_dht, NumDht, FirstTables, FirstOf, TableOf, TableIn, ac_ctx_offset, OffsetOf
<1>3. next_dht_index' = next_dht_index + n /\ decoder' = Received(tables, next_dht_index, n, decoder)
  BY <1>2, Zenon DEF WriteScanHeader, Received
<1>4. IsFrame(frame) /\ SentOf(frame, tables, next_dht_index, next_scan, decoder) /\ TablesOf(frame, tables)
  BY <1>1 DEF SlotsInv
<1>5. next_scan \in 1 .. Len(frame.scans)
  <2>1. Len(frame.scans) \in Nat
    BY <1>4, FrameShape
  <2>2. next_scan \in 1 .. Len(frame.scans) + 1
    BY <1>4 DEF SentOf
  <2> QED BY <1>1, <2>1, <2>2
<1>6. SentOf(frame, tables, next_dht_index + n, next_scan + 1,
             Received(tables, next_dht_index, n, decoder))
  BY <1>4, <1>5, HeaderSent
<1> HIDE DEF n
<1> QED BY <1>1, <1>3, <1>4, <1>6, Zenon DEF SlotsInv

LEMMA SlotsInvHoldsCodes == SlotsInv => DecoderHasTheCodes
<1> SUFFICES ASSUME SlotsInv, next_scan > 1 PROVE DecoderHasTheCodes
  BY DEF DecoderHasTheCodes
<1>1. IsFrame(frame) /\ SentOf(frame, tables, next_dht_index, next_scan, decoder)
  BY DEF SlotsInv
<1>2. next_scan \in 1 .. Len(frame.scans) + 1 /\ Len(frame.scans) \in Nat
  BY <1>1, FrameShape DEF SentOf
<1>3. next_scan # 1
  BY <1>2
<1>4. TablesOf(frame, tables)
  BY <1>1, <1>3 DEF SlotsInv, SentOf
<1> DEFINE i == next_scan - 1
<1>5. i \in 1 .. Len(frame.scans) /\ i + 1 = next_scan
  BY <1>2, <1>3
<1> HIDE DEF i
<1>6. CodesOf(frame, tables, next_scan, decoder)
  <2>1. SentOf(frame, tables, next_dht_index, i + 1, decoder)
    BY <1>1, <1>5
  <2>2. CodesOf(frame, tables, i + 1, decoder)
    BY <1>1, <1>4, <1>5, <2>1, CodesAreSent
  <2> QED BY <1>5, <2>2
<1> QED BY <1>6, Zenon DEF CodesOf, DecoderHasTheCodes, TableIn, TableOf, OffsetOf, ac_ctx_offset

\* The tables are in the decoder's slots when the scan that is coded with them begins,
\* whichever histograms OptimizeHuffmanCodes merges, whatever the order of the scans, and
\* however the application shares its own tables (EncodeDHT, WriteScanHeader).
THEOREM DecoderCanDecode == Spec => []DecoderHasTheCodes
<1>1. SlotsInv /\ [Next]_vars => SlotsInv'
  <2> SUFFICES ASSUME SlotsInv, [Next]_vars PROVE SlotsInv'
    OBVIOUS
  <2>1. CASE UNCHANGED vars
    BY <2>1, Zenon DEF vars, SlotsInv
  <2> QED BY <2>1, ClusterDCInv, ClusterACInv, OptimizeInv, CopyInv, HeaderInv DEF Next
<1> QED BY <1>1, InitInv, SlotsInvHoldsCodes, PTL DEF Spec
=============================================================================
