--------------------------- MODULE Encoder_stream ---------------------------
(***************************************************************************)
(* Proofs about the stream of Encoder: that it is the image's, whatever    *)
(* buffers the destination refuses, and that its decoder has the tables.   *)
(***************************************************************************)
EXTENDS Encoder_proofs, SequenceTheorems, WellFoundedInduction

-----------------------------------------------------------------------------
(* Sequences.                                                              *)

LEMMA Joined ==
  ASSUME NEW S, NEW a \in Seq(S), NEW b \in Seq(S)
  PROVE  a \o b \in Seq(S) /\ Len(a \o b) = Len(a) + Len(b) /\ Len(a) \in Nat /\ Len(b) \in Nat
BY ConcatProperties

LEMMA Regrouped ==
  \A S : \A a, b, c \in Seq(S) : a \o (b \o c) = (a \o b) \o c
BY ConcatAssociative, SMTT(30)

LEMMA Cut ==
  ASSUME NEW S, NEW s \in Seq(S), NEW n \in 0 .. Len(s)
  PROVE  /\ SubSeq(s, 1, n) \in Seq(S) /\ Len(SubSeq(s, 1, n)) = n
         /\ SubSeq(s, n + 1, Len(s)) \in Seq(S) /\ Len(SubSeq(s, n + 1, Len(s))) = Len(s) - n
         /\ SubSeq(s, 1, n) \o SubSeq(s, n + 1, Len(s)) = s
<1>1. Len(s) \in Nat /\ \A i \in 1 .. Len(s) : s[i] \in S
  OBVIOUS
<1>2. SubSeq(s, 1, n) \in Seq(S) /\ Len(SubSeq(s, 1, n)) = n
  BY <1>1, SubSeqProperties
<1>3. SubSeq(s, n + 1, Len(s)) \in Seq(S) /\ Len(SubSeq(s, n + 1, Len(s))) = Len(s) - n
  BY <1>1, SubSeqProperties
<1>4. SubSeq(s, 1, n) \o SubSeq(s, n + 1, Len(s)) = SubSeq(s, 1, Len(s))
  <2> DEFINE k == Len(s)
  <2>1. 1 \in 1 .. k + 1 /\ n \in 1 - 1 .. k /\ k \in n .. k
    BY <1>1
  <2>2. SubSeq(s, 1, n) \o SubSeq(s, n + 1, k) = SubSeq(s, 1, k)
    BY <2>1, ConcatAdjacentSubSeq
  <2> QED BY <2>2
<1> QED BY <1>2, <1>3, <1>4, SubSeqFull

\* What follows a place grows with the sequence.
LEMMA SubSeqOfAppended ==
  ASSUME NEW S, NEW s \in Seq(S), NEW t \in Seq(S), NEW a \in Nat, a <= Len(s)
  PROVE  /\ SubSeq(s \o t, a + 1, Len(s) + Len(t)) = SubSeq(s, a + 1, Len(s)) \o t
         /\ SubSeq(s, a + 1, Len(s)) \in Seq(S)
<1> DEFINE u == s \o t
           x == SubSeq(u, a + 1, Len(s) + Len(t))
           y == SubSeq(s, a + 1, Len(s))
           z == y \o t
<1>1. /\ u \in Seq(S) /\ Len(u) = Len(s) + Len(t)
      /\ \A i \in 1 .. Len(s) + Len(t) : u[i] = IF i <= Len(s) THEN s[i] ELSE t[i - Len(s)]
  BY ConcatProperties
<1>2. /\ y \in Seq(S) /\ Len(y) = Len(s) - a /\ \A i \in 1 .. Len(s) - a : y[i] = s[a + i]
  <2>1. \A i \in a + 1 .. Len(s) : s[i] \in S
    OBVIOUS
  <2> QED BY <2>1, SubSeqProperties
<1> HIDE DEF u
<1>3. /\ x \in Seq(S) /\ Len(x) = Len(s) + Len(t) - a
      /\ \A i \in 1 .. Len(s) + Len(t) - a : x[i] = u[a + i]
  <2>1. \A i \in a + 1 .. Len(s) + Len(t) : u[i] \in S
    BY <1>1
  <2> QED BY <2>1, SubSeqProperties
<1> HIDE DEF x, y
<1>4. /\ z \in Seq(S) /\ Len(z) = Len(y) + Len(t)
      /\ \A i \in 1 .. Len(y) + Len(t) : z[i] = IF i <= Len(y) THEN y[i] ELSE t[i - Len(y)]
  BY <1>2, ConcatProperties
<1> HIDE DEF z
<1>5. Len(s) \in Nat /\ Len(t) \in Nat /\ Len(x) = Len(z)
  BY <1>2, <1>3, <1>4
<1>6. ASSUME NEW i \in 1 .. Len(x) PROVE x[i] = z[i]
  <2>1. i \in Nat /\ i \in 1 .. Len(s) + Len(t) - a /\ a + i \in 1 .. Len(s) + Len(t)
    BY <1>3, <1>5, <1>6
  <2>2. x[i] = IF a + i <= Len(s) THEN s[a + i] ELSE t[a + i - Len(s)]
    BY <1>1, <1>3, <2>1
  <2>3. z[i] = IF i <= Len(s) - a THEN s[a + i] ELSE t[i - (Len(s) - a)]
    BY <1>2, <1>4, <1>5, <2>1
  <2> QED BY <1>5, <2>1, <2>2, <2>3
<1>7. x = z
  BY <1>3, <1>4, <1>5, <1>6, SeqEqual
<1> QED BY <1>2, <1>7 DEF x, y, z, u

-----------------------------------------------------------------------------
(* The destination.                                                        *)

\* The units of a stream are <<kind, a, b>>.
Kinds == {"SOI", "APP", "DQT", "SOF", "DHT", "SOS", "row", "scan", "EOI"}
Segments == Kinds \X ({"own", "fixed"} \cup Int) \X Int

LEMMA JoinedUnits ==
  \A a, b \in Seq(Segments) : a \o b \in Seq(Segments)
BY Joined

\* The sequences of units, as a set of its own for the laws of \o.
Streams == Seq(Segments)

LEMMA StreamLaws ==
  /\ \A a, b : a \in Streams /\ b \in Streams => a \o b \in Streams
  /\ \A a, b, c : a \in Streams /\ b \in Streams /\ c \in Streams => a \o (b \o c) = (a \o b) \o c
BY Joined, Regrouped DEF Streams

LEMMA SameUnits ==
  \A a, b, c \in Seq(Segments) : a \o (b \o c) = (a \o b) \o c
BY Regrouped

\* The buffer is not longer than its size; of the memory destination, whose size is a
\* power of two times the first one, only the type is needed.
IsDest(d) ==
  /\ DOMAIN d = {"kind", "size", "buf", "file", "base", "ready"}
  /\ d.buf \in Seq(Segments) /\ d.file \in Seq(Segments)
  /\ d.base \in Nat /\ d.base <= Len(d.file) + Len(d.buf)
  /\ d.size \in Int
  /\ d.kind # "mem" => d.size \in Nat /\ Len(d.buf) <= d.size

LEMMA Products ==
  ASSUME NEW a \in Nat, NEW j \in Nat
  PROVE  /\ a * j \in Nat /\ j * a = a * j
         /\ j >= 1 => a * (j - 1) = a * j - a
OBVIOUS

\* How much of the units goes out with j calls of empty_output_buffer, and that what
\* remains fits the buffer.
LEMMA Moved ==
  ASSUME NEW d, IsDest(d), NEW n \in Nat, NEW j \in 0 .. n, EachNeeded(d, n, j),
         d.kind # "mem" \/ Enough(d, n, j), NEW k, k = UnitsMoved(d, n, j)
  PROVE  /\ k \in 0 .. n
         /\ Enough(d, n, j) => k = n
         /\ d.kind # "mem" => /\ j * d.size \in 0 .. Len(d.buf) + k
                              /\ Len(d.buf) + k - j * d.size <= d.size
<1> DEFINE b == Len(d.buf)
           g == Gain(d, j)
<1>1. b \in Nat /\ d.size \in Int /\ j \in Nat
  BY DEF IsDest
<1>2. g \in Int
  <2>1. CASE d.kind = "mem"
    <3>1. 2^j \in Int
      BY <1>1
    <3>2. \A x \in Int : d.size * (x - 1) \in Int
      BY <1>1
    <3> QED BY <2>1, <3>1, <3>2 DEF Gain
  <2>2. CASE d.kind # "mem"
    BY <1>1, <2>2 DEF Gain
  <2> QED BY <2>1, <2>2
<1>3. k = IF n <= d.size - b + g THEN n ELSE d.size - b + g
  <2>1. d.size - b + g \in Int
    BY <1>1, <1>2
  <2>2. Min({n, d.size - b + g}) = IF n <= d.size - b + g THEN n ELSE d.size - b + g
    <3> HIDE DEF b, g
    <3> QED BY <2>1, MinOfTwo
  <2> QED BY <2>2 DEF UnitsMoved, free_in_buffer
<1>4. Enough(d, n, j) <=> d.size - b + g >= n
  BY DEF Enough, free_in_buffer
<1>5. CASE d.kind = "mem"
  <2> HIDE DEF b, g
  <2> QED BY <1>1, <1>2, <1>3, <1>4, <1>5
<1>6. CASE d.kind # "mem"
  <2> DEFINE a == d.size * j
  <2>1. d.size \in Nat /\ b <= d.size /\ g = a
    BY <1>6 DEF IsDest, Gain
  <2>2. /\ a \in Nat /\ j * d.size = a
        /\ j >= 1 => d.size * (j - 1) = a - d.size
    BY <1>1, <2>1, Products
  <2>3. j >= 1 => ~(d.size - b + (a - d.size) >= n)
    <3> SUFFICES ASSUME j >= 1 PROVE ~(d.size - b + (a - d.size) >= n)
      OBVIOUS
    <3>1. ~Enough(d, n, j - 1)
      BY <1>1 DEF EachNeeded
    <3> QED BY <1>6, <2>2, <3>1 DEF Enough, free_in_buffer, Gain
  <2>4. j = 0 => a = 0
    BY <2>1
  <2> HIDE DEF b, g, a
  <2>5. k \in 0 .. n /\ a \in 0 .. b + k /\ b + k - a <= d.size
    <3>1. CASE n <= d.size - b + a
      BY <1>1, <1>3, <2>1, <2>2, <2>3, <2>4, <3>1
    <3>2. CASE ~(n <= d.size - b + a)
      BY <1>1, <1>3, <2>1, <2>2, <3>2
    <3> QED BY <3>1, <3>2
  <2>6. Enough(d, n, j) => k = n
    BY <1>1, <1>3, <1>4, <2>1, <2>2
  <2> QED BY <1>6, <2>2, <2>5, <2>6 DEF b
<1> QED BY <1>5, <1>6

LEMMA StreamGrows ==
  ASSUME NEW d, IsDest(d), NEW e, NEW v \in Seq(Segments), e.base = d.base,
         e.file \in Seq(Segments), e.buf \in Seq(Segments), e.file \o e.buf = (d.file \o d.buf) \o v
  PROVE  Stream(e) = Stream(d) \o v /\ Stream(d) \in Seq(Segments)
         /\ e.base <= Len(e.file) + Len(e.buf)
<1> DEFINE s == d.file \o d.buf
           t == e.file \o e.buf
<1>1. s \in Seq(Segments) /\ Len(s) = Len(d.file) + Len(d.buf) /\ d.base \in Nat /\ d.base <= Len(s)
  BY Joined DEF IsDest
<1>2. t = s \o v
  OBVIOUS
<1>3. Len(t) = Len(e.file) + Len(e.buf) /\ Len(t) = Len(s) + Len(v) /\ Len(v) \in Nat
  <2>1. Len(t) = Len(e.file) + Len(e.buf)
    BY Joined
  <2>2. Len(s \o v) = Len(s) + Len(v) /\ Len(v) \in Nat
    <3> HIDE DEF s
    <3> QED BY <1>1, Joined
  <2> QED BY <1>2, <2>1, <2>2
<1> HIDE DEF s, t
<1>4. /\ SubSeq(s \o v, d.base + 1, Len(s) + Len(v)) = SubSeq(s, d.base + 1, Len(s)) \o v
      /\ SubSeq(s, d.base + 1, Len(s)) \in Seq(Segments)
  BY <1>1, SubSeqOfAppended
<1>5. Stream(d) = SubSeq(s, d.base + 1, Len(s))
  BY <1>1 DEF Stream, s
<1>6. Stream(e) = SubSeq(t, d.base + 1, Len(t))
  BY <1>3 DEF Stream, t
<1>7. Len(s) \in Nat
  BY <1>1, LenProperties
<1>8. Stream(e) = Stream(d) \o v /\ Stream(d) \in Seq(Segments)
  BY <1>2, <1>3, <1>4, <1>5, <1>6
<1>9. e.base <= Len(e.file) + Len(e.buf)
  <2> DEFINE a == Len(s)
             b == Len(v)
             c == d.base
  <2>1. a \in Nat /\ b \in Nat /\ c \in Nat /\ c <= a
    BY <1>1, <1>3, <1>7
  <2>2. e.base = c /\ Len(e.file) + Len(e.buf) = a + b
    BY <1>3
  <2> HIDE DEF a, b, c
  <2>3. c <= a + b
    BY <2>1
  <2> QED BY <2>2, <2>3, Zenon
<1> QED BY <1>8, <1>9

\* The bytes that reach the destination follow those that are there.
LEMMA FillDelivers ==
  ASSUME NEW d, IsDest(d), NEW units \in Seq(Segments), NEW j \in 0 .. Len(units),
         EachNeeded(d, Len(units), j), d.kind # "mem" \/ Enough(d, Len(units), j),
         NEW e, e = Fill(d, units, j)
  PROVE  /\ IsDest(e) /\ e.kind = d.kind /\ e.base = d.base /\ e.ready = d.ready
         /\ LET k == UnitsMoved(d, Len(units), j)
            IN  Stream(e) = Stream(d) \o SubSeq(units, 1, k)
<1> DEFINE k == UnitsMoved(d, Len(units), j)
           v == SubSeq(units, 1, k)
           all == d.buf \o v
<1>1. /\ k \in 0 .. Len(units)
      /\ d.kind # "mem" => /\ j * d.size \in 0 .. Len(d.buf) + k
                           /\ Len(d.buf) + k - j * d.size <= d.size
  BY Moved
<1>2. k = Min({Len(units), free_in_buffer(d) + Gain(d, j)})
  BY DEF UnitsMoved
<1> HIDE DEF k
<1>3. v \in Seq(Segments) /\ Len(v) = k
  BY <1>1, Cut
<1> HIDE DEF v
<1>4. all \in Seq(Segments) /\ Len(all) = Len(d.buf) + k /\ d.file \o all = (d.file \o d.buf) \o v
  <2>1. d.buf \in Seq(Segments) /\ d.file \in Seq(Segments)
    BY DEF IsDest
  <2>2. all \in Seq(Segments) /\ Len(all) = Len(d.buf) + k
    BY <1>3, <2>1, Joined
  <2>3. d.file \o all = (d.file \o d.buf) \o v
    <3> DEFINE x == d.file
               y == d.buf
    <3>1. x \in Seq(Segments) /\ y \in Seq(Segments)
      BY <2>1
    <3> HIDE DEF x, y
    <3>2. x \o (y \o v) = (x \o y) \o v
      BY <1>3, <3>1, Regrouped
    <3> QED BY <3>2 DEF x, y, all
  <2> QED BY <2>2, <2>3
<1> HIDE DEF all
<1>5. CASE d.kind = "mem"
  <2>1. e = [d EXCEPT !.buf = all, !.size = @ * 2^j]
    BY <1>2, <1>5 DEF Fill, all, v
  <2>2. 2^j \in Int /\ d.size * 2^j \in Int
    <3>1. 2^j \in Int
      OBVIOUS
    <3>2. \A x \in Int : d.size * x \in Int
      BY DEF IsDest
    <3> QED BY <3>1, <3>2
  <2> DEFINE size == d.size * 2^j
  <2>3. e = [d EXCEPT !.buf = all, !.size = size]
    BY <2>1
  <2>4. size \in Int
    BY <2>2
  <2> HIDE DEF size
  <2>5. /\ DOMAIN e = DOMAIN d /\ e.buf = all /\ e.file = d.file /\ e.base = d.base
        /\ e.kind = d.kind /\ e.ready = d.ready /\ e.size = size
    BY <2>3 DEF IsDest
  <2>6. Stream(e) = Stream(d) \o v /\ e.base <= Len(e.file) + Len(e.buf)
    <3>1. d.file \in Seq(Segments)
      BY DEF IsDest
    <3> QED BY <1>3, <1>4, <2>5, <3>1, StreamGrows
  <2>7. IsDest(e)
    BY <1>4, <1>5, <2>4, <2>5, <2>6 DEF IsDest
  <2> QED BY <2>5, <2>6, <2>7 DEF v, k
<1>6. CASE d.kind # "mem"
  <2> DEFINE c == j * d.size
             file == d.file \o SubSeq(all, 1, c)
             buf == SubSeq(all, c + 1, Len(all))
  <2>1. e = [d EXCEPT !.file = file, !.buf = buf]
    BY <1>2, <1>6 DEF Fill, all, v
  <2>2. c \in 0 .. Len(all) /\ Len(all) - c <= d.size
    BY <1>1, <1>4, <1>6
  <2>3. /\ SubSeq(all, 1, c) \in Seq(Segments) /\ buf \in Seq(Segments) /\ Len(buf) = Len(all) - c
        /\ SubSeq(all, 1, c) \o buf = all
    <3> HIDE DEF c
    <3> QED BY <1>4, <2>2, Cut
  <2>4. file \in Seq(Segments) /\ file \o buf = d.file \o all
    <3> HIDE DEF buf
    <3> DEFINE x == SubSeq(all, 1, c)
    <3>1. x \in Seq(Segments) /\ d.file \in Seq(Segments) /\ buf \in Seq(Segments)
      BY <2>3 DEF IsDest
    <3> HIDE DEF x
    <3>2. d.file \o x \in Seq(Segments)
      BY <3>1, Joined
    <3>3. d.file \o (x \o buf) = (d.file \o x) \o buf
      <4> DEFINE y == d.file
      <4>1. y \in Seq(Segments)
        BY <3>1
      <4> HIDE DEF y
      <4>2. y \o (x \o buf) = (y \o x) \o buf
        BY <3>1, <4>1, Regrouped, SMTT(30)
      <4> QED BY <4>2 DEF y
    <3> QED BY <2>3, <3>2, <3>3 DEF x
  <2> HIDE DEF file, buf
  <2>5. /\ DOMAIN e = DOMAIN d /\ e.buf = buf /\ e.file = file /\ e.base = d.base
        /\ e.kind = d.kind /\ e.ready = d.ready /\ e.size = d.size
    BY <2>1 DEF IsDest
  <2>6. Stream(e) = Stream(d) \o v /\ e.base <= Len(e.file) + Len(e.buf)
    BY <1>3, <1>4, <2>3, <2>4, <2>5, StreamGrows
  <2>7. IsDest(e)
    BY <1>6, <2>2, <2>3, <2>4, <2>5, <2>6 DEF IsDest
  <2> QED BY <2>5, <2>6, <2>7 DEF v, k
<1> QED BY <1>5, <1>6

\* term_destination and init_destination move no byte of the stream.
LEMMA EndKeepsTheStream ==
  ASSUME NEW d, IsDest(d), NEW e, e = term_destination(d)
  PROVE  IsDest(e) /\ e.kind = d.kind /\ Stream(e) = Stream(d)
<1>1. CASE d.kind = "mem"
  BY <1>1 DEF term_destination
<1>2. CASE d.kind # "mem"
  <2> DEFINE f == d.file \o d.buf
  <2>1. /\ d.file \in Seq(Segments) /\ d.buf \in Seq(Segments)
        /\ f \in Seq(Segments) /\ Len(f) = Len(d.file) + Len(d.buf)
    BY Joined DEF IsDest
  <2>2. <<>> \in Seq(Segments) /\ Len(<<>>) = 0 /\ f \o <<>> = f /\ Len(f) \in Nat
    BY <2>1, ConcatEmptySeq, EmptySeq, LenProperties
  <2>3. e = [d EXCEPT !.file = f, !.buf = <<>>]
    BY <1>2 DEF term_destination
  <2> HIDE DEF f
  <2>4. /\ DOMAIN e = DOMAIN d /\ e.buf = <<>> /\ e.file = f /\ e.base = d.base
        /\ e.kind = d.kind /\ e.ready = d.ready /\ e.size = d.size
    BY <2>3 DEF IsDest
  <2>5. Stream(e) = SubSeq(f, d.base + 1, Len(f))
    <3>1. Len(e.file) + Len(e.buf) = Len(f) /\ e.file \o e.buf = f
      BY <2>2, <2>4
    <3> QED BY <2>4, <3>1 DEF Stream
  <2>6. Stream(d) = SubSeq(f, d.base + 1, Len(f))
    BY <2>1 DEF Stream, f
  <2>7. d.base \in Nat /\ d.base <= Len(f) /\ d.size \in Nat
    BY <1>2, <2>1 DEF IsDest
  <2> HIDE DEF f
  <2>8. IsDest(e)
    BY <2>1, <2>2, <2>4, <2>7 DEF IsDest
  <2> QED BY <2>4, <2>5, <2>6, <2>8
<1> QED BY <1>1, <1>2

LEMMA StreamBegins ==
  ASSUME NEW d, IsDest(d), NEW e, e = init_destination(d)
  PROVE  IsDest(e) /\ e.kind = d.kind /\ Stream(e) = <<>>
<1> DEFINE b == IF d.kind = "mem" THEN d.buf ELSE <<>>
           n == Len(b)
<1>1. b \in Seq(Segments) /\ <<>> \in Seq(Segments) /\ n \in Nat
  BY EmptySeq, LenProperties DEF IsDest
<1>2. d.kind # "mem" => n <= d.size
  BY DEF IsDest
<1>3. e = [d EXCEPT !.buf = b, !.base = n, !.file = <<>>, !.ready = FALSE]
  BY DEF init_destination, IsDest
<1> HIDE DEF b
<1>4. /\ DOMAIN e = DOMAIN d /\ e.buf = b /\ e.file = <<>> /\ e.base = n
      /\ e.kind = d.kind /\ e.size = d.size
  <2> HIDE DEF n
  <2> QED BY <1>3 DEF IsDest
<1>5. Len(<<>>) = 0 /\ <<>> \o b = b
  BY <1>1, ConcatEmptySeq
<1>6. Stream(e) = SubSeq(b, n + 1, n)
  BY <1>1, <1>4, <1>5 DEF Stream
<1>7. SubSeq(b, n + 1, n) = <<>>
  <2> HIDE DEF n
  <2> QED BY <1>1, SubSeqEmpty
<1>8. IsDest(e)
  <2>1. d.size \in Int /\ (d.kind # "mem" => d.size \in Nat)
    BY DEF IsDest
  <2>2. e.base <= Len(e.file) + Len(e.buf)
    BY <1>1, <1>4, <1>5
  <2> QED BY <1>1, <1>2, <1>4, <2>1, <2>2 DEF IsDest
<1> QED BY <1>4, <1>6, <1>7, <1>8

\* Everything goes out, or an error is raised.
LEMMA OutputDelivers ==
  ASSUME NEW d, IsDest(d), NEW units \in Seq(Segments), NEW last \in BOOLEAN, NEW ok \in BOOLEAN,
         WriteOutput(d, units, last, ok)
  PROVE  /\ IsDest(dest') /\ dest'.kind = d.kind /\ failed' = ~ok
         /\ ok => Stream(dest') = Stream(d) \o units
<1> DEFINE n == Len(units)
<1>1. PICK j \in 0 .. n :
        /\ EachNeeded(d, n, j)
        /\ ok => Enough(d, n, j)
        /\ ok \/ d.kind # "mem"
        /\ dest' = IF ok /\ last THEN term_destination(Fill(d, units, j)) ELSE Fill(d, units, j)
        /\ failed' = ~ok
  BY DEF WriteOutput
<1> DEFINE e == Fill(d, units, j)
           k == UnitsMoved(d, n, j)
<1>2. n \in Nat /\ SubSeq(units, 1, n) = units
  BY LenProperties, SubSeqFull
<1>3. Enough(d, n, j) => k = n
  <2>1. SUFFICES ASSUME Enough(d, n, j) PROVE k = n
    OBVIOUS
  <2> HIDE DEF n, k
  <2> QED BY <1>1, <1>2, <2>1, Moved DEF k
<1>4. /\ IsDest(e) /\ e.kind = d.kind
      /\ Stream(e) = Stream(d) \o SubSeq(units, 1, k)
  BY <1>1, FillDelivers
<1>5. ok => Stream(e) = Stream(d) \o units
  BY <1>1, <1>2, <1>3, <1>4
<1> HIDE DEF e
<1>6. CASE ok /\ last
  BY <1>1, <1>4, <1>5, <1>6, EndKeepsTheStream DEF e
<1>7. CASE ~(ok /\ last)
  BY <1>1, <1>4, <1>5, <1>7 DEF e
<1> QED BY <1>1, <1>6, <1>7

-----------------------------------------------------------------------------
(* The bit writer.                                                         *)

Pending(s) == SubSeq(s.bw, s.output_pos + 1, Len(s.bw))

IsWriter(s) == s.bw \in Seq(Segments) /\ s.output_pos \in 0 .. Len(s.bw)

\* What coding rows leaves alone, and emptying the buffer too but for output_pos.
SameHeader(s, t) == t.markers = s.markers /\ t.used = s.used
SameWriter(s, t) == SameHeader(s, t) /\ t.output_pos = s.output_pos

\* A part of what follows a place.
LEMMA RestOfRest ==
  ASSUME NEW S, NEW s \in Seq(S), NEW a \in 0 .. Len(s), NEW k \in 0 .. Len(s) - a
  PROVE  SubSeq(SubSeq(s, a + 1, Len(s)), k + 1, Len(s) - a) = SubSeq(s, a + k + 1, Len(s))
<1> DEFINE n == Len(s)
           r == SubSeq(s, a + 1, n)
           x == SubSeq(r, k + 1, n - a)
           y == SubSeq(s, a + k + 1, n)
<1>1. n \in Nat /\ a \in Nat /\ k \in Nat /\ a + k <= n /\ \A i \in 1 .. n : s[i] \in S
  OBVIOUS
<1> HIDE DEF n
<1>2. /\ r \in Seq(S) /\ Len(r) = n - a /\ \A i \in 1 .. n - a : r[i] = s[a + i]
  <2>1. \A i \in a + 1 .. n : s[i] \in S
    BY <1>1
  <2> QED BY <1>1, <2>1, SubSeqProperties
<1> HIDE DEF r
<1>3. /\ x \in Seq(S) /\ Len(x) = n - a - k /\ \A i \in 1 .. n - a - k : x[i] = r[k + i]
  <2>1. \A i \in k + 1 .. n - a : r[i] \in S
    BY <1>1, <1>2
  <2> QED BY <1>1, <2>1, SubSeqProperties
<1>4. /\ y \in Seq(S) /\ Len(y) = n - a - k /\ \A i \in 1 .. n - a - k : y[i] = s[a + k + i]
  <2>1. \A i \in a + k + 1 .. n : s[i] \in S
    BY <1>1
  <2> QED BY <1>1, <2>1, SubSeqProperties
<1> HIDE DEF x, y
<1>5. ASSUME NEW i \in 1 .. Len(x) PROVE x[i] = y[i]
  <2>1. i \in 1 .. n - a - k /\ k + i \in 1 .. n - a
    BY <1>1, <1>3
  <2>2. x[i] = s[a + (k + i)]
    BY <1>2, <1>3, <2>1
  <2>3. y[i] = s[a + k + i] /\ a + (k + i) = a + k + i
    BY <1>1, <1>4, <2>1
  <2> QED BY <2>2, <2>3
<1>6. x = y
  BY <1>3, <1>4, <1>5, SeqEqual
<1> QED BY <1>6 DEF x, y, r, n

\* The buffer of the bit writer and the destination hold the same bytes after each
\* attempt to empty it: none is lost, none goes out twice.
LEMMA WriterDelivers ==
  ASSUME IsDest(dest), NEW s, IsMaster(s), IsWriter(s), NEW ok \in BOOLEAN,
         EmptyBitWriterBuffer(s, ok)
  PROVE  /\ IsDest(dest') /\ dest'.kind = dest.kind /\ IsWriter(m') /\ SameHeader(s, m')
         /\ m'.next_iMCU_row = s.next_iMCU_row
         /\ Stream(dest') \o Pending(m') = Stream(dest) \o Pending(s)
         /\ Stream(dest') \in Seq(Segments) /\ Pending(m') \in Seq(Segments)
<1> DEFINE v == Pending(s)
           n == Len(v)
           a == s.output_pos
           L == Len(s.bw)
<1>1. L \in Nat /\ a \in Nat /\ a <= L /\ v \in Seq(Segments) /\ n = L - a /\ n \in Nat
  <2>1. s.bw \in Seq(Segments) /\ a \in 0 .. L /\ L \in Nat
    BY LenProperties DEF IsWriter
  <2> QED BY <2>1, Cut DEF Pending
<1>2. PICK j \in 0 .. n :
        /\ EachNeeded(dest, n, j)
        /\ ok = Enough(dest, n, j)
        /\ ok \/ dest.kind # "mem"
        /\ dest' = Fill(dest, v, j)
        /\ m' = IF ok THEN [s EXCEPT !.bw = <<>>, !.output_pos = 0]
                ELSE [s EXCEPT !.output_pos = @ + UnitsMoved(dest, n, j)]
  BY DEF EmptyBitWriterBuffer, Pending
<1> DEFINE k == UnitsMoved(dest, n, j)
           w == SubSeq(v, 1, k)
<1>3. k \in 0 .. n /\ (ok => k = n)
  <2> HIDE DEF n, k
  <2> QED BY <1>1, <1>2, Moved DEF k
<1>4. IsDest(dest') /\ dest'.kind = dest.kind /\ Stream(dest') = Stream(dest) \o w
  BY <1>1, <1>2, FillDelivers
<1>5. /\ w \in Seq(Segments) /\ SubSeq(v, k + 1, n) \in Seq(Segments)
      /\ w \o SubSeq(v, k + 1, n) = v
  <2> HIDE DEF v, k
  <2> QED BY <1>1, <1>3, Cut
<1>6. Stream(dest) \in Seq(Segments)
  <2>1. /\ dest.file \o dest.buf \in Seq(Segments)
        /\ Len(dest.file \o dest.buf) = Len(dest.file) + Len(dest.buf)
        /\ dest.base \in 0 .. Len(dest.file) + Len(dest.buf)
    BY Joined DEF IsDest
  <2> QED BY <2>1, Cut DEF Stream
<1>7. m'.next_iMCU_row = s.next_iMCU_row /\ SameHeader(s, m')
  BY <1>2 DEF IsMaster, SameHeader
<1>8. IsWriter(m') /\ Pending(m') = SubSeq(v, k + 1, n)
  <2>1. CASE ok
    <3>1. m'.bw = <<>> /\ m'.output_pos = 0
      BY <1>2, <2>1 DEF IsMaster
    <3>2. <<>> \in Seq(Segments) /\ Len(<<>>) = 0
      BY EmptySeq
    <3>3. Pending(m') = <<>>
      <4>1. SubSeq(<<>>, 1, 0) = <<>>
        BY SubSeqEmpty
      <4> QED BY <3>1, <3>2, <4>1 DEF Pending
    <3>4. SubSeq(v, k + 1, n) = <<>>
      <4> HIDE DEF n, k, v
      <4> QED BY <1>1, <1>3, <2>1, SubSeqEmpty
    <3>5. IsWriter(m')
      <4>1. Len(m'.bw) = 0 /\ 0 \in 0 .. 0
        BY <3>1, <3>2
      <4> QED BY <3>1, <3>2, <4>1, Zenon DEF IsWriter
    <3> QED BY <3>3, <3>4, <3>5, Zenon
  <2>2. CASE ~ok
    <3>1. m'.bw = s.bw /\ m'.output_pos = a + k
      <4> HIDE DEF k
      <4> QED BY <1>2, <2>2 DEF IsMaster, k
    <3>2. Pending(m') = SubSeq(s.bw, a + k + 1, L)
      BY <3>1 DEF Pending
    <3>3. SubSeq(v, k + 1, n) = SubSeq(SubSeq(s.bw, a + 1, L), k + 1, L - a)
      BY <1>1 DEF Pending
    <3>4. s.bw \in Seq(Segments) /\ a \in 0 .. L /\ k \in 0 .. L - a
      BY <1>1, <1>3 DEF IsWriter
    <3>5. SubSeq(SubSeq(s.bw, a + 1, L), k + 1, L - a) = SubSeq(s.bw, a + k + 1, L)
      <4> HIDE DEF a, k
      <4> QED BY <3>4, RestOfRest
    <3>6. a + k \in 0 .. L
      <4> HIDE DEF a, k, L, n, v
      <4> QED BY <1>1, <3>4
    <3> QED BY <3>1, <3>2, <3>3, <3>4, <3>5, <3>6 DEF IsWriter
  <2> QED BY <2>1, <2>2
<1>9. Stream(dest') \o Pending(m') = Stream(dest) \o v /\ Stream(dest') \in Seq(Segments)
  <2> DEFINE x == Stream(dest)
             r == SubSeq(v, k + 1, n)
  <2> HIDE DEF x, r, v, w, k, n
  <2>1. x \in Seq(Segments) /\ w \in Seq(Segments) /\ r \in Seq(Segments)
    BY <1>5, <1>6 DEF x, r
  <2>2. x \o (w \o r) = (x \o w) \o r /\ x \o w \in Seq(Segments)
    BY <2>1, Regrouped, Joined
  <2> QED BY <1>4, <1>5, <1>8, <2>2 DEF x, r
<1> QED BY <1>4, <1>5, <1>7, <1>8, <1>9

-----------------------------------------------------------------------------
(* The units of the coded rows.                                            *)

LEMMA AreSegments ==
  /\ \A q \in Int : \A i \in Int : <<"row", q, i>> \in Segments
  /\ \A a \in Int : /\ Seg("SOI", a) \in Segments /\ Seg("APP", a) \in Segments
                    /\ Seg("SOF", a) \in Segments /\ Seg("SOS", a) \in Segments
                    /\ Seg("scan", a) \in Segments /\ Seg("EOI", a) \in Segments
  /\ Seg("DHT", "own") \in Segments /\ Seg("DHT", "fixed") \in Segments
  /\ \A i \in Int, q \in Int : <<"DQT", i, q>> \in Segments
<1>1. ASSUME NEW k \in Kinds, NEW a \in {"own", "fixed"} \cup Int, NEW b \in Int
      PROVE  <<k, a, b>> \in Segments
  BY DEF Segments
<1>2. ASSUME NEW k \in Kinds, NEW a \in {"own", "fixed"} \cup Int
      PROVE  Seg(k, a) \in Segments
  <2>1. 0 \in Int
    OBVIOUS
  <2> QED BY <1>1, <2>1 DEF Seg
<1> QED BY <1>1, <1>2 DEF Kinds

LEMMA RowUnit ==
  ASSUME NEW q, NEW i \in {1, 2}
  PROVE  RowUnits(q)[i] = <<"row", q, i>>
BY DEF RowUnits

LEMMA RowUnitsAre ==
  ASSUME NEW r \in Nat
  PROVE  /\ RowUnits(r) \in Seq(Segments) /\ Len(RowUnits(r)) = 2
         /\ RowUnits(r)[1] = <<"row", r, 1>> /\ RowUnits(r)[2] = <<"row", r, 2>>
<1> DEFINE a == <<"row", r, 1>>
           b == <<"row", r, 2>>
<1>1. a \in Segments /\ b \in Segments
  BY AreSegments
<1> HIDE DEF a, b
<1>2. /\ <<a, b>> \in Seq(Segments) /\ Len(<<a, b>>) = 2
      /\ <<a, b>>[1] = a /\ <<a, b>>[2] = b
  BY <1>1
<1> QED BY <1>2 DEF RowUnits, a, b

LEMMA RowsGrow ==
  ASSUME NEW r \in Nat
  PROVE  /\ RowsOfUnits(r) \in Seq(Segments) /\ Len(RowsOfUnits(r)) = 2 * r
         /\ RowUnits(r) \in Seq(Segments)
         /\ RowsOfUnits(r + 1) = RowsOfUnits(r) \o RowUnits(r)
<1> DEFINE Of(k) == RowUnits((k - 1) \div 2)[((k - 1) % 2) + 1]
           x == RowsOfUnits(r)
           y == RowsOfUnits(r + 1)
           u == RowUnits(r)
           z == x \o u
<1>1. ASSUME NEW k \in Nat \ {0}
      PROVE  /\ Of(k) \in Segments
             /\ \A q \in Nat : k = 2 * q + 1 => Of(k) = <<"row", q, 1>>
             /\ \A q \in Nat : k = 2 * q + 2 => Of(k) = <<"row", q, 2>>
  <2> DEFINE i == ((k - 1) % 2) + 1
             q == (k - 1) \div 2
  <2>1. i \in {1, 2} /\ q \in Int
    OBVIOUS
  <2>2. \A p \in Nat : /\ k = 2 * p + 1 => (q = p /\ i = 1)
                       /\ k = 2 * p + 2 => (q = p /\ i = 2)
    OBVIOUS
  <2> HIDE DEF i, q
  <2>3. RowUnits(q)[i] = <<"row", q, i>> /\ <<"row", q, i>> \in Segments
    <3>1. i \in Int
      BY <2>1
    <3>2. <<"row", q, i>> \in Segments
      BY <2>1, <3>1, AreSegments
    <3> QED BY <2>1, <3>2, RowUnit
  <2> QED BY <2>2, <2>3 DEF i, q
<1>2. ASSUME NEW n \in Nat
      PROVE  RowsOfUnits(n) = [k \in 1 .. 2 * n |-> Of(k)]
  BY DEF RowsOfUnits
<1> HIDE DEF Of
<1>3. ASSUME NEW n \in Nat
      PROVE  /\ RowsOfUnits(n) \in Seq(Segments) /\ Len(RowsOfUnits(n)) = 2 * n
             /\ \A k \in 1 .. 2 * n : RowsOfUnits(n)[k] = Of(k)
  <2> DEFINE l == 2 * n
  <2>1. l \in Nat /\ \A k \in 1 .. l : k \in Nat \ {0}
    OBVIOUS
  <2>2. RowsOfUnits(n) = [k \in 1 .. l |-> Of(k)]
    BY <1>2
  <2> HIDE DEF l
  <2>3. \A k \in 1 .. l : Of(k) \in Segments
    BY <1>1, <2>1
  <2>4. /\ RowsOfUnits(n) \in Seq(Segments) /\ Len(RowsOfUnits(n)) = l
        /\ \A k \in 1 .. l : RowsOfUnits(n)[k] = Of(k)
    BY <2>1, <2>2, <2>3
  <2> QED BY <2>4 DEF l
<1>4. u \in Seq(Segments) /\ Len(u) = 2 /\ u[1] = <<"row", r, 1>> /\ u[2] = <<"row", r, 2>>
  BY RowUnitsAre
<1>5. /\ x \in Seq(Segments) /\ Len(x) = 2 * r /\ \A k \in 1 .. 2 * r : x[k] = Of(k)
      /\ y \in Seq(Segments) /\ Len(y) = 2 * r + 2 /\ \A k \in 1 .. 2 * r + 2 : y[k] = Of(k)
  <2>1. 2 * (r + 1) = 2 * r + 2 /\ r + 1 \in Nat
    OBVIOUS
  <2> QED BY <1>3, <2>1
<1> HIDE DEF x, y, u
<1>6. /\ z \in Seq(Segments) /\ Len(z) = Len(x) + Len(u)
      /\ \A k \in 1 .. Len(x) + Len(u) : z[k] = IF k <= Len(x) THEN x[k] ELSE u[k - Len(x)]
  BY <1>4, <1>5, ConcatProperties
<1>7. ASSUME NEW k \in 1 .. 2 * r + 2 PROVE y[k] = z[k]
  <2>1. y[k] = Of(k) /\ k \in Nat \ {0} /\ k \in 1 .. Len(x) + Len(u)
    BY <1>4, <1>5
  <2> DEFINE o == Of(k)
             a(q) == <<"row", q, 1>>
             b(q) == <<"row", q, 2>>
  <2>6. (k = 2 * r + 1 => o = a(r)) /\ (k = 2 * r + 2 => o = b(r))
    BY <1>1, <2>1
  <2> HIDE DEF o
  <2>2. CASE k <= 2 * r
    BY <1>4, <1>5, <1>6, <2>1, <2>2
  <2>3. CASE k = 2 * r + 1
    <3>1. k - Len(x) = 1 /\ ~(k <= Len(x))
      BY <1>5, <2>3
    <3>2. Of(k) = <<"row", r, 1>>
      BY <2>6, <2>3 DEF o
    <3>3. z[k] = u[1]
      BY <1>6, <2>1, <3>1
    <3> QED BY <1>4, <2>1, <3>2, <3>3
  <2>4. CASE k = 2 * r + 2
    <3>1. k - Len(x) = 2 /\ ~(k <= Len(x))
      BY <1>5, <2>4
    <3>2. Of(k) = <<"row", r, 2>>
      BY <2>6, <2>4 DEF o
    <3>3. z[k] = u[2]
      BY <1>6, <2>1, <3>1
    <3> QED BY <1>4, <2>1, <3>2, <3>3
  <2>5. k <= 2 * r \/ k = 2 * r + 1 \/ k = 2 * r + 2
    OBVIOUS
  <2> QED BY <2>2, <2>3, <2>4, <2>5
<1>8. y = z
  <2> HIDE DEF z
  <2>1. Len(y) = Len(z) /\ Len(y) = 2 * r + 2
    BY <1>4, <1>5, <1>6
  <2>2. \A k \in 1 .. Len(y) : y[k] = z[k]
    BY <1>7, <2>1
  <2> QED BY <1>5, <1>6, <2>1, <2>2, SeqEqual
<1> QED BY <1>4, <1>5, <1>8 DEF x, y, u

LEMMA WriterFields ==
  ASSUME NEW p, NEW s, IsMaster(s), NEW t
  PROVE  /\ t = ApplyInputSmoothing(p, s) => SameWriter(s, t)
         /\ t = DownsampleInputBuffer(p, s) => SameWriter(s, t)
         /\ t = PadInputBuffer(p, s) => SameWriter(s, t)
         /\ t = ReadRawRows(p, s) => SameWriter(s, t)
         /\ \A line : t = ReadInputRow(p, s, line) => SameWriter(s, t)
<1> USE DEF SameWriter, SameHeader, IsMaster
<1>1. t = ApplyInputSmoothing(p, s) => SameWriter(s, t)
  BY DEF ApplyInputSmoothing
<1>2. t = DownsampleInputBuffer(p, s) => SameWriter(s, t)
  BY DEF DownsampleInputBuffer
<1>3. t = PadInputBuffer(p, s) => SameWriter(s, t)
  BY DEF PadInputBuffer
<1>4. t = ReadRawRows(p, s) => SameWriter(s, t)
  BY DEF ReadRawRows
<1>5. \A line : t = ReadInputRow(p, s, line) => SameWriter(s, t)
  BY DEF ReadInputRow
<1> QED BY <1>1, <1>2, <1>3, <1>4, <1>5

LEMMA QuantizerFields ==
  ASSUME NEW p, NEW s, IsMaster(s), NEW t, t = ComputeAdaptiveQuantField(p, s)
  PROVE  SameWriter(s, t)
<1>1. CASE ~s.use_adaptive_quantization
  BY <1>1 DEF ComputeAdaptiveQuantField, SameWriter, SameHeader
<1>2. CASE s.use_adaptive_quantization
  <2> DEFINE s1 == [s EXCEPT !.input_buffer[p.ychan] = CopyBorders(p, s, @)]
             e == ComputePreErosion(p, s1)
             b == [s.input_buffer EXCEPT ![p.ychan] = CopyBorders(p, s, s.input_buffer[p.ychan])]
  <2>1. t = [s1 EXCEPT !.pre_erosion = e] /\ s1 = [s EXCEPT !.input_buffer = b]
    BY <1>2 DEF ComputeAdaptiveQuantField
  <2> HIDE DEF s1, e, b
  <2> QED BY <2>1 DEF SameWriter, SameHeader, IsMaster
<1> QED BY <1>1, <1>2

LEMMA CodingFields ==
  ASSUME NEW p, NEW s, IsMaster(s), NEW density, NEW t, t = EncodeiMCURow(p, s, density)
  PROVE  SameWriter(s, t)
<1> USE DEF SameWriter, SameHeader, IsMaster
<1>1. CASE WritesBits(p)
  <2>1. t = [s EXCEPT !.bw = @ \o RowUnits(s.next_iMCU_row)]
    BY <1>1 DEF EncodeiMCURow, WritesBits
  <2> QED BY <2>1
<1>2. CASE ~WritesBits(p) /\ IsStreamingSupported(p) /\ p.optimize
  <2> DEFINE u == ReserveTokens(p, s)
             x == density * blocks_per_iMCU_row(p)
  <2>1. t = [u EXCEPT !.ta_num_tokens = @ + x]
    BY <1>2 DEF EncodeiMCURow
  <2>2. SameWriter(s, u) /\ IsMaster(u)
    <3> DEFINE a == s.total_num_tokens + (IF s.allocated THEN s.ta_num_tokens ELSE 0)
               b == EstimateNumTokens(s.next_iMCU_row, total_iMCU_rows(p), a,
                                      MaxNumTokensPerMCURow(p))
               c == IF s.allocated THEN s.cur_token_array + 1 ELSE s.cur_token_array
    <3>1. u \in {s, [s EXCEPT !.total_num_tokens = a, !.cur_token_array = c,
                              !.num_tokens = b, !.ta_num_tokens = 0, !.allocated = TRUE]}
      BY DEF ReserveTokens
    <3> HIDE DEF a, b, c, u
    <3> QED BY <3>1
  <2> HIDE DEF u, x
  <2> QED BY <2>1, <2>2
<1>3. CASE ~WritesBits(p) /\ ~(IsStreamingSupported(p) /\ p.optimize)
  BY <1>3 DEF EncodeiMCURow
<1> QED BY <1>1, <1>2, <1>3

\* The units x that have gone out, with those in the bit writer after them, are the
\* units y and those of the coded rows.
Wrote(p, x, y, s) ==
  /\ IsWriter(s) /\ s.next_iMCU_row \in Nat
  /\ x \o Pending(s) = IF WritesBits(p) THEN y \o RowsOfUnits(s.next_iMCU_row) ELSE y

LEMMA PendingGrows ==
  ASSUME NEW s, IsWriter(s), NEW u \in Seq(Segments), NEW t,
         t.bw = s.bw \o u, t.output_pos = s.output_pos
  PROVE  IsWriter(t) /\ Pending(t) = Pending(s) \o u /\ Pending(s) \in Seq(Segments)
<1> DEFINE v == s.bw
           w == v \o u
           a == s.output_pos
<1>1. v \in Seq(Segments) /\ a \in 0 .. Len(v) /\ Len(v) \in Nat
  BY LenProperties DEF IsWriter
<1> HIDE DEF v
<1>2. w \in Seq(Segments) /\ Len(w) = Len(v) + Len(u) /\ Len(u) \in Nat
  BY <1>1, Joined
<1>3. /\ SubSeq(w, a + 1, Len(v) + Len(u)) = SubSeq(v, a + 1, Len(v)) \o u
      /\ SubSeq(v, a + 1, Len(v)) \in Seq(Segments)
  <2> HIDE DEF a
  <2>1. a \in Nat /\ a <= Len(v)
    BY <1>1
  <2> QED BY <1>1, <2>1, SubSeqOfAppended
<1>4. t.bw = w /\ t.output_pos = a
  BY DEF v
<1> HIDE DEF w, a
<1>5. Pending(t) = SubSeq(w, a + 1, Len(v) + Len(u))
  BY <1>2, <1>4 DEF Pending
<1>6. Pending(s) = SubSeq(v, a + 1, Len(v))
  BY DEF Pending, v, a
<1>7. a \in 0 .. Len(w)
  BY <1>1, <1>2
<1> QED BY <1>2, <1>3, <1>4, <1>5, <1>6, <1>7 DEF IsWriter

\* Reading lines and copying rows writes nothing.
LEMMA WroteNothing ==
  ASSUME NEW p, NEW x, NEW y, NEW s, Wrote(p, x, y, s), NEW t, t.bw = s.bw,
         t.output_pos = s.output_pos, t.next_iMCU_row = s.next_iMCU_row
  PROVE  Wrote(p, x, y, t)
BY DEF Wrote, IsWriter, Pending

LEMMA RowIsWritten ==
  ASSUME NEW p, NEW x \in Seq(Segments), NEW y \in Seq(Segments), NEW s, Wrote(p, x, y, s),
         NEW t, t.output_pos = s.output_pos, t.next_iMCU_row = s.next_iMCU_row + 1,
         t.bw = IF WritesBits(p) THEN s.bw \o RowUnits(s.next_iMCU_row) ELSE s.bw
  PROVE  Wrote(p, x, y, t)
<1> DEFINE r == s.next_iMCU_row
           u == RowUnits(r)
           v == Pending(s)
           w == RowsOfUnits(r)
<1>1. IsWriter(s) /\ r \in Nat /\ x \o v = IF WritesBits(p) THEN y \o w ELSE y
  BY DEF Wrote
<1>2. CASE WritesBits(p)
  <2>1. u \in Seq(Segments) /\ w \in Seq(Segments) /\ RowsOfUnits(r + 1) = w \o u
    BY <1>1, RowsGrow
  <2>2. IsWriter(t) /\ Pending(t) = v \o u /\ v \in Seq(Segments)
    <3>1. t.bw = s.bw \o u
      BY <1>2
    <3> HIDE DEF u
    <3> QED BY <1>1, <2>1, <3>1, PendingGrows
  <2>3. x \o (v \o u) = y \o (w \o u)
    <3> HIDE DEF u, v, w
    <3>1. x \o (v \o u) = (x \o v) \o u /\ y \o (w \o u) = (y \o w) \o u
      BY <2>1, <2>2, SameUnits, Zenon
    <3> QED BY <1>1, <1>2, <3>1
  <2>4. t.next_iMCU_row = r + 1 /\ r + 1 \in Nat
    BY <1>1
  <2> HIDE DEF r, u, v, w
  <2> QED BY <1>2, <2>1, <2>2, <2>3, <2>4 DEF Wrote
<1>3. CASE ~WritesBits(p)
  <2>1. t.bw = s.bw /\ t.next_iMCU_row \in Nat
    BY <1>1, <1>3
  <2>2. IsWriter(t) /\ Pending(t) = v
    BY <1>1, <2>1 DEF IsWriter, Pending
  <2> QED BY <1>1, <1>3, <2>1, <2>2 DEF Wrote
<1> QED BY <1>2, <1>3

\* The buffers of an encoder that has all components.
Usable(p, s) == IsMaster(s) /\ DOMAIN s.input_buffer = Comps(p) /\ p.ychan \in Comps(p)

LEMMA WroteRow ==
  ASSUME NEW p, NEW x \in Seq(Segments), NEW y \in Seq(Segments), NEW s, Usable(p, s),
         Wrote(p, x, y, s), NEW density, NEW t, t = ProcessiMCURow(p, s, density)
  PROVE  Usable(p, t) /\ Wrote(p, x, y, t) /\ SameHeader(s, t)
<1> DEFINE sm == ApplyInputSmoothing(p, s)
           dn == DownsampleInputBuffer(p, sm)
           aq == ComputeAdaptiveQuantField(p, dn)
           en == EncodeiMCURow(p, aq, density)
<1>1. /\ SameCoding(s, sm) /\ SameWriter(s, sm) /\ IsMaster(sm)
      /\ DOMAIN sm.input_buffer = Comps(p)
  BY SmoothingFields, WriterFields DEF Usable, SameCoding
<1> HIDE DEF sm
<1>2. /\ SameCoding(sm, dn) /\ SameWriter(sm, dn) /\ IsMaster(dn)
      /\ DOMAIN dn.input_buffer = Comps(p)
  BY <1>1, DownsampleFields, WriterFields DEF SameCoding
<1> HIDE DEF dn
<1>3. /\ IsMaster(aq) /\ aq.next_iMCU_row = dn.next_iMCU_row /\ aq.bw = dn.bw
      /\ SameWriter(dn, aq) /\ DOMAIN aq.input_buffer = Comps(p)
  BY <1>2, AdaptiveQuantFields, QuantizerFields DEF Usable
<1> HIDE DEF aq
<1>4. Encoded(p, aq, en) /\ SameWriter(aq, en)
  BY <1>3, EncodeFields, CodingFields
<1>5. \E right : t = [en EXCEPT !.right = right, !.next_iMCU_row = @ + 1]
  BY DEF ProcessiMCURow, sm, dn, aq
<1> HIDE DEF en
<1>6. /\ IsMaster(t) /\ t.next_iMCU_row = en.next_iMCU_row + 1 /\ t.bw = en.bw
      /\ t.input_buffer = en.input_buffer
      /\ SameWriter(en, t)
  BY <1>4, <1>5 DEF Encoded, IsMaster, SameWriter, SameHeader
<1>7. /\ t.output_pos = s.output_pos /\ t.next_iMCU_row = s.next_iMCU_row + 1
      /\ t.bw = IF WritesBits(p) THEN s.bw \o RowUnits(s.next_iMCU_row) ELSE s.bw
      /\ SameHeader(s, t) /\ DOMAIN t.input_buffer = Comps(p)
  BY <1>1, <1>2, <1>3, <1>4, <1>6 DEF SameCoding, SameWriter, SameHeader, Encoded
<1>8. Wrote(p, x, y, t)
  BY <1>7, RowIsWritten
<1> QED BY <1>6, <1>7, <1>8 DEF Usable

LEMMA WroteRows ==
  ASSUME NEW p, NEW x \in Seq(Segments), NEW y \in Seq(Segments), NEW s, Usable(p, s),
         Wrote(p, x, y, s), NEW density, NEW t, t = ProcessiMCURows(p, s, density)
  PROVE  Usable(p, t) /\ Wrote(p, x, y, t) /\ SameHeader(s, t)
<1> DEFINE u == ProcessiMCURow(p, s, density)
           s1 == IF s.next_input_row % iMCU_height(p) = 0 /\ s.next_input_row > iMCU_height(p)
                 THEN u ELSE s
<1>1. Usable(p, s1) /\ Wrote(p, x, y, s1) /\ SameHeader(s, s1)
  <2>1. Usable(p, u) /\ Wrote(p, x, y, u) /\ SameHeader(s, u)
    BY WroteRow
  <2> HIDE DEF u
  <2> QED BY <2>1 DEF SameHeader
<1>2. t = IF s.next_input_row >= p.height THEN ProcessiMCURow(p, s1, density) ELSE s1
  BY DEF ProcessiMCURows
<1> HIDE DEF s1
<1>3. CASE s.next_input_row >= p.height
  <2>1. t = ProcessiMCURow(p, s1, density) /\ Usable(p, s1) /\ Wrote(p, x, y, s1)
    BY <1>1, <1>2, <1>3
  <2>2. Usable(p, t) /\ Wrote(p, x, y, t) /\ SameHeader(s1, t)
    BY <2>1, WroteRow
  <2> QED BY <1>1, <2>2, Zenon DEF SameHeader
<1>4. CASE ~(s.next_input_row >= p.height)
  BY <1>1, <1>2, <1>4
<1> QED BY <1>3, <1>4

-----------------------------------------------------------------------------
(* The tables, and what is sent of them.                                   *)

LEMMA InJoined ==
  ASSUME NEW a \in Seq(Segments), NEW b \in Seq(Segments)
  PROVE  ToSet(a \o b) = ToSet(a) \cup ToSet(b)
<1> DEFINE c == a \o b
           A == Len(a)
           B == Len(b)
<1>1. /\ c \in Seq(Segments) /\ Len(c) = A + B /\ A \in Nat /\ B \in Nat
      /\ \A i \in 1 .. A + B : c[i] = IF i <= A THEN a[i] ELSE b[i - A]
  BY ConcatProperties, LenProperties
<1>2. DOMAIN a = 1 .. A /\ DOMAIN b = 1 .. B /\ DOMAIN c = 1 .. A + B
  BY <1>1, LenProperties
<1> HIDE DEF c, A, B
<1>3. \A i \in 1 .. A : i \in 1 .. A + B /\ c[i] = a[i]
  BY <1>1
<1>4. \A i \in 1 .. B : A + i \in 1 .. A + B /\ c[A + i] = b[i]
  BY <1>1
<1>5. \A i \in 1 .. A + B : \/ i \in 1 .. A /\ c[i] = a[i]
                            \/ i - A \in 1 .. B /\ c[i] = b[i - A]
  BY <1>1
<1>6. ToSet(c) \subseteq ToSet(a) \cup ToSet(b)
  BY <1>2, <1>5 DEF ToSet
<1>7. ToSet(a) \subseteq ToSet(c)
  BY <1>2, <1>3 DEF ToSet
<1>8. ToSet(b) \subseteq ToSet(c)
  BY <1>2, <1>4 DEF ToSet
<1> QED BY <1>6, <1>7, <1>8 DEF c

IsTables(t) ==
  /\ DOMAIN t = {"q", "qno", "qsent", "hsent", "next", "aq"}
  /\ t.q \in [Slots -> Nat] /\ t.qsent \in [Slots -> BOOLEAN] /\ t.hsent \in BOOLEAN
  /\ t.next \in Nat \ {0} /\ t.qno \in Seq(Slots)

DQT(t, i) == <<"DQT", i, t.q[i]>>

\* The segments dqt are of tables in t.
Sends(dqt, t) ==
  dqt \in Seq(Segments) /\ Len(dqt) \in 0 .. 4 /\ ToSet(dqt) \subseteq {DQT(t, i) : i \in Slots}

\* t and u differ in the flags of the quantization tables alone.
SameButFlags(t, u) ==
  /\ IsTables(u) /\ u.q = t.q /\ u.qno = t.qno /\ u.hsent = t.hsent

LEMMA FourParts ==
  ASSUME NEW a \in Seq(Segments), NEW b \in Seq(Segments), NEW c \in Seq(Segments),
         NEW d \in Seq(Segments)
  PROVE  LET s == a \o b \o c \o d
         IN
         /\ s \in Seq(Segments) /\ Len(s) = Len(a) + Len(b) + Len(c) + Len(d)
         /\ ToSet(s) = ToSet(a) \cup ToSet(b) \cup ToSet(c) \cup ToSet(d)
<1> DEFINE x == a \o b
           y == x \o c
<1>1. x \in Seq(Segments) /\ Len(x) = Len(a) + Len(b) /\ ToSet(x) = ToSet(a) \cup ToSet(b)
  BY Joined, InJoined
<1> HIDE DEF x
<1>2. y \in Seq(Segments) /\ Len(y) = Len(x) + Len(c) /\ ToSet(y) = ToSet(x) \cup ToSet(c)
  BY <1>1, Joined, InJoined
<1> HIDE DEF y
<1> DEFINE z == y \o d
<1>3. z \in Seq(Segments) /\ Len(z) = Len(y) + Len(d) /\ ToSet(z) = ToSet(y) \cup ToSet(d)
  BY <1>2, Joined, InJoined
<1> HIDE DEF z
<1>4. /\ z \in Seq(Segments) /\ Len(z) = Len(a) + Len(b) + Len(c) + Len(d)
      /\ ToSet(z) = ToSet(a) \cup ToSet(b) \cup ToSet(c) \cup ToSet(d)
  BY <1>1, <1>2, <1>3
<1>5. a \o b \o c \o d = z
  BY DEF x, y, z
<1> QED BY <1>4, <1>5

LEMMA TablesAreSent ==
  ASSUME NEW t, IsTables(t), NEW slots \in SUBSET Slots, NEW e, e = EncodeDQT(t, slots)
  PROVE  /\ Sends(e.units, t) /\ SameButFlags(t, e.tables)
         /\ \A i \in Slots : e.tables.qsent[i] <=> t.qsent[i] \/ i \in slots
         /\ \A i \in slots : t.qsent[i] \/ DQT(t, i) \in ToSet(e.units)
<1> DEFINE one(i) == IF i \in slots /\ ~t.qsent[i] THEN <<DQT(t, i)>> ELSE <<>>
<1>1. ASSUME NEW i \in Slots
      PROVE  /\ one(i) \in Seq(Segments) /\ Len(one(i)) \in {0, 1}
             /\ ToSet(one(i)) = IF i \in slots /\ ~t.qsent[i] THEN {DQT(t, i)} ELSE {}
  <2>1. t.q[i] \in Int /\ i \in Int
    BY DEF IsTables, Slots
  <2>2. DQT(t, i) \in Segments
    BY <2>1, AreSegments DEF DQT
  <2> DEFINE a == DQT(t, i)
  <2> HIDE DEF a
  <2>3. <<a>> \in Seq(Segments) /\ Len(<<a>>) = 1 /\ ToSet(<<a>>) = {a}
    BY <2>2 DEF ToSet, a
  <2>4. <<>> \in Seq(Segments) /\ Len(<<>>) = 0 /\ ToSet(<<>>) = {}
    BY DEF ToSet
  <2> QED BY <2>3, <2>4 DEF a
<1>2. /\ e.units = one(0) \o one(1) \o one(2) \o one(3)
      /\ e.tables = [t EXCEPT !.qsent = [i \in Slots |-> @[i] \/ i \in slots]]
  BY DEF EncodeDQT, DQT
<1> HIDE DEF one
<1> DEFINE a == one(0)
           b == one(1)
           c == one(2)
           d == one(3)
<1>3. 0 \in Slots /\ 1 \in Slots /\ 2 \in Slots /\ 3 \in Slots
      /\ \A i \in Slots : i = 0 \/ i = 1 \/ i = 2 \/ i = 3
  BY DEF Slots
<1>10. /\ a \in Seq(Segments) /\ b \in Seq(Segments) /\ c \in Seq(Segments) /\ d \in Seq(Segments)
       /\ Len(a) \in {0, 1} /\ Len(b) \in {0, 1} /\ Len(c) \in {0, 1} /\ Len(d) \in {0, 1}
  BY <1>1, <1>3
<1> HIDE DEF a, b, c, d
<1>11. e.units = a \o b \o c \o d
  BY <1>2 DEF a, b, c, d
<1>4. /\ e.units \in Seq(Segments)
      /\ Len(e.units) = Len(a) + Len(b) + Len(c) + Len(d)
      /\ ToSet(e.units) = ToSet(a) \cup ToSet(b) \cup ToSet(c) \cup ToSet(d)
  <2> DEFINE w == a \o b \o c \o d
  <2>1. /\ w \in Seq(Segments) /\ Len(w) = Len(a) + Len(b) + Len(c) + Len(d)
        /\ ToSet(w) = ToSet(a) \cup ToSet(b) \cup ToSet(c) \cup ToSet(d)
    BY <1>10, FourParts
  <2> HIDE DEF w
  <2>2. e.units = w
    BY <1>11 DEF w
  <2> QED BY <2>1, <2>2
<1>5. Len(e.units) \in 0 .. 4
  <2> DEFINE n == Len(e.units)
             i == Len(a)
             j == Len(b)
             k == Len(c)
             l == Len(d)
  <2>1. n = i + j + k + l /\ i \in {0, 1} /\ j \in {0, 1} /\ k \in {0, 1} /\ l \in {0, 1}
    BY <1>10, <1>4
  <2> HIDE DEF n, i, j, k, l
  <2>2. n \in 0 .. 4
    BY <2>1
  <2> QED BY <2>2 DEF n
<1>6. ToSet(e.units) = UNION {ToSet(one(i)) : i \in Slots}
  BY <1>3, <1>4 DEF a, b, c, d
<1>7. Sends(e.units, t)
  BY <1>1, <1>4, <1>5, <1>6 DEF Sends
<1>8. \A i \in slots : t.qsent[i] \/ DQT(t, i) \in ToSet(e.units)
  BY <1>1, <1>6
<1>9. SameButFlags(t, e.tables) /\ \A i \in Slots : e.tables.qsent[i] <=> t.qsent[i] \/ i \in slots
  <2> DEFINE f == [i \in Slots |-> t.qsent[i] \/ i \in slots]
  <2>1. e.tables = [t EXCEPT !.qsent = f]
    BY <1>2
  <2>2. f \in [Slots -> BOOLEAN] /\ \A i \in Slots : f[i] <=> t.qsent[i] \/ i \in slots
    OBVIOUS
  <2> HIDE DEF f
  <2>3. /\ DOMAIN e.tables = DOMAIN t /\ e.tables.qsent = f /\ e.tables.q = t.q
        /\ e.tables.qno = t.qno /\ e.tables.hsent = t.hsent /\ e.tables.next = t.next
    BY <2>1 DEF IsTables
  <2> QED BY <2>2, <2>3 DEF SameButFlags, IsTables
<1> QED BY <1>7, <1>8, <1>9

-----------------------------------------------------------------------------
(* What a decoder learns.                                                  *)

LEMMA NatMin ==
  ASSUME NEW T, T \subseteq Nat, T # {}
  PROVE  \E n \in T : \A k \in T : n <= k
<1> DEFINE R == {p \in Nat \X Nat : p[1] < p[2]}
<1>1. IsWellFoundedOn(R, Nat)
  BY NatLessThanWellFounded DEF OpToRel
<1>2. PICK x \in T : \A y \in T : ~(<<y, x>> \in R)
  <2> HIDE DEF R
  <2> QED BY <1>1, WFMin, Zenon
<1>3. \A a, b \in T : <<b, a>> \in R <=> b < a
  OBVIOUS
<1>4. \A y \in T : ~(y < x)
  <2> HIDE DEF R
  <2> QED BY <1>2, <1>3
<1> QED BY <1>4

\* The last place of some.
LEMMA LastPlace ==
  ASSUME NEW n \in Nat, NEW T, T \subseteq 1 .. n, T # {}
  PROVE  Max(T) \in T
<1> DEFINE D == {n - x : x \in T}
<1>1. D \subseteq Nat /\ D # {}
  <2>1. \A x \in T : x \in 1 .. n /\ n - x \in Nat
    OBVIOUS
  <2>2. D \subseteq Nat
    BY <2>1
  <2>3. D # {}
    BY Zenon
  <2> QED BY <2>2, <2>3
<1>2. PICK d \in D : \A k \in D : d <= k
  <2> HIDE DEF D
  <2> QED BY <1>1, NatMin
<1>3. PICK x \in T : d = n - x
  OBVIOUS
<1>4. ASSUME NEW y \in T PROVE x >= y
  <2>1. n - x <= n - y
    BY <1>2, <1>3
  <2>2. x \in Nat /\ y \in Nat
    OBVIOUS
  <2> QED BY <2>1, <2>2
<1>5. \E z \in T : \A y \in T : z >= y
  BY <1>4
<1>6. Max(T) = CHOOSE z \in T : \A y \in T : z >= y
  BY DEF Max
<1> QED BY <1>5, <1>6

IsKnown(k) == DOMAIN k = {"q", "h", "sound"} /\ DOMAIN k.q = Slots

\* The tables of the header h are learned, and the others stay.
Learned(k, h, e) ==
  /\ IsKnown(e) /\ e.sound = k.sound
  /\ \A a \in Slots :
       IF \E u \in ToSet(h) : u[1] = "DQT" /\ u[2] = a
       THEN \E u \in ToSet(h) : u[1] = "DQT" /\ u[2] = a /\ e.q[a] = u[3]
       ELSE e.q[a] = k.q[a]
  /\ IF \E u \in ToSet(h) : u[1] = "DHT"
     THEN \E u \in ToSet(h) : u[1] = "DHT" /\ e.h = u[2]
     ELSE e.h = k.h

LEMMA TablesAreLearned ==
  ASSUME NEW k, IsKnown(k), NEW h \in Seq(Segments), \A i \in 1 .. Len(h) : h[i][1] # "SOS",
         NEW r \in Seq(Segments), r = <<>> \/ r[1][1] = "SOS",
         NEW stream, stream = h \o r, NEW e, e = Learn(k, stream)
  PROVE  Learned(k, h, e)
<1> DEFINE H == Len(h)
           n == Len(r)
           Before(i) == \A j \in 1 .. i : stream[j][1] # "SOS"
           Sent(kind, a) == {i \in DOMAIN stream : /\ Before(i) /\ stream[i][1] = kind
                                                   /\ kind = "DQT" => stream[i][2] = a}
<1>1. /\ H \in Nat /\ n \in Nat /\ DOMAIN h = 1 .. H /\ DOMAIN stream = 1 .. H + n
      /\ \A i \in 1 .. H + n : stream[i] = IF i <= H THEN h[i] ELSE r[i - H]
  <2>1. /\ stream \in Seq(Segments) /\ Len(stream) = H + n
        /\ \A i \in 1 .. H + n : stream[i] = IF i <= H THEN h[i] ELSE r[i - H]
    BY ConcatProperties
  <2>2. DOMAIN stream = 1 .. H + n /\ DOMAIN h = 1 .. H /\ H \in Nat /\ n \in Nat
    BY <2>1, LenProperties
  <2> QED BY <2>1, <2>2
<1>2. n = 0 \/ (n >= 1 /\ r[1][1] = "SOS")
  <2>1. r = <<>> => n = 0
    OBVIOUS
  <2>2. r # <<>> => n >= 1
    BY EmptySeq
  <2> QED BY <2>1, <2>2
<1>3. e = [k EXCEPT !.q = [s \in Slots |-> IF Sent("DQT", s) = {} THEN @[s]
                                           ELSE stream[Max(Sent("DQT", s))][3]],
                    !.h = IF Sent("DHT", 0) = {} THEN @ ELSE stream[Max(Sent("DHT", 0))][2]]
  BY DEF Learn
<1> HIDE DEF H, n
<1>4. ASSUME NEW i \in 1 .. H + n PROVE Before(i) <=> i <= H
  <2>1. CASE i <= H
    <3>1. \A j \in 1 .. i : j \in 1 .. H /\ stream[j] = h[j]
      BY <1>1, <2>1
    <3> QED BY <2>1, <3>1 DEF H
  <2>2. CASE ~(i <= H)
    <3>1. H + 1 \in 1 .. i /\ H + 1 \in 1 .. H + n /\ H + 1 - H = 1 /\ ~(H + 1 <= H) /\ n >= 1
      BY <1>1, <2>2
    <3>2. stream[H + 1] = r[1]
      BY <1>1, <3>1
    <3>3. r[1][1] = "SOS"
      BY <1>2, <3>1
    <3> QED BY <2>2, <3>1, <3>2, <3>3
  <2> QED BY <2>1, <2>2
<1> HIDE DEF Before
<1>5. ASSUME NEW kind, NEW a
      PROVE  Sent(kind, a) = {i \in 1 .. H : h[i][1] = kind /\ (kind = "DQT" => h[i][2] = a)}
  <2>1. \A i \in 1 .. H : i \in 1 .. H + n /\ stream[i] = h[i] /\ i <= H
    BY <1>1
  <2>2. \A i \in 1 .. H + n : i <= H => i \in 1 .. H
    BY <1>1
  <2> QED BY <1>1, <1>4, <2>1, <2>2
<1> HIDE DEF Sent
<1>6. ASSUME NEW kind, NEW a, Sent(kind, a) # {}
      PROVE  /\ stream[Max(Sent(kind, a))] \in ToSet(h)
             /\ stream[Max(Sent(kind, a))][1] = kind
             /\ kind = "DQT" => stream[Max(Sent(kind, a))][2] = a
  <2> DEFINE i == Max(Sent(kind, a))
  <2>1. Sent(kind, a) \subseteq 1 .. H
    BY <1>5
  <2>2. i \in Sent(kind, a)
    BY <1>1, <1>6, <2>1, LastPlace
  <2> HIDE DEF i
  <2>3. i \in 1 .. H /\ h[i][1] = kind /\ (kind = "DQT" => h[i][2] = a)
    BY <1>5, <2>2
  <2>4. stream[i] = h[i] /\ h[i] \in ToSet(h)
    <3>1. i <= H /\ i \in 1 .. H + n
      BY <1>1, <2>3
    <3> QED BY <1>1, <2>3, <3>1 DEF ToSet
  <2> QED BY <2>3, <2>4 DEF i
<1>7. ASSUME NEW kind, NEW a, Sent(kind, a) = {}
      PROVE  ~\E u \in ToSet(h) : u[1] = kind /\ (kind = "DQT" => u[2] = a)
  BY <1>1, <1>5, <1>7 DEF ToSet
<1> DEFINE q == [s \in Slots |-> IF Sent("DQT", s) = {} THEN k.q[s]
                                 ELSE stream[Max(Sent("DQT", s))][3]]
           c == IF Sent("DHT", 0) = {} THEN k.h ELSE stream[Max(Sent("DHT", 0))][2]
<1>8. e = [k EXCEPT !.q = q, !.h = c]
  BY <1>3
<1>9. DOMAIN q = Slots /\ \A a \in Slots : q[a] = IF Sent("DQT", a) = {} THEN k.q[a]
                                                  ELSE stream[Max(Sent("DQT", a))][3]
  OBVIOUS
<1>10. c = IF Sent("DHT", 0) = {} THEN k.h ELSE stream[Max(Sent("DHT", 0))][2]
  OBVIOUS
<1> HIDE DEF q, c
<1>11. e.q = q /\ e.h = c /\ e.sound = k.sound /\ IsKnown(e)
  BY <1>8, <1>9 DEF IsKnown
<1>12. ASSUME NEW a \in Slots
       PROVE  IF \E u \in ToSet(h) : u[1] = "DQT" /\ u[2] = a
              THEN \E u \in ToSet(h) : u[1] = "DQT" /\ u[2] = a /\ q[a] = u[3]
              ELSE q[a] = k.q[a]
  <2>1. CASE Sent("DQT", a) = {}
    BY <1>7, <1>9, <2>1
  <2>2. CASE Sent("DQT", a) # {}
    <3> DEFINE u == stream[Max(Sent("DQT", a))]
    <3>1. u \in ToSet(h) /\ u[1] = "DQT" /\ u[2] = a
      BY <1>6, <2>2
    <3>2. q[a] = u[3]
      BY <1>9, <2>2
    <3> HIDE DEF u
    <3> QED BY <3>1, <3>2
  <2> QED BY <2>1, <2>2
<1>13. IF \E u \in ToSet(h) : u[1] = "DHT"
       THEN \E u \in ToSet(h) : u[1] = "DHT" /\ c = u[2]
       ELSE c = k.h
  <2>1. CASE Sent("DHT", 0) = {}
    BY <1>7, <1>10, <2>1
  <2>2. CASE Sent("DHT", 0) # {}
    <3> DEFINE u == stream[Max(Sent("DHT", 0))]
    <3>1. u \in ToSet(h) /\ u[1] = "DHT"
      BY <1>6, <2>2
    <3>2. c = u[2]
      BY <1>10, <2>2
    <3> HIDE DEF u
    <3> QED BY <3>1, <3>2
  <2> QED BY <2>1, <2>2
<1> QED BY <1>11, <1>12, <1>13 DEF Learned

-----------------------------------------------------------------------------
(* The stream of an image.                                                 *)

SOI == <<Seg("SOI", 0)>>
APP(k) == [i \in 1 .. k |-> Seg("APP", i - 1)]
SOF == <<Seg("SOF", 0)>>
SOS == <<Seg("SOS", 1)>>
EOI == <<Seg("EOI", 0)>>

Start(k) == SOI \o APP(k)

\* What precedes the first scan.
Header(k, dqt, dht) == Start(k) \o dqt \o SOF \o dht

\* The coded rows, or the scans.
Body(p) == IF WritesBits(p) THEN RowsOfUnits(total_iMCU_rows(p)) ELSE ScansAfterHeader(p)

HuffmanSegments == {<<>>, <<Seg("DHT", "fixed")>>, <<Seg("DHT", "own")>>}

LEMMA PartsAre ==
  /\ SOI \in Seq(Segments) /\ Len(SOI) = 1 /\ SOI[1] = Seg("SOI", 0) /\ ToSet(SOI) = {Seg("SOI", 0)}
  /\ SOF \in Seq(Segments) /\ Len(SOF) = 1 /\ SOF[1] = Seg("SOF", 0) /\ ToSet(SOF) = {Seg("SOF", 0)}
  /\ SOS \in Seq(Segments) /\ Len(SOS) = 1 /\ SOS[1] = Seg("SOS", 1) /\ ToSet(SOS) = {Seg("SOS", 1)}
  /\ EOI \in Seq(Segments) /\ Len(EOI) = 1 /\ EOI[1] = Seg("EOI", 0) /\ ToSet(EOI) = {Seg("EOI", 0)}
<1>1. ASSUME NEW u \in Segments
      PROVE  <<u>> \in Seq(Segments) /\ Len(<<u>>) = 1 /\ <<u>>[1] = u /\ ToSet(<<u>>) = {u}
  BY DEF ToSet
<1>2. /\ Seg("SOI", 0) \in Segments /\ Seg("SOF", 0) \in Segments
      /\ Seg("SOS", 1) \in Segments /\ Seg("EOI", 0) \in Segments
  BY AreSegments
<1>3. SOI \in Seq(Segments) /\ Len(SOI) = 1 /\ SOI[1] = Seg("SOI", 0) /\ ToSet(SOI) = {Seg("SOI", 0)}
  BY <1>1, <1>2, Zenon DEF SOI
<1>4. SOF \in Seq(Segments) /\ Len(SOF) = 1 /\ SOF[1] = Seg("SOF", 0) /\ ToSet(SOF) = {Seg("SOF", 0)}
  BY <1>1, <1>2, Zenon DEF SOF
<1>5. SOS \in Seq(Segments) /\ Len(SOS) = 1 /\ SOS[1] = Seg("SOS", 1) /\ ToSet(SOS) = {Seg("SOS", 1)}
  BY <1>1, <1>2, Zenon DEF SOS
<1>6. EOI \in Seq(Segments) /\ Len(EOI) = 1 /\ EOI[1] = Seg("EOI", 0) /\ ToSet(EOI) = {Seg("EOI", 0)}
  BY <1>1, <1>2, Zenon DEF EOI
<1> QED BY <1>3, <1>4, <1>5, <1>6

LEMMA MarkersAre ==
  ASSUME NEW k \in Nat
  PROVE  /\ APP(k) \in Seq(Segments) /\ Len(APP(k)) = k
         /\ \A i \in 1 .. k : APP(k)[i] = Seg("APP", i - 1)
         /\ \A u \in ToSet(APP(k)) : u[1] = "APP"
<1> DEFINE a(i) == Seg("APP", i - 1)
<1>1. \A i \in 1 .. k : a(i) \in Segments /\ a(i)[1] = "APP"
  <2>1. \A i \in 1 .. k : i - 1 \in Int
    OBVIOUS
  <2>2. \A i \in Int : Seg("APP", i)[1] = "APP"
    BY DEF Seg
  <2> QED BY <2>1, <2>2, AreSegments
<1>2. APP(k) = [i \in 1 .. k |-> a(i)]
  BY DEF APP
<1>3. \A i \in 1 .. k : a(i) = Seg("APP", i - 1)
  OBVIOUS
<1> HIDE DEF a
<1>4. /\ APP(k) \in Seq(Segments) /\ Len(APP(k)) = k /\ DOMAIN APP(k) = 1 .. k
      /\ \A i \in 1 .. k : APP(k)[i] = a(i)
  BY <1>1, <1>2
<1>5. \A u \in ToSet(APP(k)) : u[1] = "APP"
  BY <1>1, <1>4 DEF ToSet
<1> QED BY <1>3, <1>4, <1>5

LEMMA OneMore ==
  ASSUME NEW k \in Nat
  PROVE  Start(k + 1) = Start(k) \o <<Seg("APP", k)>> /\ Start(k) \in Seq(Segments)
<1> DEFINE u == Seg("APP", k)
           v == <<u>>
           a == APP(k)
           b == APP(k + 1)
           c == a \o v
<1>1. v \in Seq(Segments) /\ Len(v) = 1 /\ v[1] = u
  <2>1. u \in Segments
    BY AreSegments
  <2> HIDE DEF u
  <2> QED BY <2>1
<1>2. /\ a \in Seq(Segments) /\ Len(a) = k /\ \A i \in 1 .. k : a[i] = Seg("APP", i - 1)
      /\ b \in Seq(Segments) /\ Len(b) = k + 1 /\ \A i \in 1 .. k + 1 : b[i] = Seg("APP", i - 1)
  BY MarkersAre
<1> HIDE DEF a, b, v
<1>3. /\ c \in Seq(Segments) /\ Len(c) = k + 1
      /\ \A i \in 1 .. k + 1 : c[i] = IF i <= k THEN a[i] ELSE v[i - k]
  BY <1>1, <1>2, ConcatProperties
<1> HIDE DEF c
<1>4. ASSUME NEW i \in 1 .. k + 1 PROVE b[i] = c[i]
  <2>1. CASE i <= k
    BY <1>2, <1>3, <2>1
  <2>2. CASE ~(i <= k)
    <3>1. i = k + 1 /\ i - k = 1 /\ i - 1 = k
      BY <2>2
    <3>2. b[i] = u
      BY <1>2, <3>1
    <3> HIDE DEF u
    <3> QED BY <1>1, <1>3, <2>2, <3>1, <3>2
  <2> QED BY <2>1, <2>2
<1>5. b = c
  <2>1. Len(b) = Len(c) /\ \A i \in 1 .. Len(b) : b[i] = c[i]
    BY <1>2, <1>3, <1>4
  <2> QED BY <1>2, <1>3, <2>1, SeqEqual
<1> DEFINE s == SOI
<1>6. s \in Seq(Segments)
  BY PartsAre
<1> HIDE DEF s
<1>7. s \o (a \o v) = (s \o a) \o v /\ s \o a \in Seq(Segments)
  BY <1>1, <1>2, <1>6, SameUnits, Joined
<1> QED BY <1>5, <1>7 DEF Start, s, a, b, c, v, u

\* The parts of the header, in any grouping.
LEMMA HeaderIs ==
  ASSUME NEW k \in Nat, NEW dqt \in Seq(Segments), NEW dht \in Seq(Segments)
  PROVE  /\ Header(k, dqt, dht) \in Seq(Segments)
         /\ ToSet(Header(k, dqt, dht))
              = {Seg("SOI", 0), Seg("SOF", 0)} \cup ToSet(APP(k)) \cup ToSet(dqt) \cup ToSet(dht)
<1> DEFINE i == SOI
           a == APP(k)
           f == SOF
           x == i \o a
           y == x \o dqt
           z == y \o f
           w == z \o dht
<1>1. i \in Seq(Segments) /\ a \in Seq(Segments) /\ f \in Seq(Segments)
  BY PartsAre, MarkersAre
<1> HIDE DEF i, a, f
<1>2. x \in Seq(Segments) /\ ToSet(x) = ToSet(i) \cup ToSet(a)
  BY <1>1, Joined, InJoined
<1> HIDE DEF x
<1>3. y \in Seq(Segments) /\ ToSet(y) = ToSet(x) \cup ToSet(dqt)
  BY <1>2, Joined, InJoined
<1> HIDE DEF y
<1>4. z \in Seq(Segments) /\ ToSet(z) = ToSet(y) \cup ToSet(f)
  BY <1>1, <1>3, Joined, InJoined
<1> HIDE DEF z
<1>5. w \in Seq(Segments) /\ ToSet(w) = ToSet(z) \cup ToSet(dht)
  BY <1>4, Joined, InJoined
<1> HIDE DEF w
<1>6. Header(k, dqt, dht) = w
  BY DEF Header, Start, i, a, f, x, y, z, w
<1>7. ToSet(i) = {Seg("SOI", 0)} /\ ToSet(f) = {Seg("SOF", 0)}
  BY PartsAre DEF i, f
<1> QED BY <1>2, <1>3, <1>4, <1>5, <1>6, <1>7 DEF a

\* The segments dqt and dht are those that the stream has before its first scan.
Brings(stream, t, dqt, dht) ==
  \E h, r \in Seq(Segments) :
    /\ stream = h \o r /\ (r = <<>> \/ r[1][1] = "SOS")
    /\ \A u \in ToSet(h) : \/ u \in ToSet(dqt) \/ u \in ToSet(dht)
                           \/ u[1] \notin {"DQT", "DHT", "SOS"}
    /\ ToSet(dqt) \cup ToSet(dht) \subseteq ToSet(h)

\* A decoder that knew k has the tables that were sent, and those it had.
Receives(k, t, dqt, dht, e) ==
  /\ IsKnown(e) /\ e.sound = k.sound
  /\ \A a \in Slots : e.q[a] = IF DQT(t, a) \in ToSet(dqt) THEN t.q[a] ELSE k.q[a]
  /\ e.h = IF dht = <<>> THEN k.h ELSE dht[1][2]

LEMMA HeaderIsLearned ==
  ASSUME NEW t, NEW dqt, Sends(dqt, t), NEW dht \in HuffmanSegments,
         NEW stream, Brings(stream, t, dqt, dht), NEW k, IsKnown(k), NEW e, e = Learn(k, stream)
  PROVE  Receives(k, t, dqt, dht, e)
<1>1. PICK h \in Seq(Segments), r \in Seq(Segments) :
        /\ stream = h \o r /\ (r = <<>> \/ r[1][1] = "SOS")
        /\ \A u \in ToSet(h) : \/ u \in ToSet(dqt) \/ u \in ToSet(dht)
                               \/ u[1] \notin {"DQT", "DHT", "SOS"}
        /\ ToSet(dqt) \cup ToSet(dht) \subseteq ToSet(h)
  BY Zenon DEF Brings
<1>2. \A u \in ToSet(dqt) : \E a \in Slots : u = DQT(t, a)
  BY DEF Sends
<1>3. \A a : DQT(t, a)[1] = "DQT" /\ DQT(t, a)[2] = a /\ DQT(t, a)[3] = t.q[a]
  BY DEF DQT
<1>4. ToSet(dht) = IF dht = <<>> THEN {} ELSE {dht[1]}
  <2>1. \A u : ToSet(<<u>>) = {u} /\ <<u>>[1] = u /\ <<u>> # <<>>
    BY DEF ToSet
  <2>2. ToSet(<<>>) = {}
    BY DEF ToSet
  <2> QED BY <2>1, <2>2, Zenon DEF HuffmanSegments
<1>5. dht # <<>> => dht[1][1] = "DHT"
  <2>1. CASE dht = <<Seg("DHT", "fixed")>>
    BY <2>1 DEF Seg
  <2>2. CASE dht = <<Seg("DHT", "own")>>
    BY <2>2 DEF Seg
  <2> QED BY <2>1, <2>2 DEF HuffmanSegments
<1>6. \A i \in 1 .. Len(h) : h[i][1] # "SOS"
  <2>1. \A u \in ToSet(h) : u[1] # "SOS"
    BY <1>1, <1>2, <1>3, <1>4, <1>5
  <2>2. DOMAIN h = 1 .. Len(h)
    BY LenProperties
  <2> QED BY <2>1, <2>2 DEF ToSet
<1>7. /\ IsKnown(e) /\ e.sound = k.sound
      /\ \A a \in Slots :
           IF \E u \in ToSet(h) : u[1] = "DQT" /\ u[2] = a
           THEN \E u \in ToSet(h) : u[1] = "DQT" /\ u[2] = a /\ e.q[a] = u[3]
           ELSE e.q[a] = k.q[a]
      /\ IF \E u \in ToSet(h) : u[1] = "DHT"
         THEN \E u \in ToSet(h) : u[1] = "DHT" /\ e.h = u[2]
         ELSE e.h = k.h
  <2>1. Learned(k, h, e)
    BY <1>1, <1>6, TablesAreLearned
  <2> QED BY <2>1, Zenon DEF Learned
<1>8. ASSUME NEW u \in ToSet(h) PROVE /\ u[1] = "DQT" => u \in ToSet(dqt)
                                      /\ u[1] = "DHT" => dht # <<>> /\ u = dht[1]
  BY <1>1, <1>2, <1>3, <1>4, <1>5
<1>9. ASSUME NEW a \in Slots
      PROVE  e.q[a] = IF DQT(t, a) \in ToSet(dqt) THEN t.q[a] ELSE k.q[a]
  <2>1. CASE DQT(t, a) \in ToSet(dqt)
    <3>1. \E u \in ToSet(h) : u[1] = "DQT" /\ u[2] = a
      BY <1>1, <1>3, <2>1
    <3>2. PICK u \in ToSet(h) : u[1] = "DQT" /\ u[2] = a /\ e.q[a] = u[3]
      BY <1>7, <3>1
    <3>3. u \in ToSet(dqt)
      BY <1>8, <3>2
    <3>4. u = DQT(t, a)
      BY <1>2, <1>3, <3>2, <3>3
    <3> QED BY <1>3, <2>1, <3>2, <3>4
  <2>2. CASE DQT(t, a) \notin ToSet(dqt)
    <3>1. ~\E u \in ToSet(h) : u[1] = "DQT" /\ u[2] = a
      <4> SUFFICES ASSUME NEW u \in ToSet(h), u[1] = "DQT", u[2] = a PROVE FALSE
        OBVIOUS
      <4>1. u \in ToSet(dqt)
        BY <1>8
      <4>2. u = DQT(t, a)
        BY <1>2, <1>3, <4>1
      <4> QED BY <2>2, <4>1, <4>2
    <3> QED BY <1>7, <2>2, <3>1
  <2> QED BY <2>1, <2>2
<1>10. e.h = IF dht = <<>> THEN k.h ELSE dht[1][2]
  <2>1. CASE dht = <<>>
    <3>1. ~\E u \in ToSet(h) : u[1] = "DHT"
      BY <1>8, <2>1
    <3> QED BY <1>7, <2>1, <3>1
  <2>2. CASE dht # <<>>
    <3>1. dht[1] \in ToSet(h)
      BY <1>1, <1>4, <2>2
    <3>2. \E u \in ToSet(h) : u[1] = "DHT" /\ e.h = u[2]
      BY <1>5, <1>7, <2>2, <3>1
    <3> QED BY <1>8, <2>2, <3>2
  <2> QED BY <2>1, <2>2
<1> QED BY <1>7, <1>9, <1>10 DEF Receives

LEMMA OutlineIs ==
  ASSUME NEW a \in Seq(Segments)
  PROVE  /\ Outline(a) \in Seq(Segments) /\ Len(Outline(a)) = Len(a)
         /\ \A i \in 1 .. Len(a) :
              Outline(a)[i] = IF a[i][1] \in {"DQT", "DHT"} THEN Seg(a[i][1], 0) ELSE a[i]
<1> DEFINE flat(i) == IF a[i][1] \in {"DQT", "DHT"} THEN Seg(a[i][1], 0) ELSE a[i]
           n == Len(a)
<1>1. ASSUME NEW i \in 1 .. n PROVE flat(i) \in Segments
  <2>1. Seg("DQT", 0) \in Segments /\ Seg("DHT", 0) \in Segments
    BY DEF Seg, Segments, Kinds
  <2>2. a[i] \in Segments
    OBVIOUS
  <2> QED BY <2>1, <2>2
<1>2. n \in Nat /\ Outline(a) = [i \in 1 .. n |-> flat(i)]
  BY LenProperties DEF Outline
<1>3. \A i : flat(i) = IF a[i][1] \in {"DQT", "DHT"} THEN Seg(a[i][1], 0) ELSE a[i]
  OBVIOUS
<1> HIDE DEF flat, n
<1>4. /\ Outline(a) \in Seq(Segments) /\ Len(Outline(a)) = n
      /\ \A i \in 1 .. n : Outline(a)[i] = flat(i)
  BY <1>1, <1>2
<1> QED BY <1>3, <1>4 DEF n

LEMMA OutlineJoins ==
  ASSUME NEW a \in Seq(Segments), NEW b \in Seq(Segments)
  PROVE  Outline(a \o b) = Outline(a) \o Outline(b)
<1> DEFINE c == a \o b
           x == Outline(a)
           y == Outline(b)
           z == Outline(c)
           w == x \o y
           A == Len(a)
           B == Len(b)
           flat(u) == IF u[1] \in {"DQT", "DHT"} THEN Seg(u[1], 0) ELSE u
<1>1. /\ c \in Seq(Segments) /\ Len(c) = A + B /\ A \in Nat /\ B \in Nat
      /\ \A i \in 1 .. A + B : c[i] = IF i <= A THEN a[i] ELSE b[i - A]
  BY ConcatProperties, LenProperties
<1> HIDE DEF c
<1>2. /\ x \in Seq(Segments) /\ Len(x) = A /\ \A i \in 1 .. A : x[i] = flat(a[i])
      /\ y \in Seq(Segments) /\ Len(y) = B /\ \A i \in 1 .. B : y[i] = flat(b[i])
      /\ z \in Seq(Segments) /\ Len(z) = A + B /\ \A i \in 1 .. A + B : z[i] = flat(c[i])
  BY <1>1, OutlineIs
<1> HIDE DEF x, y, z, A, B, flat
<1>3. /\ w \in Seq(Segments) /\ Len(w) = A + B
      /\ \A i \in 1 .. A + B : w[i] = IF i <= A THEN x[i] ELSE y[i - A]
  BY <1>2, ConcatProperties
<1> HIDE DEF w
<1>4. ASSUME NEW i \in 1 .. A + B PROVE z[i] = w[i]
  <2>1. CASE i <= A
    BY <1>1, <1>2, <1>3, <2>1
  <2>2. CASE ~(i <= A)
    <3>1. i - A \in 1 .. B
      BY <1>1, <2>2
    <3> QED BY <1>1, <1>2, <1>3, <2>2, <3>1
  <2> QED BY <2>1, <2>2
<1>5. z = w
  <2>1. Len(z) = Len(w) /\ \A i \in 1 .. Len(z) : z[i] = w[i]
    BY <1>2, <1>3, <1>4
  <2> QED BY <1>2, <1>3, <2>1, SeqEqual
<1> QED BY <1>5 DEF z, w, x, y, c

\* What holds no tables is its own outline, and of tables only their number is left.
LEMMA OutlineOfPart ==
  ASSUME NEW a \in Seq(Segments)
  PROVE  /\ (\A i \in 1 .. Len(a) : a[i][1] \notin {"DQT", "DHT"}) => Outline(a) = a
         /\ \A kind \in {"DQT", "DHT"} :
              (\A i \in 1 .. Len(a) : a[i][1] = kind)
                => Outline(a) = [i \in 1 .. Len(a) |-> Seg(kind, 0)]
<1>1. /\ Outline(a) \in Seq(Segments) /\ Len(Outline(a)) = Len(a)
      /\ \A i \in 1 .. Len(a) :
           Outline(a)[i] = IF a[i][1] \in {"DQT", "DHT"} THEN Seg(a[i][1], 0) ELSE a[i]
  BY OutlineIs
<1>2. ASSUME \A i \in 1 .. Len(a) : a[i][1] \notin {"DQT", "DHT"} PROVE Outline(a) = a
  <2>1. \A i \in 1 .. Len(Outline(a)) : Outline(a)[i] = a[i]
    BY <1>1, <1>2
  <2> QED BY <1>1, <2>1, SeqEqual
<1>3. ASSUME NEW kind \in {"DQT", "DHT"}, \A i \in 1 .. Len(a) : a[i][1] = kind
      PROVE  Outline(a) = [i \in 1 .. Len(a) |-> Seg(kind, 0)]
  BY <1>3 DEF Outline
<1> QED BY <1>2, <1>3

LEMMA RowsBegin ==
  ASSUME NEW r \in Nat, NEW T \in Nat, r <= T
  PROVE  \E rest \in Seq(Segments) : RowsOfUnits(T) = RowsOfUnits(r) \o rest
<1> DEFINE of(k) == RowUnits((k - 1) \div 2)[((k - 1) % 2) + 1]
           x == RowsOfUnits(r)
           y == RowsOfUnits(T)
           n == 2 * r
           z == SubSeq(y, 1, n)
<1>1. x = [k \in 1 .. 2 * r |-> of(k)] /\ y = [k \in 1 .. 2 * T |-> of(k)]
  BY DEF RowsOfUnits
<1>2. x \in Seq(Segments) /\ Len(x) = 2 * r /\ y \in Seq(Segments) /\ Len(y) = 2 * T
  BY RowsGrow
<1>3. n \in Nat /\ n \in 0 .. Len(y) /\ Len(y) \in Nat
  BY <1>2
<1> HIDE DEF of, x, y
<1>4. z \in Seq(Segments) /\ Len(z) = n /\ \A i \in 1 .. n : z[i] = y[i]
  <2>1. \A i \in 1 .. n : y[i] \in Segments
    BY <1>2, <1>3
  <2> HIDE DEF n
  <2>2. /\ z \in Seq(Segments) /\ Len(z) = (IF 1 <= n THEN n - 1 + 1 ELSE 0)
        /\ \A i \in 1 .. n - 1 + 1 : z[i] = y[1 + i - 1]
    BY <1>3, <2>1, SubSeqProperties
  <2> HIDE DEF z
  <2>3. \A i \in 1 .. n : 1 + i - 1 = i /\ i \in 1 .. n - 1 + 1
    BY <1>3
  <2> QED BY <1>3, <2>2, <2>3
<1>5. z = x
  <2>1. \A i \in 1 .. Len(z) : z[i] = x[i]
    <3>1. \A i \in 1 .. n : i \in 1 .. 2 * r /\ i \in 1 .. 2 * T
      OBVIOUS
    <3> HIDE DEF z, n
    <3> QED BY <1>1, <1>4, <3>1
  <2>2. Len(z) = Len(x)
    BY <1>2, <1>4
  <2> HIDE DEF z
  <2> QED BY <1>2, <1>4, <2>1, <2>2, SeqEqual
<1>6. /\ SubSeq(y, n + 1, Len(y)) \in Seq(Segments)
      /\ z \o SubSeq(y, n + 1, Len(y)) = y
  <2> HIDE DEF n
  <2> QED BY <1>2, <1>3, Cut
<1> HIDE DEF z, n
<1> QED BY <1>5, <1>6 DEF x, y

LEMMA Beginnings ==
  ASSUME NEW S, NEW a \in Seq(S), NEW b \in Seq(S)
  PROVE  /\ IsPrefix(a, a \o b)
         /\ \A c : IsPrefix(c, a) /\ Len(c) \in Nat => IsPrefix(c, a \o b)
<1> DEFINE s == a \o b
           A == Len(a)
           B == Len(b)
<1>1. /\ s \in Seq(S) /\ Len(s) = A + B /\ A \in Nat /\ B \in Nat
      /\ \A i \in 1 .. A + B : s[i] = IF i <= A THEN a[i] ELSE b[i - A]
  BY ConcatProperties, LenProperties
<1> HIDE DEF s, B
<1>2. ASSUME NEW n \in Nat, n <= A PROVE SubSeq(s, 1, n) = SubSeq(a, 1, n)
  <2> DEFINE x == SubSeq(s, 1, n)
             y == SubSeq(a, 1, n)
  <2>1. \A i \in 1 .. n : s[i] \in S /\ a[i] \in S /\ s[i] = a[i] /\ 1 + i - 1 = i /\ i \in 1 .. n - 1 + 1
    BY <1>1, <1>2 DEF A
  <2>2. /\ x \in Seq(S) /\ Len(x) = (IF 1 <= n THEN n - 1 + 1 ELSE 0)
        /\ \A i \in 1 .. n - 1 + 1 : x[i] = s[1 + i - 1]
    BY <2>1, SubSeqProperties
  <2>3. /\ y \in Seq(S) /\ Len(y) = (IF 1 <= n THEN n - 1 + 1 ELSE 0)
        /\ \A i \in 1 .. n - 1 + 1 : y[i] = a[1 + i - 1]
    BY <2>1, SubSeqProperties
  <2> HIDE DEF x, y
  <2>4. Len(x) = n /\ Len(y) = n
    BY <2>2, <2>3
  <2>5. \A i \in 1 .. n : x[i] = y[i]
    BY <2>1, <2>2, <2>3
  <2>6. x = y
    BY <2>2, <2>3, <2>4, <2>5, SeqEqual
  <2> QED BY <2>6 DEF x, y
<1>3. A <= Len(s)
  BY <1>1
<1>4. IsPrefix(a, s)
  BY <1>1, <1>2, <1>3 DEF IsPrefix, A
<1>5. ASSUME NEW c, IsPrefix(c, a), Len(c) \in Nat PROVE IsPrefix(c, s)
  <2> DEFINE n == Len(c)
  <2>1. n \in Nat /\ n <= A /\ SubSeq(c, 1, n) = SubSeq(a, 1, n)
    BY <1>5 DEF IsPrefix, A
  <2> HIDE DEF n
  <2>2. n <= Len(s)
    BY <1>1, <2>1
  <2> QED BY <1>2, <2>1, <2>2 DEF IsPrefix, n
<1> QED BY <1>4, <1>5 DEF s

Flat(kind, n) == [i \in 1 .. n |-> Seg(kind, 0)]
HeaderOutline(k, n, l) == Start(k) \o Flat("DQT", n) \o SOF \o Flat("DHT", l)

LEMMA FlatIs ==
  ASSUME NEW kind \in Kinds, NEW n \in Nat
  PROVE  Flat(kind, n) \in Seq(Segments)
<1>1. Seg(kind, 0) \in Segments
  BY DEF Seg, Segments
<1> QED BY <1>1 DEF Flat

LEMMA WholeStreamIs ==
  ASSUME NEW p, NEW k, NEW n, NEW l
  PROVE  WholeStream(p, k, n, l) = HeaderOutline(k, n, l) \o SOS \o Body(p) \o EOI
BY DEF WholeStream, HeaderOutline, Start, Flat, SOI, APP, SOF, SOS, EOI, Body

LEMMA StartOutline ==
  ASSUME NEW k \in Nat
  PROVE  Start(k) \in Seq(Segments) /\ Outline(Start(k)) = Start(k)
<1> DEFINE s == SOI
           a == APP(k)
<1>1. s \in Seq(Segments) /\ a \in Seq(Segments)
  BY PartsAre, MarkersAre
<1>2. Outline(s) = s
  <2>1. \A i \in 1 .. Len(s) : s[i][1] \notin {"DQT", "DHT"}
    BY PartsAre DEF Seg
  <2> HIDE DEF s
  <2> QED BY <1>1, <2>1, OutlineOfPart
<1>3. Outline(a) = a
  <2>1. Len(a) = k /\ (\A u \in ToSet(a) : u[1] = "APP")
    BY MarkersAre
  <2> HIDE DEF a
  <2>2. DOMAIN a = 1 .. Len(a)
    BY <1>1, LenProperties
  <2>3. \A i \in 1 .. Len(a) : a[i][1] \notin {"DQT", "DHT"}
    BY <2>1, <2>2 DEF ToSet
  <2> QED BY <1>1, <2>3, OutlineOfPart
<1> HIDE DEF s, a
<1>4. s \o a \in Seq(Segments) /\ Outline(s \o a) = s \o a
  BY <1>1, <1>2, <1>3, Joined, OutlineJoins
<1> QED BY <1>4 DEF Start, s, a

LEMMA HeaderOutlineIs ==
  ASSUME NEW k \in Nat, NEW dqt \in Seq(Segments), \A u \in ToSet(dqt) : u[1] = "DQT",
         NEW dht \in HuffmanSegments
  PROVE  /\ Outline(Header(k, dqt, dht)) = HeaderOutline(k, Len(dqt), Len(dht))
         /\ Len(dht) \in 0 .. 1 /\ dht \in Seq(Segments)
<1> DEFINE x == Start(k)
           f == SOF
           q == Flat("DQT", Len(dqt))
           h == Flat("DHT", Len(dht))
<1>1. x \in Seq(Segments) /\ Outline(x) = x
  BY StartOutline
<1>2. f \in Seq(Segments) /\ Outline(f) = f
  <2>1. f \in Seq(Segments) /\ \A i \in 1 .. Len(f) : f[i][1] \notin {"DQT", "DHT"}
    BY PartsAre DEF Seg
  <2> HIDE DEF f
  <2> QED BY <2>1, OutlineOfPart
<1>3. Outline(dqt) = q
  <2>1. DOMAIN dqt = 1 .. Len(dqt)
    BY LenProperties
  <2>2. \A i \in 1 .. Len(dqt) : dqt[i][1] = "DQT"
    BY <2>1 DEF ToSet
  <2> QED BY <2>2, OutlineOfPart DEF Flat
<1>4. dht \in Seq(Segments) /\ Len(dht) \in 0 .. 1 /\ Outline(dht) = h
  <2>1. dht \in Seq(Segments) /\ Len(dht) \in 0 .. 1 /\ \A i \in 1 .. Len(dht) : dht[i][1] = "DHT"
    <3> DEFINE u == Seg("DHT", "fixed")
               v == Seg("DHT", "own")
    <3>1. u \in Segments /\ v \in Segments /\ u[1] = "DHT" /\ v[1] = "DHT"
      BY AreSegments DEF Seg
    <3> HIDE DEF u, v
    <3>2. dht = <<>> \/ dht = <<u>> \/ dht = <<v>>
      BY DEF HuffmanSegments, u, v
    <3>3. CASE dht = <<>>
      BY <3>3
    <3>4. ASSUME NEW w \in Segments, w[1] = "DHT", dht = <<w>>
          PROVE  dht \in Seq(Segments) /\ Len(dht) \in 0 .. 1 /\ \A i \in 1 .. Len(dht) : dht[i][1] = "DHT"
      <4>1. Len(<<w>>) = 1 /\ <<w>>[1] = w /\ <<w>> \in Seq(Segments)
        OBVIOUS
      <4> QED BY <4>1, <3>4
    <3> QED BY <3>1, <3>2, <3>3, <3>4
  <2>2. Outline(dht) = h
    BY <2>1, OutlineOfPart DEF Flat
  <2> QED BY <2>1, <2>2
<1> HIDE DEF x, f, q, h
<1> DEFINE y == x \o dqt
           z == y \o f
<1>5. y \in Seq(Segments) /\ Outline(y) = x \o q
  BY <1>1, <1>3, Joined, OutlineJoins
<1> HIDE DEF y
<1>6. z \in Seq(Segments) /\ Outline(z) = x \o q \o f
  BY <1>2, <1>5, Joined, OutlineJoins
<1> HIDE DEF z
<1>7. Outline(z \o dht) = x \o q \o f \o h
  BY <1>4, <1>6, OutlineJoins
<1> QED BY <1>4, <1>7 DEF Header, HeaderOutline, x, f, q, h, y, z

LEMMA RowsOutline ==
  ASSUME NEW n \in Nat
  PROVE  /\ RowsOfUnits(n) \in Seq(Segments) /\ Outline(RowsOfUnits(n)) = RowsOfUnits(n)
         /\ n = 0 => RowsOfUnits(n) = <<>>
<1> DEFINE x == RowsOfUnits(n)
           of(k) == RowUnits((k - 1) \div 2)[((k - 1) % 2) + 1]
<1>1. x \in Seq(Segments) /\ Len(x) = 2 * n
  BY RowsGrow
<1>2. x = [k \in 1 .. 2 * n |-> of(k)]
  BY DEF RowsOfUnits
<1>3. ASSUME NEW k \in 1 .. 2 * n PROVE of(k)[1] = "row"
  <2> DEFINE i == ((k - 1) % 2) + 1
             q == (k - 1) \div 2
  <2>1. i \in {1, 2}
    OBVIOUS
  <2> HIDE DEF i, q
  <2>2. RowUnits(q)[i] = <<"row", q, i>>
    BY <2>1, RowUnit
  <2> QED BY <2>2 DEF i, q
<1> HIDE DEF x, of
<1>4. \A i \in 1 .. Len(x) : x[i][1] \notin {"DQT", "DHT"}
  BY <1>1, <1>2, <1>3
<1>5. Outline(x) = x
  BY <1>1, <1>4, OutlineOfPart
<1>6. n = 0 => x = <<>>
  BY <1>1, EmptySeq
<1> QED BY <1>1, <1>5, <1>6 DEF x

LEMMA ScansAre ==
  ASSUME NEW p, p.scans \in Nat \ {0}
  PROVE  ScansAfterHeader(p) \in Seq(Segments) /\ Outline(ScansAfterHeader(p)) = ScansAfterHeader(p)
<1> DEFINE n == 2 * p.scans - 1
           x == ScansAfterHeader(p)
           of(k) == IF k % 2 = 1 THEN Seg("scan", (k + 1) \div 2) ELSE Seg("SOS", k \div 2 + 1)
<1>1. n \in Nat /\ x = [k \in 1 .. n |-> of(k)]
  BY DEF ScansAfterHeader
<1>2. ASSUME NEW k \in 1 .. n PROVE of(k) \in Segments /\ of(k)[1] \in {"scan", "SOS"}
  <2> DEFINE a == (k + 1) \div 2
             b == k \div 2 + 1
  <2>1. a \in Int /\ b \in Int
    OBVIOUS
  <2> HIDE DEF a, b
  <2>2. Seg("scan", a) \in Segments /\ Seg("SOS", b) \in Segments
    BY <2>1, AreSegments
  <2>3. Seg("scan", a)[1] = "scan" /\ Seg("SOS", b)[1] = "SOS"
    BY DEF Seg
  <2> QED BY <2>2, <2>3 DEF a, b
<1> HIDE DEF x, of, n
<1>3. x \in Seq(Segments) /\ Len(x) = n /\ \A i \in 1 .. n : x[i] = of(i)
  BY <1>1, <1>2
<1>4. \A i \in 1 .. Len(x) : x[i][1] \notin {"DQT", "DHT"}
  BY <1>2, <1>3
<1> QED BY <1>3, <1>4, OutlineOfPart DEF x

LEMMA BodyIs ==
  ASSUME NEW p \in Images
  PROVE  Body(p) \in Seq(Segments) /\ Outline(Body(p)) = Body(p)
<1>1. p.scans \in Nat \ {0} /\ total_iMCU_rows(p) \in Nat
  <2>1. p \in Image
    BY ImagesAssumption
  <2> QED BY <2>1, Heights DEF Image
<1>2. /\ ScansAfterHeader(p) \in Seq(Segments)
      /\ Outline(ScansAfterHeader(p)) = ScansAfterHeader(p)
  BY <1>1, ScansAre
<1>3. /\ RowsOfUnits(total_iMCU_rows(p)) \in Seq(Segments)
      /\ Outline(RowsOfUnits(total_iMCU_rows(p))) = RowsOfUnits(total_iMCU_rows(p))
  BY <1>1, RowsOutline
<1> QED BY <1>2, <1>3 DEF Body

\* The stream of the header and the body is the whole stream.
LEMMA AllOfIt ==
  ASSUME NEW p \in Images, NEW k \in Nat, NEW t, NEW dqt, Sends(dqt, t),
         NEW dht \in HuffmanSegments
  PROVE  LET s == Header(k, dqt, dht) \o SOS \o Body(p) \o EOI
         IN  /\ s \in Seq(Segments)
             /\ \E n \in 0 .. 4, l \in 0 .. 1 : Outline(s) = WholeStream(p, k, n, l)
<1> DEFINE h == Header(k, dqt, dht)
           b == Body(p)
           o == HeaderOutline(k, Len(dqt), Len(dht))
           x == SOS
           z == EOI
           s1 == h \o x
           s2 == s1 \o b
           s3 == s2 \o z
<1>1. /\ h \in Seq(Segments) /\ Outline(h) = o
      /\ Len(dqt) \in 0 .. 4 /\ Len(dht) \in 0 .. 1
  <2>1. dqt \in Seq(Segments) /\ Len(dqt) \in 0 .. 4 /\ \A u \in ToSet(dqt) : u[1] = "DQT"
    BY DEF Sends, DQT
  <2> QED BY <2>1, HeaderOutlineIs, HeaderIs
<1>2. b \in Seq(Segments) /\ Outline(b) = b
  BY BodyIs
<1>3. x \in Seq(Segments) /\ Outline(x) = x /\ z \in Seq(Segments) /\ Outline(z) = z
  <2>1. \A i \in 1 .. Len(x) : x[i][1] \notin {"DQT", "DHT"}
    BY PartsAre DEF Seg
  <2>2. \A i \in 1 .. Len(z) : z[i][1] \notin {"DQT", "DHT"}
    BY PartsAre DEF Seg
  <2>3. x \in Seq(Segments) /\ z \in Seq(Segments)
    BY PartsAre
  <2> HIDE DEF x, z
  <2> QED BY <2>1, <2>2, <2>3, OutlineOfPart
<1> HIDE DEF h, b, o, x, z
<1>4. s1 \in Seq(Segments) /\ Outline(s1) = o \o x
  BY <1>1, <1>3, Joined, OutlineJoins
<1> HIDE DEF s1
<1>5. s2 \in Seq(Segments) /\ Outline(s2) = o \o x \o b
  BY <1>2, <1>4, Joined, OutlineJoins
<1> HIDE DEF s2
<1>6. s3 \in Seq(Segments) /\ Outline(s3) = o \o x \o b \o z
  BY <1>3, <1>5, Joined, OutlineJoins
<1>7. o \o x \o b \o z = WholeStream(p, k, Len(dqt), Len(dht))
  BY WholeStreamIs DEF o, x, b, z
<1>8. s3 = Header(k, dqt, dht) \o SOS \o Body(p) \o EOI
  BY DEF s3, s2, s1, h, b, x, z
<1> HIDE DEF s3
<1> QED BY <1>1, <1>6, <1>7, <1>8

\* What precedes the headers, and what follows them, is a beginning of it.
LEMMA StartBegins ==
  ASSUME NEW p \in Images, NEW k \in Nat
  PROVE  IsPrefix(Outline(Start(k)), WholeStream(p, k, 0, 0))
<1> DEFINE a == Start(k)
           q == Flat("DQT", 0)
           f == SOF
           h == Flat("DHT", 0)
           x == SOS
           b == Body(p)
           z == EOI
           s1 == a \o q
           s2 == s1 \o f
           s3 == s2 \o h
           s4 == s3 \o x
           s5 == s4 \o b
           s6 == s5 \o z
<1>1. a \in Seq(Segments) /\ Outline(a) = a /\ Len(a) \in Nat
  BY StartOutline, LenProperties
<1>2. q \in Seq(Segments) /\ h \in Seq(Segments)
  BY FlatIs DEF Kinds
<1>3. f \in Seq(Segments) /\ x \in Seq(Segments) /\ z \in Seq(Segments) /\ b \in Seq(Segments)
  BY PartsAre, BodyIs
<1>4. WholeStream(p, k, 0, 0) = s6
  BY WholeStreamIs DEF HeaderOutline
<1> HIDE DEF a, q, f, h, x, b, z
<1>5. s1 \in Seq(Segments) /\ IsPrefix(a, s1)
  BY <1>1, <1>2, Joined, Beginnings
<1> HIDE DEF s1
<1>6. s2 \in Seq(Segments) /\ IsPrefix(a, s2)
  BY <1>1, <1>3, <1>5, Joined, Beginnings
<1> HIDE DEF s2
<1>7. s3 \in Seq(Segments) /\ IsPrefix(a, s3)
  BY <1>1, <1>2, <1>6, Joined, Beginnings
<1> HIDE DEF s3
<1>8. s4 \in Seq(Segments) /\ IsPrefix(a, s4)
  BY <1>1, <1>3, <1>7, Joined, Beginnings
<1> HIDE DEF s4
<1>9. s5 \in Seq(Segments) /\ IsPrefix(a, s5)
  BY <1>1, <1>3, <1>8, Joined, Beginnings
<1> HIDE DEF s5
<1>10. IsPrefix(a, s6)
  BY <1>1, <1>3, <1>9, Beginnings
<1> QED BY <1>1, <1>4, <1>10 DEF a

LEMMA RowsBeginIt ==
  ASSUME NEW p \in Images, WritesBits(p), NEW k \in Nat, NEW t, NEW dqt, Sends(dqt, t),
         NEW dht \in HuffmanSegments, NEW r \in Nat, r <= total_iMCU_rows(p)
  PROVE  LET s == Header(k, dqt, dht) \o SOS \o RowsOfUnits(r)
         IN  \E n \in 0 .. 4, l \in 0 .. 1 : IsPrefix(Outline(s), WholeStream(p, k, n, l))
<1> DEFINE h == Header(k, dqt, dht)
           o == HeaderOutline(k, Len(dqt), Len(dht))
           x == SOS
           w == RowsOfUnits(r)
           z == EOI
           s1 == h \o x
           s2 == s1 \o w
<1>1. /\ h \in Seq(Segments) /\ Outline(h) = o
      /\ Len(dqt) \in 0 .. 4 /\ Len(dht) \in 0 .. 1
  <2>1. dqt \in Seq(Segments) /\ Len(dqt) \in 0 .. 4 /\ \A u \in ToSet(dqt) : u[1] = "DQT"
    BY DEF Sends, DQT
  <2> QED BY <2>1, HeaderOutlineIs, HeaderIs
<1>2. o \in Seq(Segments)
  BY <1>1, OutlineIs
<1>3. w \in Seq(Segments) /\ Outline(w) = w
  BY RowsOutline
<1>4. x \in Seq(Segments) /\ Outline(x) = x /\ z \in Seq(Segments)
  <2>1. \A i \in 1 .. Len(x) : x[i][1] \notin {"DQT", "DHT"}
    BY PartsAre DEF Seg
  <2>2. x \in Seq(Segments) /\ z \in Seq(Segments)
    BY PartsAre
  <2> HIDE DEF x, z
  <2> QED BY <2>1, <2>2, OutlineOfPart
<1>5. PICK rest \in Seq(Segments) : Body(p) = w \o rest
  <2>1. total_iMCU_rows(p) \in Nat
    BY Heights
  <2> QED BY <2>1, RowsBegin DEF Body
<1>6. s2 = Header(k, dqt, dht) \o SOS \o RowsOfUnits(r)
  OBVIOUS
<1>7. WholeStream(p, k, Len(dqt), Len(dht)) = o \o x \o (w \o rest) \o z
  BY <1>5, WholeStreamIs
<1> HIDE DEF h, o, x, w, z
<1>8. s1 \in Seq(Segments) /\ Outline(s1) = o \o x
  BY <1>1, <1>4, Joined, OutlineJoins
<1> HIDE DEF s1
<1>9. s2 \in Seq(Segments) /\ Outline(s2) = o \o x \o w
  BY <1>3, <1>8, Joined, OutlineJoins
<1> HIDE DEF s2
<1> DEFINE ox == o \o x
           a == ox \o w
           b == a \o rest
<1>10. ox \in Seq(Segments)
  BY <1>2, <1>4, Joined
<1>14. Outline(s2) = a /\ WholeStream(p, k, Len(dqt), Len(dht)) = ox \o (w \o rest) \o z
  BY <1>7, <1>9
<1> HIDE DEF ox
<1>11. a \in Seq(Segments) /\ ox \o (w \o rest) = b
  BY <1>3, <1>10, Joined, SameUnits
<1> HIDE DEF a
<1>12. b \in Seq(Segments) /\ IsPrefix(a, b) /\ Len(a) \in Nat
  BY <1>11, Joined, Beginnings, LenProperties
<1>15. WholeStream(p, k, Len(dqt), Len(dht)) = b \o z
  BY <1>11, <1>14
<1> HIDE DEF b
<1>13. IsPrefix(a, b \o z)
  BY <1>4, <1>12, Beginnings
<1>16. IsPrefix(Outline(s2), WholeStream(p, k, Len(dqt), Len(dht)))
  BY <1>13, <1>14, <1>15, Zenon
<1> QED BY <1>1, <1>6, <1>16, Zenon

-----------------------------------------------------------------------------
(* The headers of an image, and what its decoder has.                      *)

\* The coefficients of p are divided by tables of t.
Divides(p, t, used) ==
  /\ DOMAIN t.qno = Comps(p) /\ \A c \in Comps(p) : t.q[t.qno[c]] # NULL
  /\ used = InitQuantizer(p, t)

\* What is flagged as sent is known to the decoder, or is in the segments sent.
HasSent(t, k, sent) ==
  /\ \A i \in Slots : t.qsent[i] /\ t.q[i] # NULL => k.q[i] = t.q[i] \/ DQT(t, i) \in sent
  /\ t.hsent => k.h = "fixed"

LEMMA FrameIs ==
  ASSUME NEW p, NEW t, IsTables(t), DOMAIN t.qno = Comps(p), NEW k, HasSent(t, k, {}),
         NEW f, f = WriteFrameHeader(p, t)
  PROVE  /\ SameButFlags(t, f.tables)
         /\ \E dqt : /\ Sends(dqt, f.tables) /\ f.units = dqt \o SOF
                     /\ HasSent(f.tables, k, ToSet(dqt))
                     /\ \A c \in Comps(p) : f.tables.qsent[f.tables.qno[c]]
<1> DEFINE slots == QSlots(p, t)
           e == EncodeDQT(t, slots)
           dqt == e.units
           u == e.tables
<1>1. \A c \in Comps(p) : t.qno[c] \in Slots
  BY DEF IsTables
<1>2. slots \in SUBSET Slots /\ \A c \in Comps(p) : t.qno[c] \in slots
  BY <1>1 DEF QSlots
<1> HIDE DEF slots
<1>3. /\ Sends(dqt, t) /\ SameButFlags(t, u)
      /\ \A i \in Slots : u.qsent[i] <=> t.qsent[i] \/ i \in slots
      /\ \A i \in slots : t.qsent[i] \/ DQT(t, i) \in ToSet(dqt)
  BY <1>2, TablesAreSent
<1>4. f.units = Append(dqt, Seg("SOF", 0)) /\ f.tables = u
  BY DEF WriteFrameHeader, slots
<1> HIDE DEF e, dqt, u
<1>5. f.units = dqt \o SOF
  <2>1. Seg("SOF", 0) \in Segments /\ dqt \in Seq(Segments)
    BY <1>3, AreSegments DEF Sends
  <2> QED BY <1>4, <2>1, AppendIsConcat DEF SOF
<1>6. u.q = t.q /\ u.qno = t.qno /\ u.hsent = t.hsent /\ \A i : DQT(u, i) = DQT(t, i)
  BY <1>3 DEF SameButFlags, DQT
<1>7. Sends(dqt, u)
  BY <1>3, <1>6 DEF Sends
<1>8. HasSent(u, k, ToSet(dqt))
  BY <1>2, <1>3, <1>6 DEF HasSent
<1>9. \A c \in Comps(p) : u.qsent[u.qno[c]]
  BY <1>1, <1>2, <1>3, <1>6
<1> QED BY <1>3, <1>4, <1>5, <1>7, <1>8, <1>9

LEMMA ScanHeaderIs ==
  ASSUME NEW p, NEW t
  PROVE  /\ EncodeDHT(p, t) \in HuffmanSegments /\ EncodeDHT(p, t) \in Seq(Segments)
         /\ WriteScanHeader(p, t) = EncodeDHT(p, t) \o SOS
<1> DEFINE d == EncodeDHT(p, t)
           u == Seg("SOS", 1)
<1>1. d \in HuffmanSegments
  BY DEF EncodeDHT, HuffmanSegments
<1> HIDE DEF d
<1>2. d \in Seq(Segments) /\ u \in Segments
  <2> DEFINE x == Seg("DHT", "own")
             y == Seg("DHT", "fixed")
  <2>1. x \in Segments /\ y \in Segments
    BY AreSegments
  <2> HIDE DEF x, y
  <2>2. d = <<>> \/ d = <<x>> \/ d = <<y>>
    BY <1>1 DEF HuffmanSegments, x, y
  <2>3. <<>> \in Seq(Segments) /\ <<x>> \in Seq(Segments) /\ <<y>> \in Seq(Segments)
    BY <2>1
  <2>4. d \in Seq(Segments)
    BY <2>2, <2>3, Zenon
  <2> QED BY <2>4, AreSegments
<1> HIDE DEF u
<1>3. Append(d, u) = d \o <<u>>
  BY <1>2, AppendIsConcat
<1> QED BY <1>1, <1>2, <1>3 DEF WriteScanHeader, SOS, d, u

\* The units in the order in which they are handed over.
LEMMA Assembled ==
  ASSUME NEW k \in Nat, NEW dqt \in Seq(Segments), NEW dht \in Seq(Segments),
         NEW b \in Seq(Segments)
  PROVE  /\ Start(k) \o ((dqt \o SOF) \o (dht \o SOS)) = Header(k, dqt, dht) \o SOS
         /\ Start(k) \o (((dqt \o SOF) \o ((dht \o SOS) \o b)) \o EOI)
              = Header(k, dqt, dht) \o SOS \o b \o EOI
         /\ (dqt \o SOF) \o (dht \o SOS) \in Seq(Segments)
         /\ ((dqt \o SOF) \o ((dht \o SOS) \o b)) \o EOI \in Seq(Segments)
<1> DEFINE s == Start(k)
           f == SOF
           x == SOS
           z == EOI
<1>1. /\ s \in Streams /\ f \in Streams /\ x \in Streams /\ z \in Streams
      /\ dqt \in Streams /\ dht \in Streams /\ b \in Streams
  BY StartOutline, PartsAre DEF Streams
<1>2. /\ Header(k, dqt, dht) \o SOS = s \o dqt \o f \o dht \o x
      /\ Header(k, dqt, dht) \o SOS \o b \o EOI = s \o dqt \o f \o dht \o x \o b \o z
  BY DEF Header
<1> HIDE DEF s, f, x, z
<1> DEFINE qf == dqt \o f
           hx == dht \o x
           hb == hx \o b
           u == qf \o hx
           v == qf \o hb
           w == v \o z
<1>3. qf \in Streams /\ hx \in Streams /\ hb \in Streams /\ u \in Streams
  BY <1>1, StreamLaws
<1>4. v \in Streams /\ w \in Streams
  <2> HIDE DEF hb, qf
  <2> QED BY <1>1, <1>3, StreamLaws
<1>5. s \o dqt \in Streams /\ s \o dqt \o f \in Streams
  BY <1>1, StreamLaws
<1>6. s \o dqt \o f \o dht \in Streams /\ s \o dqt \o f \o dht \o x \in Streams
  BY <1>1, <1>5, StreamLaws
<1>7. s \o u = s \o dqt \o f \o dht \o x
  <2>1. s \o u = s \o qf \o hx
    <3> HIDE DEF qf, hx
    <3> QED BY <1>1, <1>3, StreamLaws, SMTT(30)
  <2>2. s \o qf = s \o dqt \o f
    BY <1>1, StreamLaws, SMTT(30)
  <2>3. s \o dqt \o f \o hx = s \o dqt \o f \o dht \o x
    <3> DEFINE y == s \o dqt \o f
    <3>1. y \in Streams
      BY <1>5
    <3> HIDE DEF y
    <3>2. y \o hx = y \o dht \o x
      BY <1>1, <3>1, StreamLaws, SMTT(30)
    <3> QED BY <3>2 DEF y
  <2> QED BY <2>1, <2>2, <2>3
<1>8. v = u \o b
  <2> HIDE DEF qf, hx
  <2> QED BY <1>1, <1>3, StreamLaws, SMTT(30)
<1>9. s \o w = s \o u \o b \o z
  <2> HIDE DEF u, v
  <2>1. s \o w = s \o v \o z
    BY <1>1, <1>4, StreamLaws, SMTT(30)
  <2>2. s \o (u \o b) = s \o u \o b
    BY <1>1, <1>3, StreamLaws, SMTT(30)
  <2> QED BY <1>8, <2>1, <2>2
<1>10. u = (dqt \o SOF) \o (dht \o SOS) /\ w = ((dqt \o SOF) \o ((dht \o SOS) \o b)) \o EOI
  BY DEF f, x, z
<1> HIDE DEF u, w
<1> QED BY <1>2, <1>3, <1>4, <1>7, <1>9, <1>10 DEF s, Streams

\* The first scan follows the headers.
LEMMA ScanFollows ==
  ASSUME NEW h \in Seq(Segments), NEW b \in Seq(Segments)
  PROVE  \E r \in Seq(Segments) : r[1][1] = "SOS" /\ h \o SOS \o b \o EOI = h \o r
<1> DEFINE x == SOS
           z == EOI
           xb == x \o b
           r == xb \o z
<1>1. x \in Seq(Segments) /\ z \in Seq(Segments) /\ Len(x) = 1 /\ x[1][1] = "SOS"
  BY PartsAre DEF Seg
<1> HIDE DEF x, z
<1>2. xb \in Seq(Segments) /\ Len(xb) = 1 + Len(b) /\ Len(b) \in Nat /\ xb[1] = x[1]
  <2>1. /\ xb \in Seq(Segments) /\ Len(xb) = Len(x) + Len(b)
        /\ \A i \in 1 .. Len(x) + Len(b) : xb[i] = IF i <= Len(x) THEN x[i] ELSE b[i - Len(x)]
    BY <1>1, ConcatProperties
  <2>2. Len(b) \in Nat
    BY LenProperties
  <2> HIDE DEF xb
  <2> QED BY <1>1, <2>1, <2>2
<1>3. h \o xb = h \o x \o b
  BY <1>1, StreamLaws DEF Streams
<1> HIDE DEF xb
<1>4. r \in Seq(Segments) /\ r[1] = xb[1]
  <2>1. /\ r \in Seq(Segments) /\ Len(r) = Len(xb) + Len(z)
        /\ \A i \in 1 .. Len(xb) + Len(z) : r[i] = IF i <= Len(xb) THEN xb[i] ELSE z[i - Len(xb)]
    BY <1>1, <1>2, ConcatProperties
  <2>2. Len(z) \in Nat
    BY <1>1, LenProperties
  <2> HIDE DEF r
  <2> QED BY <1>2, <2>1, <2>2
<1>5. h \o r = h \o xb \o z
  <2>1. h \in Streams /\ xb \in Streams /\ z \in Streams
    BY <1>1, <1>2 DEF Streams
  <2> QED BY <2>1, StreamLaws
<1>6. h \o SOS \o b \o EOI = h \o r
  BY <1>3, <1>5 DEF x, z
<1> HIDE DEF r
<1> QED BY <1>1, <1>2, <1>4, <1>6

LEMMA HeaderBrings ==
  ASSUME NEW t, NEW n \in Nat, NEW dqt, Sends(dqt, t), NEW dht \in Seq(Segments),
         NEW b \in Seq(Segments), NEW stream, stream = Header(n, dqt, dht) \o SOS \o b \o EOI
  PROVE  Brings(stream, t, dqt, dht)
<1> DEFINE h == Header(n, dqt, dht)
<1>1. dqt \in Seq(Segments)
  BY DEF Sends
<1>2. /\ h \in Seq(Segments)
      /\ ToSet(h) = {Seg("SOI", 0), Seg("SOF", 0)} \cup ToSet(APP(n)) \cup ToSet(dqt) \cup ToSet(dht)
  BY <1>1, HeaderIs
<1>3. /\ \A u \in ToSet(APP(n)) : u[1] = "APP"
      /\ Seg("SOI", 0)[1] = "SOI" /\ Seg("SOF", 0)[1] = "SOF"
  <2>1. \A u \in ToSet(APP(n)) : u[1] = "APP"
    BY MarkersAre
  <2> QED BY <2>1 DEF Seg
<1>4. stream = h \o SOS \o b \o EOI
  OBVIOUS
<1> HIDE DEF h
<1>5. PICK r \in Seq(Segments) : r[1][1] = "SOS" /\ stream = h \o r
  <2>1. \E r \in Seq(Segments) : r[1][1] = "SOS" /\ h \o SOS \o b \o EOI = h \o r
    BY <1>2, ScanFollows
  <2> QED BY <1>4, <2>1, Zenon
<1>6. /\ \A u \in ToSet(h) : \/ u \in ToSet(dqt) \/ u \in ToSet(dht)
                             \/ u[1] \notin {"DQT", "DHT", "SOS"}
      /\ ToSet(dqt) \cup ToSet(dht) \subseteq ToSet(h)
  <2> DEFINE O == {Seg("SOI", 0), Seg("SOF", 0)} \cup ToSet(APP(n))
  <2>1. \A u \in O : u[1] \notin {"DQT", "DHT", "SOS"}
    BY <1>3
  <2>2. ToSet(h) = O \cup ToSet(dqt) \cup ToSet(dht)
    BY <1>2
  <2> HIDE DEF O
  <2> QED BY <2>1, <2>2
<1> QED BY <1>2, <1>5, <1>6, Zenon DEF Brings

\* A decoder of the image has the tables that it was coded with, and those flagged
\* as sent, as long as the image has no codes of its own.
LEMMA DecoderLearns ==
  ASSUME NEW p, NEW t, IsTables(t), NEW used, Divides(p, t, used),
         NEW dqt, Sends(dqt, t), NEW dht, dht = EncodeDHT(p, t),
         NEW k, IsKnown(k), HasSent(t, k, ToSet(dqt)), \A c \in Comps(p) : t.qsent[t.qno[c]],
         NEW stream, Brings(stream, t, dqt, dht), NEW e, e = Learn(k, stream)
  PROVE  /\ IsKnown(e) /\ e.sound = k.sound
         /\ \A c \in Comps(p) : e.q[t.qno[c]] = used[c]
         /\ e.h = IF HasOwnCodes(p) THEN "own" ELSE "fixed"
         /\ ~HasOwnCodes(p) => HasSent(t, e, {})
<1>1. dht \in HuffmanSegments
  BY ScanHeaderIs
<1>2. Receives(k, t, dqt, dht, e)
  BY <1>1, HeaderIsLearned
<1>3. /\ IsKnown(e) /\ e.sound = k.sound
      /\ \A a \in Slots : e.q[a] = IF DQT(t, a) \in ToSet(dqt) THEN t.q[a] ELSE k.q[a]
      /\ e.h = IF dht = <<>> THEN k.h ELSE dht[1][2]
  BY <1>2, Zenon DEF Receives
<1>4. \A a \in Slots : t.qsent[a] /\ t.q[a] # NULL => e.q[a] = t.q[a]
  BY <1>3 DEF HasSent
<1>5. \A c \in Comps(p) : e.q[t.qno[c]] = used[c]
  <2>1. \A c \in Comps(p) : t.qno[c] \in Slots
    BY DEF IsTables, Divides
  <2>2. \A c \in Comps(p) : used[c] = t.q[t.qno[c]]
    BY DEF Divides, InitQuantizer
  <2> QED BY <1>4, <2>1, <2>2 DEF Divides
<1>6. e.h = IF HasOwnCodes(p) THEN "own" ELSE "fixed"
  <2>1. CASE HasOwnCodes(p)
    <3>1. dht = <<Seg("DHT", "own")>>
      BY <2>1 DEF EncodeDHT, HasOwnCodes
    <3>2. dht # <<>> /\ dht[1][2] = "own"
      BY <3>1 DEF Seg
    <3> QED BY <1>3, <2>1, <3>2
  <2>2. CASE ~HasOwnCodes(p) /\ t.hsent
    <3>1. dht = <<>>
      BY <2>2 DEF EncodeDHT, HasOwnCodes
    <3> QED BY <1>3, <2>2, <3>1 DEF HasSent
  <2>3. CASE ~HasOwnCodes(p) /\ ~t.hsent
    <3>1. dht = <<Seg("DHT", "fixed")>>
      BY <2>3 DEF EncodeDHT, HasOwnCodes
    <3>2. dht # <<>> /\ dht[1][2] = "fixed"
      BY <3>1 DEF Seg
    <3> QED BY <1>3, <2>3, <3>2
  <2> QED BY <2>1, <2>2, <2>3
<1>7. ~HasOwnCodes(p) => HasSent(t, e, {})
  BY <1>4, <1>6 DEF HasSent
<1> QED BY <1>3, <1>5, <1>6, <1>7

-----------------------------------------------------------------------------
(* The sizes of the output buffers.                                        *)

Sized(h) == IsHeap(h) /\ h.outsize \in Int

LEMMA GrowSized ==
  ASSUME NEW h, Sized(h), NEW d, IsDest(d), NEW j \in Nat, NEW g, g = Grow(h, d, j)
  PROVE  Sized(g)
<1>1. CASE d.kind # "mem" \/ j = 0
  BY <1>1 DEF Grow
<1>2. CASE ~(d.kind # "mem" \/ j = 0)
  <2> DEFINE new == h.fresh + j - 1
             size == d.size * 2^(j - 1)
  <2>1. g = [h EXCEPT !.live = (@ \ {h.temp}) \cup {new}, !.fresh = @ + j,
                      !.temp = new, !.output = new, !.outsize = size]
    BY <1>2 DEF Grow
  <2>2. size \in Int
    <3>1. j - 1 \in Nat /\ d.size \in Int
      BY <1>2 DEF IsDest
    <3>2. 2^(j - 1) \in Int
      BY <3>1
    <3>3. \A x, y \in Int : x * y \in Int
      OBVIOUS
    <3> QED BY <3>1, <3>2, <3>3
  <2> HIDE DEF new, size
  <2> QED BY <2>1, <2>2 DEF Sized, IsHeap
<1> QED BY <1>1, <1>2

LEMMA OutputSized ==
  ASSUME Sized(heap), NEW d, IsDest(d), NEW units \in Seq(Segments), NEW last \in BOOLEAN,
         NEW ok \in BOOLEAN, WriteOutput(d, units, last, ok)
  PROVE  Sized(heap')
<1>1. PICK j \in 0 .. Len(units) :
        heap' = LET h == Grow(heap, d, j)
                IN  IF ok /\ last /\ d.kind = "mem" THEN [h EXCEPT !.outsize = Len(dest'.buf)]
                    ELSE h
  BY DEF WriteOutput
<1> DEFINE h == Grow(heap, d, j)
           n == Len(dest'.buf)
<1>2. Sized(h)
  <2>1. j \in Nat
    OBVIOUS
  <2> QED BY <2>1, GrowSized
<1>3. n \in Int
  <2>1. IsDest(dest')
    BY OutputDelivers
  <2> QED BY <2>1, LenProperties DEF IsDest
<1>4. heap' = h \/ heap' = [h EXCEPT !.outsize = n]
  BY <1>1
<1> HIDE DEF h, n
<1> QED BY <1>2, <1>3, <1>4 DEF Sized, IsHeap

LEMMA BitsSized ==
  ASSUME Sized(heap), IsDest(dest), NEW s, NEW ok, EmptyBitWriterBuffer(s, ok)
  PROVE  Sized(heap')
<1> DEFINE n == Len(SubSeq(s.bw, s.output_pos + 1, Len(s.bw)))
<1>1. \E j \in 0 .. n : heap' = Grow(heap, dest, j)
  BY DEF EmptyBitWriterBuffer
<1>2. \A j \in 0 .. n : j \in Nat
  OBVIOUS
<1> QED BY <1>1, <1>2, GrowSized

-----------------------------------------------------------------------------
(* The invariant.                                                          *)

\* In an image p: what has gone out (x), with the bits that are pending, is the start
\* of its stream, with the headers and the coded rows once they are gone.
AfterHeaders(p, x, t, k, s) ==
  \E dqt :
    /\ Sends(dqt, t) /\ HasSent(t, k, ToSet(dqt)) /\ \A c \in Comps(p) : t.qsent[t.qno[c]]
    /\ Wrote(p, x, Header(s.markers, dqt, EncodeDHT(p, t)) \o SOS, s)

Going(p, x, t, k, s, gone) ==
  /\ Divides(p, t, s.used) /\ s.markers \in Nat
  /\ IF gone THEN AfterHeaders(p, x, t, k, s)
     ELSE HasSent(t, k, {}) /\ Wrote(p, x, Start(s.markers), s)

HeadersGone == global_state = "kEncReadImage" /\ WritesBits(img)

\* What the two properties say of an image that is finished.
Done ==
  /\ \E n \in 0 .. 4, l \in 0 .. 1 : Outline(Stream(dest)) = WholeStream(img, m.markers, n, l)
  /\ \A c \in Comps(img) : known.q[tables.qno[c]] = m.used[c]
  /\ known.h = IF HasOwnCodes(img) THEN "own" ELSE "fixed"

StreamTypes == IsDest(dest) /\ Sized(heap) /\ IsTables(tables) /\ IsKnown(known)

StreamInv ==
  /\ StreamTypes /\ global_state \in States
  /\ global_state = "kEncWriteCoeffs" => img.mode = "coeffs"
  /\ global_state \in {"kEncHeader", "kEncWriteCoeffs"} => m.bw = <<>> /\ m.next_iMCU_row = 0
  /\ global_state = "kEncStart" /\ ~failed /\ known.sound => HasSent(tables, known, {})
  /\ global_state # "kEncStart" /\ ~failed => Going(img, Stream(dest), tables, known, m, HeadersGone)
  /\ finished = "image" => global_state = "kEncStart" /\ Done

LEMMA GoingOn ==
  ASSUME NEW p, NEW x, NEW t, IsTables(t), NEW k, NEW s, NEW gone \in BOOLEAN,
         Going(p, x, t, k, s, gone), NEW y, NEW u, SameHeader(s, u),
         \A z \in Seq(Segments) : Wrote(p, x, z, s) => Wrote(p, y, z, u)
  PROVE  Going(p, y, t, k, u, gone)
<1>1. Divides(p, t, u.used) /\ u.markers \in Nat /\ u.markers = s.markers
  BY DEF Going, SameHeader
<1>2. CASE gone
  <2>1. PICK dqt :
          /\ Sends(dqt, t) /\ HasSent(t, k, ToSet(dqt)) /\ \A c \in Comps(p) : t.qsent[t.qno[c]]
          /\ Wrote(p, x, Header(s.markers, dqt, EncodeDHT(p, t)) \o SOS, s)
    BY <1>2 DEF Going, AfterHeaders
  <2>2. Header(s.markers, dqt, EncodeDHT(p, t)) \o SOS \in Seq(Segments)
    <3>1. dqt \in Seq(Segments) /\ EncodeDHT(p, t) \in Seq(Segments) /\ s.markers \in Nat
      BY <2>1, <1>1, ScanHeaderIs DEF Sends
    <3>2. Header(s.markers, dqt, EncodeDHT(p, t)) \in Seq(Segments) /\ SOS \in Seq(Segments)
      BY <3>1, HeaderIs, PartsAre
    <3> QED BY <3>2, JoinedUnits
  <2> QED BY <1>1, <1>2, <2>1, <2>2 DEF Going, AfterHeaders
<1>3. CASE ~gone
  <2>1. HasSent(t, k, {}) /\ Wrote(p, x, Start(s.markers), s)
    BY <1>3 DEF Going
  <2>2. Start(s.markers) \in Seq(Segments)
    BY <1>1, StartOutline
  <2> QED BY <1>1, <1>3, <2>1, <2>2 DEF Going
<1> QED BY <1>2, <1>3

LEMMA StreamIsOfUnits ==
  ASSUME NEW d, IsDest(d)
  PROVE  Stream(d) \in Seq(Segments)
<1> DEFINE none == <<>>
<1>1. d.file \in Streams /\ d.buf \in Streams /\ none \in Streams
  BY DEF IsDest, Streams
<1>2. d.file \o d.buf \in Streams
  BY <1>1, StreamLaws
<1>3. (d.file \o d.buf) \o none = d.file \o d.buf
  <2>1. \A a \in Seq(Segments) : a \o <<>> = a
    OBVIOUS
  <2> QED BY <1>2, <2>1 DEF Streams
<1> HIDE DEF none
<1> QED BY <1>1, <1>3, StreamGrows DEF Streams

\* Some units precede those of the coded rows.
LEMMA GoingWrites ==
  ASSUME NEW p, NEW x, NEW t, NEW k, NEW s, NEW gone \in BOOLEAN, Going(p, x, t, k, s, gone)
  PROVE  \E z \in Seq(Segments) : Wrote(p, x, z, s)
<1>1. s.markers \in Nat
  BY DEF Going
<1>2. CASE gone
  <2>1. PICK dqt : Sends(dqt, t) /\ Wrote(p, x, Header(s.markers, dqt, EncodeDHT(p, t)) \o SOS, s)
    BY <1>2 DEF Going, AfterHeaders
  <2>2. dqt \in Seq(Segments) /\ EncodeDHT(p, t) \in Seq(Segments)
    BY <2>1, ScanHeaderIs DEF Sends
  <2>3. Header(s.markers, dqt, EncodeDHT(p, t)) \o SOS \in Seq(Segments)
    BY <1>1, <2>2, HeaderIs, PartsAre, JoinedUnits
  <2> QED BY <2>1, <2>3
<1>3. CASE ~gone
  <2>1. Wrote(p, x, Start(s.markers), s) /\ Start(s.markers) \in Seq(Segments)
    BY <1>1, <1>3, StartOutline DEF Going
  <2> QED BY <2>1
<1> QED BY <1>2, <1>3

\* jpegli_set_quality and the PSNR search: no table of a component is lost, and those
\* that are new are not flagged.
LEMMA NewTables ==
  ASSUME NEW t, IsTables(t), NEW two_chroma \in BOOLEAN, NEW p,
         NEW u, u = SetQuantMatrices(t, two_chroma, p)
  PROVE  /\ IsTables(u) /\ DOMAIN u.qno = DOMAIN t.qno
         /\ \A c \in DOMAIN t.qno : t.q[t.qno[c]] # NULL => u.q[u.qno[c]] # NULL
         /\ \A k : HasSent(t, k, {}) => HasSent(u, k, {})
<1> DEFINE n == IF two_chroma THEN 3 ELSE 2
           moves == two_chroma /\ Len(t.qno) >= 3
<1>1. /\ DOMAIN u = {"q", "qno", "qsent", "hsent", "next", "aq"}
      /\ u.q = [i \in Slots |-> IF i < n THEN t.next ELSE t.q[i]]
      /\ u.qsent = [i \in Slots |-> i >= n /\ t.qsent[i]]
      /\ u.qno = IF moves THEN [t.qno EXCEPT ![3] = 2] ELSE t.qno
      /\ u.next = t.next + 1 /\ u.hsent = t.hsent
  BY DEF SetQuantMatrices, IsTables
<1>2. /\ t.q \in [Slots -> Nat] /\ t.qsent \in [Slots -> BOOLEAN] /\ t.hsent \in BOOLEAN
      /\ t.next \in Nat \ {0} /\ t.qno \in Seq(Slots)
  BY DEF IsTables
<1>3. u.qno \in Seq(Slots) /\ DOMAIN u.qno = DOMAIN t.qno
  <2>1. 2 \in Slots
    BY DEF Slots
  <2>2. CASE moves
    <3>1. u.qno = [t.qno EXCEPT ![3] = 2]
      BY <1>1, <2>2
    <3>2. t.qno \in [1 .. Len(t.qno) -> Slots] /\ Len(t.qno) \in Nat
      BY <1>2
    <3>3. u.qno \in [1 .. Len(t.qno) -> Slots]
      BY <2>1, <3>1, <3>2
    <3> QED BY <3>1, <3>2, <3>3
  <2>3. CASE ~moves
    BY <1>1, <1>2, <2>3
  <2> QED BY <2>2, <2>3
<1>4. IsTables(u)
  <2>1. u.q \in [Slots -> Nat] /\ u.next \in Nat \ {0}
    <3>1. \A i \in Slots : (IF i < n THEN t.next ELSE t.q[i]) \in Nat
      BY <1>2
    <3>2. u.q \in [Slots -> Nat]
      BY <1>1, <3>1, Zenon
    <3>3. t.next + 1 \in Nat \ {0}
      BY <1>2
    <3> QED BY <1>1, <3>2, <3>3
  <2>2. u.qsent \in [Slots -> BOOLEAN]
    <3>1. \A i \in Slots : (i >= n /\ t.qsent[i]) \in BOOLEAN
      OBVIOUS
    <3> QED BY <1>1, <3>1
  <2> QED BY <1>1, <1>2, <1>3, <2>1, <2>2 DEF IsTables
<1>5. ASSUME NEW c \in DOMAIN t.qno, t.q[t.qno[c]] # NULL
      PROVE  u.q[u.qno[c]] # NULL
  <2>1. t.qno[c] \in Slots
    BY <1>2
  <2>2. CASE moves /\ c = 3
    <3>1. u.qno[c] = 2 /\ 2 \in Slots /\ n = 3
      BY <1>1, <1>5, <2>2 DEF Slots
    <3> QED BY <1>1, <1>2, <3>1 DEF NULL
  <2>3. CASE ~(moves /\ c = 3)
    <3>1. u.qno[c] = t.qno[c]
      BY <1>1, <1>5, <2>3
    <3> QED BY <1>1, <1>2, <1>5, <2>1, <3>1 DEF NULL
  <2> QED BY <2>2, <2>3
<1>6. ASSUME NEW k, HasSent(t, k, {}) PROVE HasSent(u, k, {})
  <2>1. ASSUME NEW i \in Slots, u.qsent[i], u.q[i] # NULL PROVE k.q[i] = u.q[i]
    <3>1. i >= n /\ t.qsent[i]
      BY <1>1, <2>1
    <3>2. u.q[i] = t.q[i]
      <4>1. i \in Int /\ n \in Int
        BY DEF Slots
      <4> QED BY <1>1, <3>1, <4>1
    <3> QED BY <1>6, <2>1, <3>1, <3>2 DEF HasSent
  <2> QED BY <1>1, <1>6, <2>1 DEF HasSent
<1> QED BY <1>3, <1>4, <1>5, <1>6

LEMMA StreamStarts == Init => StreamInv
<1> SUFFICES ASSUME Init PROVE StreamInv
  OBVIOUS
<1>1. AnImage \in Images /\ AnImage.q \in Seq(Slots)
  <2>1. AnImage \in Images
    BY ImagesAssumption DEF AnImage
  <2>2. AnImage \in Image
    BY <2>1, ImagesAssumption
  <2> QED BY <2>1, <2>2 DEF Image, Slots
<1>2. IsDest(dest)
  <2> DEFINE none == <<>>
  <2>1. none \in Seq(Segments) /\ Len(none) = 0
    OBVIOUS
  <2>2. dest = [kind |-> "none", size |-> 0, buf |-> none, file |-> none, base |-> 0, ready |-> FALSE]
    BY DEF Init
  <2> HIDE DEF none
  <2> QED BY <2>1, <2>2 DEF IsDest
<1>3. Sized(heap)
  BY DEF Init, Sized, IsHeap
<1>4. IsTables(tables)
  <2>1. /\ DOMAIN tables = {"q", "qno", "qsent", "hsent", "next", "aq"}
        /\ tables.q = [i \in Slots |-> IF i < 2 THEN 1 ELSE NULL]
        /\ tables.qno = AnImage.q /\ tables.qsent = [i \in Slots |-> FALSE]
        /\ tables.hsent = FALSE /\ tables.next = 2
    BY DEF Init
  <2>2. tables.q \in [Slots -> Nat]
    BY <2>1 DEF NULL
  <2>3. tables.qsent \in [Slots -> BOOLEAN] /\ tables.hsent \in BOOLEAN
    BY <2>1
  <2>4. tables.next \in Nat \ {0}
    BY <2>1
  <2>5. tables.qno \in Seq(Slots)
    BY <1>1, <2>1
  <2> QED BY <2>1, <2>2, <2>3, <2>4, <2>5, Zenon DEF IsTables
<1>5. IsKnown(known)
  BY DEF Init, IsKnown
<1>6. HasSent(tables, known, {})
  <2>1. tables.qsent = [i \in Slots |-> FALSE] /\ tables.hsent = FALSE
    BY DEF Init
  <2> QED BY <2>1 DEF HasSent
<1>7. global_state = "kEncStart" /\ finished = "no"
  BY DEF Init
<1> QED BY <1>2, <1>3, <1>4, <1>5, <1>6, <1>7 DEF StreamInv, StreamTypes, States

\* A step that moves nothing, whether it fails or not.
LEMMA NothingMoved ==
  ASSUME StreamInv, img' = img, m' = m, dest' = dest, heap' = heap, tables' = tables,
         known' = known, global_state' = global_state,
         failed' = failed \/ failed' = TRUE, finished' \in {finished, "no"}
  PROVE  StreamInv'
<1>1. ~failed' => ~failed
  OBVIOUS
<1>2. HeadersGone' = HeadersGone
  BY DEF HeadersGone
<1>3. Done' = Done
  BY DEF Done
<1> QED BY <1>1, <1>2, <1>3 DEF StreamInv, StreamTypes

\* A step that codes rows, and empties the bit writer or tries to.
LEMMA RowsGo ==
  ASSUME StreamInv, ~failed, global_state = "kEncReadImage", NEW s, IsMaster(s), SameHeader(m, s),
         \A z \in Seq(Segments) : Wrote(img, Stream(dest), z, m) => Wrote(img, Stream(dest), z, s),
         NEW ok \in BOOLEAN, EmptyBitWriterBuffer(s, ok), global_state' = global_state,
         img' = img, tables' = tables, known' = known, finished' = finished
  PROVE  StreamInv'
<1> DEFINE x == Stream(dest)
           y == Stream(dest')
<1>1. /\ StreamTypes /\ HeadersGone \in BOOLEAN
      /\ Going(img, x, tables, known, m, HeadersGone)
  BY DEF StreamInv, HeadersGone
<1>2. Going(img, x, tables, known, s, HeadersGone)
  BY <1>1, GoingOn DEF StreamTypes
<1>3. IsWriter(s)
  <2>1. \E z \in Seq(Segments) : Wrote(img, x, z, s)
    BY <1>1, <1>2, GoingWrites
  <2> QED BY <2>1 DEF Wrote
<1>4. /\ IsDest(dest') /\ IsWriter(m') /\ SameHeader(s, m')
      /\ m'.next_iMCU_row = s.next_iMCU_row /\ y \o Pending(m') = x \o Pending(s)
  BY <1>1, <1>3, WriterDelivers DEF StreamTypes
<1>5. \A z \in Seq(Segments) : Wrote(img, x, z, s) => Wrote(img, y, z, m')
  BY <1>4 DEF Wrote
<1>6. Going(img, y, tables, known, m', HeadersGone)
  BY <1>1, <1>2, <1>4, <1>5, GoingOn DEF StreamTypes
<1>7. Sized(heap')
  BY <1>1, BitsSized DEF StreamTypes
<1>8. HeadersGone' = HeadersGone
  BY DEF HeadersGone
<1>9. StreamTypes'
  BY <1>1, <1>4, <1>7 DEF StreamTypes
<1>10. finished # "image"
  BY DEF StreamInv
<1> QED BY <1>6, <1>8, <1>9, <1>10 DEF StreamInv

LEMMA UsableMaster ==
  ASSUME Inv
  PROVE  Usable(img, m) /\ img \in Images
BY ShapeAssumption DEF Inv, MasterInv, RowsInv, RingsInv, Usable

\* The rows of an image are fed, and the bits of those that are complete follow.
LEMMA FedRowsGo ==
  ASSUME StreamInv, Inv, ~failed, global_state = "kEncReadImage", NEW read, Usable(img, read),
         read.bw = m.bw, read.output_pos = m.output_pos, read.next_iMCU_row = m.next_iMCU_row,
         SameHeader(m, read), NEW density, NEW ok \in BOOLEAN,
         EmptyBitWriterBuffer(ProcessiMCURows(img, read, density), ok),
         global_state' = global_state,
         img' = img, tables' = tables, known' = known, finished' = finished
  PROVE  StreamInv'
<1> DEFINE x == Stream(dest)
           s == ProcessiMCURows(img, read, density)
<1>1. x \in Seq(Segments)
  BY StreamIsOfUnits DEF StreamInv, StreamTypes
<1>2. ASSUME NEW z \in Seq(Segments), Wrote(img, x, z, m) PROVE Wrote(img, x, z, s)
  <2>1. Wrote(img, x, z, read)
    BY <1>2, WroteNothing
  <2> QED BY <1>1, <2>1, WroteRows
<1>3. IsMaster(s) /\ SameHeader(m, s)
  <2>1. \E z \in Seq(Segments) : Wrote(img, x, z, m)
    BY GoingWrites DEF StreamInv, HeadersGone
  <2>2. PICK z \in Seq(Segments) : Wrote(img, x, z, read)
    BY <2>1, WroteNothing
  <2>3. Usable(img, s) /\ SameHeader(read, s)
    BY <1>1, <2>2, WroteRows
  <2> QED BY <2>3 DEF SameHeader, Usable
<1> HIDE DEF s
<1>4. EmptyBitWriterBuffer(s, ok)
  BY DEF s
<1> QED BY <1>2, <1>3, <1>4, RowsGo

\* Reading lines writes nothing, and keeps the rings of all components.
LEMMA LineIsRead ==
  ASSUME NEW p, NEW s, Usable(p, s), NEW line, NEW t, t = ReadInputRow(p, s, line)
  PROVE  /\ Usable(p, t) /\ SameHeader(s, t) /\ t.bw = s.bw
         /\ t.output_pos = s.output_pos /\ t.next_iMCU_row = s.next_iMCU_row
BY DEF Usable, IsMaster, SameHeader, ReadInputRow

LEMMA LinesArePadded ==
  ASSUME NEW p, NEW s, Usable(p, s), NEW t, t = PadInputBuffer(p, s)
  PROVE  /\ Usable(p, t) /\ SameHeader(s, t) /\ t.bw = s.bw
         /\ t.output_pos = s.output_pos /\ t.next_iMCU_row = s.next_iMCU_row
BY DEF Usable, IsMaster, SameHeader, PadInputBuffer

LEMMA RawRowsAreRead ==
  ASSUME NEW p, NEW s, Usable(p, s), NEW t, t = ReadRawRows(p, s)
  PROVE  /\ Usable(p, t) /\ SameHeader(s, t) /\ t.bw = s.bw
         /\ t.output_pos = s.output_pos /\ t.next_iMCU_row = s.next_iMCU_row
BY DEF Usable, IsMaster, SameHeader, ReadRawRows

-----------------------------------------------------------------------------
(* The steps.                                                              *)

LEMMA WriteLineGoesOn ==
  ASSUME StreamInv, Inv, WriteLine
  PROVE  StreamInv'
<1>1. /\ ~failed /\ global_state = "kEncReadImage" /\ global_state' = global_state
      /\ img' = img /\ tables' = tables /\ known' = known /\ finished' = finished
  BY IdleIs DEF WriteLine, Inv, LinesInv
<1>2. PICK density \in TokensPerBlock, ok \in BOOLEAN :
        EmptyBitWriterBuffer(
          ProcessiMCURows(img, PadInputBuffer(img, ReadInputRow(img, m, call.line)), density), ok)
  BY DEF WriteLine
<1> DEFINE q == ReadInputRow(img, m, call.line)
           read == PadInputBuffer(img, q)
<1>3. Usable(img, m)
  BY UsableMaster
<1>4. /\ Usable(img, q) /\ SameHeader(m, q) /\ q.bw = m.bw
      /\ q.output_pos = m.output_pos /\ q.next_iMCU_row = m.next_iMCU_row
  BY <1>3, LineIsRead
<1> HIDE DEF q
<1>5. /\ Usable(img, read) /\ SameHeader(q, read) /\ read.bw = q.bw
      /\ read.output_pos = q.output_pos /\ read.next_iMCU_row = q.next_iMCU_row
  BY <1>4, LinesArePadded
<1> HIDE DEF read
<1>6. SameHeader(m, read)
  BY <1>4, <1>5 DEF SameHeader
<1>7. EmptyBitWriterBuffer(ProcessiMCURows(img, read, density), ok)
  BY <1>2 DEF read, q
<1>8. /\ read.bw = m.bw /\ read.output_pos = m.output_pos
      /\ read.next_iMCU_row = m.next_iMCU_row
  BY <1>4, <1>5
<1> QED BY <1>1, <1>5, <1>6, <1>7, <1>8, FedRowsGo

LEMMA WriteRawRowsGoesOn ==
  ASSUME StreamInv, Inv, WriteRawRows
  PROVE  StreamInv'
<1>1. /\ ~failed /\ global_state = "kEncReadImage" /\ global_state' = global_state
      /\ img' = img /\ tables' = tables /\ known' = known /\ finished' = finished
  BY IdleIs DEF WriteRawRows, Inv, LinesInv
<1>2. CASE /\ m' = m /\ dest' = dest /\ heap' = heap
           /\ failed' = failed \/ failed' = TRUE
  BY <1>1, <1>2, NothingMoved
<1>3. CASE ~(/\ m' = m /\ dest' = dest /\ heap' = heap
             /\ failed' = failed \/ failed' = TRUE)
  <2>1. PICK density \in TokensPerBlock, ok \in BOOLEAN :
          EmptyBitWriterBuffer(
            IF next_scanline < m.next_input_row THEN m
            ELSE ProcessiMCURows(img, ReadRawRows(img, m), density), ok)
    BY <1>3 DEF WriteRawRows
  <2>2. Usable(img, m)
    BY UsableMaster
  <2>3. CASE next_scanline < m.next_input_row
    <3>1. EmptyBitWriterBuffer(m, ok) /\ IsMaster(m) /\ SameHeader(m, m)
      BY <2>1, <2>2, <2>3 DEF Usable, SameHeader
    <3> QED BY <1>1, <3>1, RowsGo
  <2>4. CASE ~(next_scanline < m.next_input_row)
    <3> DEFINE read == ReadRawRows(img, m)
    <3>1. EmptyBitWriterBuffer(ProcessiMCURows(img, read, density), ok)
      BY <2>1, <2>4
    <3>2. /\ Usable(img, read) /\ SameHeader(m, read) /\ read.bw = m.bw
          /\ read.output_pos = m.output_pos /\ read.next_iMCU_row = m.next_iMCU_row
      BY <2>2, RawRowsAreRead
    <3> HIDE DEF read
    <3> QED BY <1>1, <3>1, <3>2, FedRowsGo
  <2> QED BY <2>3, <2>4
<1> QED BY <1>2, <1>3

LEMMA CatchUpGoesOn ==
  ASSUME StreamInv, Inv, CatchUp
  PROVE  StreamInv'
<1>1. /\ ~failed /\ global_state = "kEncReadImage" /\ global_state' = global_state
      /\ img' = img /\ tables' = tables /\ known' = known /\ finished' = finished
  BY IdleIs DEF CatchUp, Inv, LinesInv
<1>2. CASE /\ m' = m /\ dest' = dest /\ heap' = heap
           /\ failed' = failed \/ failed' = TRUE
  BY <1>1, <1>2, NothingMoved
<1>3. CASE ~(/\ m' = m /\ dest' = dest /\ heap' = heap
             /\ failed' = failed \/ failed' = TRUE)
  <2>1. PICK ok \in BOOLEAN : EmptyBitWriterBuffer(m, ok)
    BY <1>3 DEF CatchUp
  <2>2. IsMaster(m) /\ SameHeader(m, m)
    BY UsableMaster DEF Usable, SameHeader
  <2> QED BY <1>1, <2>1, <2>2, RowsGo
<1> QED BY <1>2, <1>3

LEMMA AbortCompressGoesOn ==
  ASSUME StreamInv, AbortCompress
  PROVE  StreamInv'
<1>1. /\ global_state' = "kEncStart" /\ finished' = "no" /\ dest' = dest /\ heap' = heap
      /\ tables' = tables /\ known' = [known EXCEPT !.sound = FALSE]
  BY DEF AbortCompress
<1>2. IsKnown(known') /\ known'.sound = FALSE
  BY <1>1 DEF StreamInv, StreamTypes, IsKnown
<1> QED BY <1>1, <1>2 DEF StreamInv, StreamTypes, States

LEMMA SetDestGoesOn ==
  ASSUME StreamInv, NEW d \in Dests, NEW var, SetDest(d, var)
  PROVE  StreamInv'
<1>1. /\ ~failed /\ global_state = "kEncStart" /\ global_state' = global_state
      /\ img' = img /\ m' = m /\ tables' = tables /\ known' = known /\ finished' = "no"
  BY DEF SetDest, Ready
<1>2. CASE dest.kind \notin {"none", d.kind}
  <2>1. failed' = TRUE /\ dest' = dest /\ heap' = heap
    BY <1>2 DEF SetDest
  <2> QED BY <1>1, <2>1, NothingMoved
<1>3. CASE ~(dest.kind \notin {"none", d.kind})
  <2> DEFINE none == <<>>
             size == IF d.kind = "mem" /\ var = "same" THEN heap.outsize ELSE d.size
  <2>1. /\ dest' = [kind |-> d.kind, buf |-> none, file |-> none, base |-> 0, ready |-> TRUE,
                    size |-> size]
        /\ heap' = IF d.kind # "mem" \/ var = "same" THEN heap
                   ELSE [live |-> heap.live \cup {heap.fresh}, fresh |-> heap.fresh + 1,
                         kept |-> heap.kept \cup ({heap.output} \ {NULL}),
                         output |-> heap.fresh, outsize |-> d.size,
                         temp |-> IF var = "fresh" THEN TempBuffer(heap) ELSE heap.temp]
        /\ failed' = failed
    BY <1>3 DEF SetDest
  <2>2. d.size \in Nat /\ heap.outsize \in Int
    BY DestsAssumption DEF StreamInv, StreamTypes, Sized
  <2>3. none \in Seq(Segments) /\ Len(none) = 0
    OBVIOUS
  <2>4. size \in Int /\ (d.kind # "mem" => size \in Nat)
    BY <2>2
  <2> HIDE DEF none, size
  <2>5. IsDest(dest')
    BY <2>1, <2>3, <2>4 DEF IsDest
  <2>6. Sized(heap')
    BY <2>1, <2>2 DEF StreamInv, StreamTypes, Sized, IsHeap
  <2> QED BY <1>1, <2>1, <2>5, <2>6 DEF StreamInv, StreamTypes
<1> QED BY <1>2, <1>3

LEMMA SetQualityGoesOn ==
  ASSUME StreamInv, NEW two_chroma \in BOOLEAN, SetQuality(two_chroma)
  PROVE  StreamInv'
<1>1. /\ ~failed /\ global_state = "kEncStart" /\ global_state' = global_state /\ failed' = failed
      /\ dest' = dest /\ heap' = heap /\ known' = known /\ finished' = "no"
      /\ tables' = SetQuantMatrices(tables, two_chroma, img)
  BY DEF SetQuality, Ready
<1>2. IsTables(tables') /\ (HasSent(tables, known, {}) => HasSent(tables', known, {}))
  BY <1>1, NewTables DEF StreamInv, StreamTypes
<1> QED BY <1>1, <1>2 DEF StreamInv, StreamTypes

\* Before the first row, the bit writer holds nothing.
LEMMA NothingPending ==
  ASSUME NEW s, s.bw = <<>>, s.output_pos = 0 \/ IsWriter(s)
  PROVE  IsWriter(s) /\ Pending(s) = <<>>
<1>1. s.output_pos = 0
  BY DEF IsWriter
<1>2. SubSeq(<<>>, 0 + 1, Len(<<>>)) = <<>>
  OBVIOUS
<1>3. Pending(s) = <<>>
  BY <1>1, <1>2 DEF Pending
<1>4. <<>> \in Seq(Segments) /\ 0 \in 0 .. Len(<<>>)
  OBVIOUS
<1> QED BY <1>1, <1>3, <1>4 DEF IsWriter

LEMMA WroteBefore ==
  ASSUME NEW p, NEW x \in Seq(Segments), NEW y \in Seq(Segments), NEW s, s.bw = <<>>,
         s.output_pos = 0 \/ IsWriter(s), s.next_iMCU_row = 0
  PROVE  Wrote(p, x, y, s) <=> x = y
<1>1. IsWriter(s) /\ Pending(s) = <<>>
  BY NothingPending
<1>2. x \o <<>> = x /\ y \o <<>> = y
  OBVIOUS
<1>3. RowsOfUnits(0) = <<>>
  <2> DEFINE n == 0
  <2>1. n \in Nat /\ n = 0
    OBVIOUS
  <2> HIDE DEF n
  <2>2. RowsOfUnits(n) = <<>>
    BY <2>1, RowsOutline
  <2> QED BY <2>1, <2>2
<1> QED BY <1>1, <1>2, <1>3 DEF Wrote

LEMMA WriteMarkerGoesOn ==
  ASSUME StreamInv, Inv, WriteMarker
  PROVE  StreamInv'
<1> DEFINE k == m.markers
           x == Stream(dest)
           units == <<Seg("APP", k)>>
<1>1. /\ ~failed /\ global_state \in {"kEncHeader", "kEncWriteCoeffs"}
      /\ global_state' = global_state /\ img' = img /\ tables' = tables /\ known' = known
      /\ finished' = finished /\ m' = [m EXCEPT !.markers = @ + 1]
  BY DEF WriteMarker, Ready
<1>2. PICK ok \in BOOLEAN : WriteOutput(dest, units, FALSE, ok)
  BY DEF WriteMarker
<1>3. HeadersGone = FALSE /\ HeadersGone' = FALSE
  BY <1>1 DEF HeadersGone
<1>4. /\ IsDest(dest) /\ Sized(heap) /\ IsTables(tables) /\ IsKnown(known) /\ IsMaster(m)
      /\ Divides(img, tables, m.used) /\ k \in Nat /\ HasSent(tables, known, {})
      /\ Wrote(img, x, Start(k), m) /\ m.bw = <<>> /\ m.next_iMCU_row = 0
  BY <1>1, <1>3 DEF StreamInv, StreamTypes, Going, Inv, MasterInv, RowsInv
<1>5. units \in Seq(Segments)
  <2>1. Seg("APP", k) \in Segments
    BY <1>4, AreSegments
  <2> QED BY <2>1
<1> HIDE DEF units
<1>6. /\ IsDest(dest') /\ failed' = ~ok /\ (ok => Stream(dest') = x \o units)
      /\ Sized(heap')
  BY <1>2, <1>4, <1>5, OutputDelivers, OutputSized
<1>7. /\ m'.markers = k + 1 /\ m'.bw = <<>> /\ m'.next_iMCU_row = 0 /\ m'.used = m.used
      /\ IsWriter(m')
  BY <1>1, <1>4 DEF IsMaster, IsWriter, Wrote
<1>8. ASSUME ok PROVE Going(img, Stream(dest'), tables', known', m', FALSE)
  <2>1. x \in Seq(Segments) /\ Start(k) \in Seq(Segments) /\ Start(k + 1) = Start(k) \o units
    BY <1>4, OneMore, StreamIsOfUnits DEF units
  <2>2. IsWriter(m)
    BY <1>4 DEF Wrote
  <2>3. x = Start(k)
    BY <1>4, <2>1, <2>2, WroteBefore
  <2>4. Stream(dest') = Start(k + 1)
    BY <1>6, <1>8, <2>1, <2>3
  <2>5. Stream(dest') \in Seq(Segments)
    BY <1>6, StreamIsOfUnits
  <2>6. Wrote(img, Stream(dest'), Start(m'.markers), m')
    BY <1>7, <2>4, <2>5, WroteBefore
  <2> QED BY <1>1, <1>4, <1>7, <2>6 DEF Going
<1>9. StreamTypes'
  BY <1>1, <1>4, <1>6 DEF StreamTypes
<1>10. ~failed' => Going(img, Stream(dest), tables, known, m, HeadersGone)'
  BY <1>1, <1>3, <1>6, <1>8
<1>11. finished # "image"
  BY <1>1 DEF StreamInv
<1> QED BY <1>1, <1>7, <1>9, <1>10, <1>11 DEF StreamInv, States

\* Writing nothing is no step of the stream.
LEMMA NothingOut ==
  ASSUME NEW x \in Seq(Segments)
  PROVE  x \o <<>> = x /\ <<>> \in Seq(Segments)
OBVIOUS

LEMMA BeginWriteGoesOn ==
  ASSUME StreamInv, Inv, NEW n \in LineCounts, BeginWrite(n)
  PROVE  StreamInv'
<1> DEFINE k == m.markers
           x == Stream(dest)
           headers == global_state = "kEncHeader" /\ WritesBits(img)
           frame == WriteFrameHeader(img, tables)
           u == frame.tables
           none == <<>>
           units == frame.units \o WriteScanHeader(img, u)
<1>1. /\ ~failed /\ global_state \in {"kEncHeader", "kEncReadImage"}
      /\ global_state' = "kEncReadImage" /\ img' = img /\ m' = m /\ known' = known
      /\ finished' = finished
  BY DEF BeginWrite, Ready
<1>2. PICK ok \in BOOLEAN :
        /\ WriteOutput(dest, IF headers THEN units ELSE none, FALSE, ok)
        /\ tables' = IF headers THEN u ELSE tables
  BY DEF BeginWrite
<1>3. /\ IsDest(dest) /\ Sized(heap) /\ IsTables(tables) /\ IsKnown(known)
      /\ Going(img, x, tables, known, m, HeadersGone)
  BY <1>1 DEF StreamInv, StreamTypes
<1>4. x \in Seq(Segments) /\ k \in Nat /\ Divides(img, tables, m.used)
  BY <1>3, StreamIsOfUnits DEF Going
<1>5. finished # "image"
  BY <1>1 DEF StreamInv
<1>6. StreamTypes' /\ (~failed' => Going(img, Stream(dest'), tables', known, m, HeadersGone'))
  <2>1. CASE headers
    <3>1. HeadersGone = FALSE /\ HeadersGone' = TRUE
      BY <1>1, <2>1 DEF HeadersGone
    <3>2. /\ HasSent(tables, known, {}) /\ Wrote(img, x, Start(k), m)
          /\ m.bw = <<>> /\ m.next_iMCU_row = 0
      BY <1>3, <2>1, <3>1 DEF Going, StreamInv
    <3>3. DOMAIN tables.qno = Comps(img)
      BY <1>4 DEF Divides
    <3>4. /\ SameButFlags(tables, u)
          /\ \E dqt : /\ Sends(dqt, u) /\ frame.units = dqt \o SOF
                      /\ HasSent(u, known, ToSet(dqt))
                      /\ \A c \in Comps(img) : u.qsent[u.qno[c]]
      BY <1>3, <3>2, <3>3, FrameIs
    <3>5. PICK dqt : /\ Sends(dqt, u) /\ frame.units = dqt \o SOF
                     /\ HasSent(u, known, ToSet(dqt))
                     /\ \A c \in Comps(img) : u.qsent[u.qno[c]]
      BY <3>4
    <3> HIDE DEF frame
    <3> DEFINE dht == EncodeDHT(img, u)
               header == Header(k, dqt, dht) \o SOS
    <3>6. /\ dht \in Seq(Segments) /\ WriteScanHeader(img, u) = dht \o SOS
          /\ dqt \in Seq(Segments)
      BY <3>5, ScanHeaderIs DEF Sends
    <3> HIDE DEF dht
    <3>7. units = (dqt \o SOF) \o (dht \o SOS)
      BY <3>5, <3>6
    <3> HIDE DEF units
    <3>8. units \in Seq(Segments) /\ Start(k) \o units = header
      <4>1. none \in Seq(Segments)
        BY <1>4, NothingOut
      <4> HIDE DEF none
      <4> QED BY <1>4, <3>6, <3>7, <4>1, Assembled
    <3>9. WriteOutput(dest, units, FALSE, ok) /\ tables' = u
      BY <1>2, <2>1
    <3>10. /\ IsDest(dest') /\ failed' = ~ok /\ (ok => Stream(dest') = x \o units)
           /\ Sized(heap')
      BY <1>3, <3>8, <3>9, OutputDelivers, OutputSized
    <3>11. StreamTypes'
      BY <1>1, <1>3, <3>4, <3>9, <3>10 DEF StreamTypes, SameButFlags
    <3>12. ASSUME ~failed' PROVE Going(img, Stream(dest'), u, known, m, TRUE)
      <4>1. IsWriter(m) /\ Start(k) \in Seq(Segments)
        BY <1>4, <3>2, StartOutline DEF Wrote
      <4>2. x = Start(k)
        BY <1>4, <3>2, <4>1, WroteBefore
      <4>3. Stream(dest') = header
        BY <3>8, <3>10, <3>12, <4>2
      <4>4. header \in Seq(Segments)
        <5>1. Stream(dest') \in Seq(Segments)
          BY <3>10, StreamIsOfUnits
        <5> HIDE DEF header
        <5> QED BY <4>3, <5>1
      <4> HIDE DEF header
      <4>5. Wrote(img, Stream(dest'), header, m)
        BY <3>2, <4>1, <4>3, <4>4, WroteBefore
      <4>6. AfterHeaders(img, Stream(dest'), u, known, m)
        BY <3>5, <4>5 DEF AfterHeaders, header, dht
      <4>7. Divides(img, u, m.used)
        BY <1>4, <3>4 DEF Divides, InitQuantizer, SameButFlags
      <4> QED BY <1>4, <4>6, <4>7 DEF Going
    <3> QED BY <3>1, <3>9, <3>11, <3>12
  <2>2. CASE ~headers
    <3>1. HeadersGone' = HeadersGone
      BY <1>1, <2>2 DEF HeadersGone
    <3> HIDE DEF units, frame
    <3>2. WriteOutput(dest, none, FALSE, ok) /\ tables' = tables
      BY <1>2, <2>2
    <3>3. none \in Seq(Segments) /\ x \o none = x
      BY <1>4, NothingOut
    <3> HIDE DEF none
    <3>4. /\ IsDest(dest') /\ failed' = ~ok /\ (ok => Stream(dest') = x)
          /\ Sized(heap')
      BY <1>3, <3>2, <3>3, OutputDelivers, OutputSized
    <3>5. StreamTypes'
      BY <1>1, <1>3, <3>2, <3>4 DEF StreamTypes
    <3> QED BY <1>3, <3>1, <3>2, <3>4, <3>5
  <2> QED BY <2>1, <2>2
<1> QED BY <1>1, <1>5, <1>6 DEF StreamInv, States

\* The flags of all tables are set or reset at once.
FlagsAre(t, flag, u) ==
  /\ IsTables(u) /\ u.q = t.q /\ u.qno = t.qno /\ u.hsent = flag
  /\ \A i \in Slots : u.qsent[i] = flag

LEMMA FlagsSet ==
  ASSUME NEW t, IsTables(t)
  PROVE  FlagsAre(t, TRUE, jpegli_suppress_tables(t, TRUE))
<1> DEFINE u == jpegli_suppress_tables(t, TRUE)
<1>1. /\ DOMAIN u = {"q", "qno", "qsent", "hsent", "next", "aq"}
      /\ u.q = t.q /\ u.qno = t.qno /\ u.next = t.next
      /\ u.qsent = [i \in Slots |-> TRUE] /\ u.hsent = TRUE
  BY DEF IsTables, jpegli_suppress_tables
<1>2. u.qsent \in [Slots -> BOOLEAN]
  BY <1>1
<1> HIDE DEF u
<1>3. FlagsAre(t, TRUE, u)
  BY <1>1, <1>2 DEF IsTables, FlagsAre
<1> QED BY <1>3 DEF u

LEMMA FlagsReset ==
  ASSUME NEW t, IsTables(t)
  PROVE  FlagsAre(t, FALSE, jpegli_suppress_tables(t, FALSE))
<1> DEFINE u == jpegli_suppress_tables(t, FALSE)
<1>1. /\ DOMAIN u = {"q", "qno", "qsent", "hsent", "next", "aq"}
      /\ u.q = t.q /\ u.qno = t.qno /\ u.next = t.next
      /\ u.qsent = [i \in Slots |-> FALSE] /\ u.hsent = FALSE
  BY DEF IsTables, jpegli_suppress_tables
<1>2. u.qsent \in [Slots -> BOOLEAN]
  BY <1>1
<1> HIDE DEF u
<1>3. FlagsAre(t, FALSE, u)
  BY <1>1, <1>2 DEF IsTables, FlagsAre
<1> QED BY <1>3 DEF u

\* The tables of a new image: all of them are to be sent, or those that are not flagged.
Assigned(p, t, aq) == [t EXCEPT !.qno = p.q, !.aq = aq]

ForImage(p, t, k, u) ==
  \E aq : \/ u = Assigned(p, t, aq) /\ HasSent(t, k, {})
          \/ u = jpegli_suppress_tables(Assigned(p, t, aq), FALSE)

LEMMA ImageTables ==
  ASSUME NEW p \in Images, NEW t, IsTables(t), NEW k, NEW u, ForImage(p, t, k, u)
  PROVE  IsTables(u) /\ u.q = t.q /\ u.qno = p.q /\ HasSent(u, k, {})
<1>0. PICK aq : \/ u = Assigned(p, t, aq) /\ HasSent(t, k, {})
                \/ u = jpegli_suppress_tables(Assigned(p, t, aq), FALSE)
  BY DEF ForImage
<1> DEFINE t0 == Assigned(p, t, aq)
<1>1. p.q \in Seq(Slots)
  BY ImagesAssumption DEF Image, Slots
<1>2. /\ DOMAIN t0 = {"q", "qno", "qsent", "hsent", "next", "aq"}
      /\ t0.q = t.q /\ t0.qno = p.q /\ t0.next = t.next
      /\ t0.qsent = t.qsent /\ t0.hsent = t.hsent
  BY DEF IsTables, Assigned
<1>3. IsTables(t0)
  BY <1>1, <1>2 DEF IsTables
<1> HIDE DEF t0
<1>4. ASSUME u = jpegli_suppress_tables(t0, FALSE)
      PROVE  IsTables(u) /\ u.q = t.q /\ u.qno = p.q /\ HasSent(u, k, {})
  <2>1. FlagsAre(t0, FALSE, u)
    BY <1>3, <1>4, FlagsReset, Zenon
  <2> QED BY <1>2, <2>1 DEF HasSent, FlagsAre
<1>5. ASSUME u = t0 /\ HasSent(t, k, {})
      PROVE  IsTables(u) /\ u.q = t.q /\ u.qno = p.q /\ HasSent(u, k, {})
  BY <1>2, <1>3, <1>5 DEF HasSent
<1> QED BY <1>0, <1>4, <1>5 DEF t0

LEMMA StartCompressGoesOn ==
  ASSUME StreamInv, Inv, NEW p \in Images, StartCompress(p)
  PROVE  StreamInv'
<1> DEFINE aq == use_adaptive_quantization(p, tables)
           aqs == IF p.mode = "coeffs" THEN tables.aq ELSE aq
           t0 == [tables EXCEPT !.qno = p.q, !.aq = aqs]
           t == IF p.all_tables \/ p.mode = "coeffs" THEN jpegli_suppress_tables(t0, FALSE) ELSE t0
           start == IF p.mode = "coeffs" THEN p.height ELSE 0
           new == init_destination(dest)
           used == InitQuantizer(p, t)
<1>1. /\ ~failed /\ global_state = "kEncStart" /\ (p.all_tables \/ known.sound)
      /\ global_state' = IF p.mode = "coeffs" THEN "kEncWriteCoeffs" ELSE "kEncHeader"
      /\ tables' = t /\ img' = p /\ finished' = "no" /\ known' = known
      /\ m' = [AllocateBuffers(p, aq) EXCEPT !.used = used, !.next_input_row = start]
  BY DEF StartCompress, Ready
<1>2. \E ok \in BOOLEAN :
        \/ /\ \A c \in Comps(p) : t.q[t.qno[c]] # NULL
           /\ WriteOutput(new, SOI, FALSE, ok)
        \/ failed' = TRUE /\ dest' = dest /\ heap' = heap
  BY DEF StartCompress, SOI
<1>3. /\ IsDest(dest) /\ Sized(heap) /\ IsTables(tables) /\ IsKnown(known)
      /\ (known.sound => HasSent(tables, known, {}))
  BY <1>1 DEF StreamInv, StreamTypes
<1>4. IsTables(t) /\ t.qno = p.q /\ HasSent(t, known, {})
  <2>1. t = t0 \/ t = jpegli_suppress_tables(t0, FALSE)
    OBVIOUS
  <2>2. HasSent(tables, known, {}) \/ t = jpegli_suppress_tables(t0, FALSE)
    BY <1>1, <1>3
  <2>3. t0 = Assigned(p, tables, aqs)
    BY DEF Assigned
  <2> HIDE DEF t, aqs, t0
  <2>4. \/ t = Assigned(p, tables, aqs) /\ HasSent(tables, known, {})
        \/ t = jpegli_suppress_tables(Assigned(p, tables, aqs), FALSE)
    BY <2>1, <2>2, <2>3, Zenon
  <2>5. ForImage(p, tables, known, t)
    BY <2>4, Zenon DEF ForImage
  <2> QED BY <1>3, <2>5, ImageTables
<1>5. DOMAIN p.q = Comps(p)
  BY ShapeAssumption
<1>6. /\ m'.bw = <<>> /\ m'.next_iMCU_row = 0 /\ m'.output_pos = 0 /\ m'.markers = 0
      /\ m'.used = used
  <2> HIDE DEF used, start, aq
  <2> QED BY <1>1 DEF AllocateBuffers
<1>7. HeadersGone' = FALSE /\ global_state' \in {"kEncHeader", "kEncWriteCoeffs"}
      /\ (global_state' = "kEncWriteCoeffs" => p.mode = "coeffs")
  BY <1>1 DEF HeadersGone
<1> HIDE DEF t, start, aq
<1>8. IsDest(new) /\ Stream(new) = <<>>
  BY <1>3, StreamBegins
<1> HIDE DEF new
<1>9. SOI \in Seq(Segments)
  BY PartsAre
<1>10. CASE failed' = TRUE /\ dest' = dest /\ heap' = heap
  BY <1>1, <1>3, <1>4, <1>6, <1>7, <1>10 DEF StreamInv, StreamTypes, States
<1>11. CASE ~(failed' = TRUE /\ dest' = dest /\ heap' = heap)
  <2>1. PICK ok \in BOOLEAN : /\ \A c \in Comps(p) : t.q[t.qno[c]] # NULL
                              /\ WriteOutput(new, SOI, FALSE, ok)
    BY <1>2, <1>11
  <2>2. /\ IsDest(dest') /\ failed' = ~ok /\ (ok => Stream(dest') = <<>> \o SOI) /\ Sized(heap')
    BY <1>3, <1>8, <1>9, <2>1, OutputDelivers, OutputSized
  <2>3. <<>> \o SOI = SOI
    BY <1>9
  <2>4. Divides(p, t, used)
    BY <1>4, <1>5, <2>1 DEF Divides, used
  <2>5. Start(0) = SOI
    <3> DEFINE none == APP(0)
    <3>1. APP(0) = <<>>
      BY DEF APP
    <3>2. SOI \o <<>> = SOI
      BY <1>9
    <3> QED BY <3>1, <3>2 DEF Start
  <2>6. ASSUME ok PROVE Going(p, Stream(dest'), t, known, m', FALSE)
    <3>1. Stream(dest') = SOI
      BY <2>2, <2>3, <2>6
    <3>2. Wrote(p, SOI, SOI, m')
      BY <1>6, <1>9, WroteBefore
    <3> QED BY <1>4, <1>6, <2>4, <2>5, <3>1, <3>2 DEF Going
  <2>7. StreamTypes'
    BY <1>1, <1>3, <1>4, <2>2 DEF StreamTypes
  <2>8. ~failed' => Going(img, Stream(dest), tables, known, m, HeadersGone)'
    BY <1>1, <1>7, <2>2, <2>6
  <2> QED BY <1>1, <1>6, <1>7, <2>7, <2>8 DEF StreamInv, States
<1> QED BY <1>10, <1>11

\* A stream of tables alone brings them.
LEMMA TablesBring ==
  ASSUME NEW t, NEW dqt, Sends(dqt, t), NEW dht \in HuffmanSegments, dht \in Seq(Segments)
  PROVE  SOI \o dqt \o dht \o EOI \in Seq(Segments) /\ Brings(SOI \o dqt \o dht \o EOI, t, dqt, dht)
<1> DEFINE h == SOI \o dqt \o dht \o EOI
           none == <<>>
<1>1. dqt \in Seq(Segments)
  BY DEF Sends
<1>2. /\ h \in Seq(Segments)
      /\ ToSet(h) = ToSet(SOI) \cup ToSet(dqt) \cup ToSet(dht) \cup ToSet(EOI)
  <2>1. SOI \in Seq(Segments) /\ EOI \in Seq(Segments)
    BY PartsAre
  <2> QED BY <1>1, <2>1, FourParts
<1>3. \A u \in ToSet(SOI) \cup ToSet(EOI) : u[1] \notin {"DQT", "DHT", "SOS"}
  <2>1. \A u \in ToSet(SOI) \cup ToSet(EOI) : u = Seg("SOI", 0) \/ u = Seg("EOI", 0)
    BY PartsAre
  <2> QED BY <2>1 DEF Seg
<1> HIDE DEF h
<1>4. none \in Seq(Segments) /\ h = h \o none
  BY <1>2, NothingOut
<1>5. none = <<>>
  OBVIOUS
<1> HIDE DEF none
<1>6. \A u \in ToSet(h) : \/ u \in ToSet(dqt) \/ u \in ToSet(dht)
                          \/ u[1] \notin {"DQT", "DHT", "SOS"}
  BY <1>2, <1>3
<1>7. ToSet(dqt) \cup ToSet(dht) \subseteq ToSet(h)
  BY <1>2
<1>8. Brings(h, t, dqt, dht)
  BY <1>2, <1>4, <1>5, <1>6, <1>7, Zenon DEF Brings
<1> QED BY <1>2, <1>8 DEF h

\* A decoder that has read them has all tables.
LEMMA TablesLearned ==
  ASSUME NEW t, IsTables(t), NEW k, IsKnown(k), HasSent(t, k, {}), NEW dqt, Sends(dqt, t),
         \A i \in Slots : t.q[i] # NULL => t.qsent[i] \/ DQT(t, i) \in ToSet(dqt),
         NEW dht, dht = IF t.hsent THEN <<>> ELSE <<Seg("DHT", "fixed")>>,
         NEW e, Receives(k, t, dqt, dht, e), NEW u, u.q = t.q
  PROVE  HasSent(u, e, {})
<1>1. ASSUME NEW i \in Slots, u.q[i] # NULL PROVE e.q[i] = u.q[i]
  BY <1>1 DEF HasSent, Receives
<1>2. e.h = "fixed"
  <2>1. CASE t.hsent
    BY <2>1 DEF HasSent, Receives
  <2>2. CASE ~t.hsent
    <3>1. dht = <<Seg("DHT", "fixed")>>
      BY <2>2
    <3>2. dht # <<>> /\ dht[1] = Seg("DHT", "fixed")
      <4>1. \A z : <<z>> # <<>> /\ <<z>>[1] = z
        OBVIOUS
      <4> QED BY <3>1, <4>1, Zenon
    <3>3. dht[1][2] = "fixed"
      BY <3>2 DEF Seg
    <3> QED BY <3>2, <3>3 DEF Receives
  <2> QED BY <2>1, <2>2
<1> QED BY <1>1, <1>2 DEF HasSent

LEMMA WriteTablesGoesOn ==
  ASSUME StreamInv, WriteTables
  PROVE  StreamInv'
<1> DEFINE slots == {i \in Slots : tables.q[i] # NULL}
           coded == EncodeDQT(tables, slots)
           dqt == coded.units
           dht == IF tables.hsent THEN <<>> ELSE <<Seg("DHT", "fixed")>>
           units == SOI \o dqt \o dht \o EOI
           new == init_destination(dest)
           u == coded.tables
           flagged == jpegli_suppress_tables(u, TRUE)
<1>1. PICK ok \in BOOLEAN :
        /\ WriteOutput(new, units, TRUE, ok)
        /\ tables' = IF ok THEN flagged ELSE u
        /\ known' = IF ok THEN Learn(known, Stream(dest')) ELSE known
        /\ finished' = IF ok THEN "tables" ELSE "no"
  BY DEF WriteTables, SOI, EOI
<1>2. ~failed /\ global_state = "kEncStart" /\ global_state' = global_state
  BY DEF WriteTables, Ready
<1>3. /\ IsDest(dest) /\ Sized(heap) /\ IsTables(tables) /\ IsKnown(known)
      /\ (known.sound => HasSent(tables, known, {}))
  BY <1>2 DEF StreamInv, StreamTypes
<1>4. /\ Sends(dqt, tables) /\ SameButFlags(tables, u)
      /\ \A i \in slots : tables.qsent[i] \/ DQT(tables, i) \in ToSet(dqt)
  <2>1. slots \in SUBSET Slots
    OBVIOUS
  <2> HIDE DEF slots
  <2> QED BY <1>3, <2>1, TablesAreSent
<1> HIDE DEF coded
<1>5. IsTables(u) /\ IsTables(flagged) /\ flagged.q = tables.q
  <2>1. FlagsAre(u, TRUE, flagged)
    BY <1>4, FlagsSet DEF SameButFlags
  <2> QED BY <1>4, <2>1 DEF SameButFlags, FlagsAre
<1> HIDE DEF flagged, u
<1>6. dht \in HuffmanSegments /\ dht \in Seq(Segments)
  <2>1. Seg("DHT", "fixed") \in Segments
    BY AreSegments
  <2>2. \A z \in Segments : <<z>> \in Seq(Segments)
    OBVIOUS
  <2>3. <<Seg("DHT", "fixed")>> \in Seq(Segments)
    BY <2>1, <2>2
  <2>4. <<>> \in Seq(Segments)
    OBVIOUS
  <2> QED BY <2>3, <2>4 DEF HuffmanSegments
<1>7. dht = IF tables.hsent THEN <<>> ELSE <<Seg("DHT", "fixed")>>
  OBVIOUS
<1> HIDE DEF dht
<1>8. units \in Seq(Segments) /\ Brings(units, tables, dqt, dht)
  BY <1>4, <1>6, TablesBring
<1>9. IsDest(new) /\ Stream(new) = <<>>
  BY <1>3, StreamBegins
<1> HIDE DEF new, units
<1>10. /\ IsDest(dest') /\ failed' = ~ok /\ (ok => Stream(dest') = <<>> \o units) /\ Sized(heap')
  <2> DEFINE last == TRUE
  <2>1. last \in BOOLEAN /\ WriteOutput(new, units, last, ok)
    BY <1>1
  <2> HIDE DEF last
  <2> QED BY <1>3, <1>8, <1>9, <2>1, OutputDelivers, OutputSized
<1>11. CASE ~ok
  BY <1>1, <1>2, <1>3, <1>5, <1>10, <1>11 DEF StreamInv, StreamTypes
<1>12. CASE ok
  <2>1. Stream(dest') = units
    <3>1. <<>> \o units = units
      BY <1>8
    <3> QED BY <1>10, <1>12, <3>1
  <2>2. known' = Learn(known, units)
    BY <1>1, <1>12, <2>1
  <2>3. Receives(known, tables, dqt, dht, known')
    BY <1>3, <1>4, <1>6, <1>8, <2>2, HeaderIsLearned
  <2>4. tables' = flagged
    BY <1>1, <1>12
  <2>5. IsTables(tables') /\ tables'.q = tables.q
    BY <1>5, <2>4
  <2>6. known.sound => HasSent(tables', known', {})
    BY <1>3, <1>4, <1>7, <2>3, <2>5, TablesLearned
  <2>7. IsKnown(known') /\ known'.sound = known.sound
    BY <2>3 DEF Receives
  <2>8. finished' = "tables"
    BY <1>1, <1>12
  <2> QED BY <1>2, <1>10, <2>5, <2>6, <2>7, <2>8 DEF StreamInv, StreamTypes
<1> QED BY <1>11, <1>12

\* The stream is that of image p with k markers, coded with the tables t, and a decoder
\* that knew e can decode it.
Ends(p, k, t, used, e, stream) ==
  /\ \E n \in 0 .. 4, l \in 0 .. 1 : Outline(stream) = WholeStream(p, k, n, l)
  /\ IsKnown(Learn(e, stream))
  /\ \A c \in Comps(p) : Learn(e, stream).q[t.qno[c]] = used[c]
  /\ Learn(e, stream).h = IF HasOwnCodes(p) THEN "own" ELSE "fixed"
  /\ ~HasOwnCodes(p) => HasSent(t, Learn(e, stream), {})

LEMMA ImageEnds ==
  ASSUME NEW p \in Images, NEW k \in Nat, NEW t, IsTables(t), NEW used, Divides(p, t, used),
         NEW dqt, Sends(dqt, t), NEW dht, dht = EncodeDHT(p, t),
         NEW e, IsKnown(e), HasSent(t, e, ToSet(dqt)), \A c \in Comps(p) : t.qsent[t.qno[c]],
         NEW stream, stream = Header(k, dqt, dht) \o SOS \o Body(p) \o EOI
  PROVE  Ends(p, k, t, used, e, stream)
<1> DEFINE f == Learn(e, stream)
<1>1. dht \in HuffmanSegments
  BY ScanHeaderIs
<1>2. \E n \in 0 .. 4, l \in 0 .. 1 : Outline(stream) = WholeStream(p, k, n, l)
  BY <1>1, AllOfIt
<1>3. Body(p) \in Seq(Segments)
  BY BodyIs
<1>4. Brings(stream, t, dqt, dht)
  <2>1. dht \in Seq(Segments)
    BY ScanHeaderIs
  <2> QED BY <1>3, <2>1, HeaderBrings, Zenon
<1>5. /\ IsKnown(f)
      /\ \A c \in Comps(p) : f.q[t.qno[c]] = used[c]
      /\ f.h = IF HasOwnCodes(p) THEN "own" ELSE "fixed"
      /\ ~HasOwnCodes(p) => HasSent(t, f, {})
  <2>1. f = Learn(e, stream)
    OBVIOUS
  <2> HIDE DEF f
  <2> QED BY <1>4, <2>1, DecoderLearns
<1> QED BY <1>2, <1>5, Zenon DEF Ends

LEMMA Appended ==
  ASSUME NEW s \in Seq(Segments)
  PROVE  Append(s, Seg("EOI", 0)) = s \o EOI /\ s \o EOI \in Seq(Segments)
<1>1. Seg("EOI", 0) \in Segments
  BY AreSegments
<1>2. \A z \in Segments : Append(s, z) = s \o <<z>> /\ s \o <<z>> \in Seq(Segments)
  OBVIOUS
<1> QED BY <1>1, <1>2 DEF EOI

LEMMA PendingIs ==
  ASSUME NEW s, IsWriter(s)
  PROVE  Pending(s) \in Seq(Segments)
BY Cut DEF IsWriter, Pending

\* The bits that are pending at the end, with those that are gone, are those of all rows.
LEMMA BitsEnd ==
  ASSUME StreamInv, Inv, ~failed, global_state = "kEncReadImage", WritesBits(img),
         next_scanline >= img.height
  PROVE  /\ Append(Pending(m), Seg("EOI", 0)) \in Seq(Segments)
         /\ Ends(img, m.markers, tables, m.used, known,
                 Stream(dest) \o Append(Pending(m), Seg("EOI", 0)))
<1> DEFINE k == m.markers
           x == Stream(dest)
           P == Pending(m)
           dht == EncodeDHT(img, tables)
           R == RowsOfUnits(m.next_iMCU_row)
<1>1. /\ IsDest(dest) /\ IsTables(tables) /\ IsKnown(known) /\ Divides(img, tables, m.used)
      /\ k \in Nat /\ AfterHeaders(img, x, tables, known, m) /\ img \in Images
  BY DEF StreamInv, StreamTypes, HeadersGone, Going, Inv
<1>2. PICK dqt :
        /\ Sends(dqt, tables) /\ HasSent(tables, known, ToSet(dqt))
        /\ \A c \in Comps(img) : tables.qsent[tables.qno[c]]
        /\ Wrote(img, x, Header(k, dqt, dht) \o SOS, m)
  BY <1>1 DEF AfterHeaders
<1> DEFINE h == Header(k, dqt, dht)
<1>3. /\ h \in Seq(Segments) /\ SOS \in Seq(Segments) /\ EOI \in Seq(Segments)
  <2>1. dqt \in Seq(Segments) /\ dht \in Seq(Segments)
    BY <1>2, ScanHeaderIs DEF Sends
  <2> HIDE DEF dht
  <2> QED BY <1>1, <2>1, HeaderIs, PartsAre
<1>4. x \o P = (h \o SOS) \o R /\ IsWriter(m)
  BY <1>2 DEF Wrote
<1>5. R = Body(img) /\ R \in Seq(Segments)
  <2>1. img.mode # "coeffs" /\ m.next_input_row \in Nat /\ img.height \in Nat
        /\ next_scanline \in Nat /\ next_scanline <= m.next_input_row /\ CountInv(img, m)
    BY <1>1, Sampling DEF WritesBits, IsStreamingSupported, Inv, MasterInv, CountInv, LinesInv
  <2>2. m.next_input_row >= img.height
    BY <2>1
  <2>3. m.next_iMCU_row = total_iMCU_rows(img)
    BY <2>1, <2>2 DEF CountInv
  <2>4. R = Body(img)
    BY <2>3 DEF Body
  <2> HIDE DEF R
  <2> QED BY <1>1, <2>4, BodyIs
<1>6. P \in Seq(Segments) /\ x \in Seq(Segments)
  BY <1>1, <1>4, PendingIs, StreamIsOfUnits
<1>7. Append(P, Seg("EOI", 0)) = P \o EOI /\ P \o EOI \in Seq(Segments)
  BY <1>6, Appended
<1> HIDE DEF h, x, P, R
<1>8. x \o (P \o EOI) = h \o SOS \o Body(img) \o EOI
  <2>1. x \o (P \o EOI) = (x \o P) \o EOI
    BY <1>3, <1>6, StreamLaws, SMTT(30) DEF Streams
  <2> QED BY <1>4, <1>5, <2>1
<1>9. Ends(img, k, tables, m.used, known, x \o (P \o EOI))
  <2> DEFINE stream == x \o (P \o EOI)
             used == m.used
  <2>1. stream = Header(k, dqt, dht) \o SOS \o Body(img) \o EOI
    BY <1>8 DEF h
  <2>2. dht = EncodeDHT(img, tables) /\ Divides(img, tables, used)
    BY <1>1
  <2> HIDE DEF stream, dht, used, k
  <2>3. Ends(img, k, tables, used, known, stream)
    BY <1>1, <1>2, <2>1, <2>2, ImageEnds DEF k
  <2> QED BY <2>3 DEF stream, used
<1> QED BY <1>7, <1>9 DEF x, P

LEMMA DividesStill ==
  ASSUME NEW p, NEW t, NEW u, NEW used, SameButFlags(t, u), Divides(p, t, used)
  PROVE  Divides(p, u, used) /\ IsTables(u)
BY DEF Divides, SameButFlags, InitQuantizer

LEMMA ScansAssembled ==
  \A k \in Nat : \A dqt, dht, b \in Seq(Segments) :
     /\ Start(k) \o (((dqt \o SOF) \o ((dht \o SOS) \o b)) \o EOI)
          = Header(k, dqt, dht) \o SOS \o b \o EOI
     /\ ((dqt \o SOF) \o ((dht \o SOS) \o b)) \o EOI \in Seq(Segments)
<1> TAKE k \in Nat
<1> TAKE dqt, dht, b \in Seq(Segments)
<1> QED BY Assembled, ZenonT(30)

\* The frame and the scans that are written at the end follow what has gone out.
LEMMA ScansEnd ==
  ASSUME StreamInv, Inv, ~failed, global_state \in {"kEncReadImage", "kEncWriteCoeffs"},
         ~WritesBits(img), next_scanline >= img.height,
         NEW t, t = IF img.psnr THEN QuantizetoPSNR(img, tables) ELSE tables,
         NEW used, used = IF img.psnr THEN InitQuantizer(img, t) ELSE m.used,
         NEW frame, frame = WriteFrameHeader(img, t),
         NEW units, units = frame.units \o ScanUnits(img, frame.tables)
  PROVE  /\ Append(units, Seg("EOI", 0)) \in Seq(Segments) /\ IsTables(frame.tables)
         /\ Ends(img, m.markers, frame.tables, used, known,
                 Stream(dest) \o Append(units, Seg("EOI", 0)))
<1> DEFINE k == m.markers
           x == Stream(dest)
           u == frame.tables
           dht == EncodeDHT(img, u)
           b == ScansAfterHeader(img)
<1>1. /\ IsDest(dest) /\ IsTables(tables) /\ IsKnown(known) /\ Divides(img, tables, m.used)
      /\ k \in Nat /\ HasSent(tables, known, {}) /\ Wrote(img, x, Start(k), m) /\ img \in Images
  <2>1. HeadersGone = FALSE
    BY DEF HeadersGone
  <2> QED BY <2>1 DEF StreamInv, StreamTypes, Going, Inv
<1>2. IsTables(t) /\ HasSent(t, known, {}) /\ Divides(img, t, used)
  <2>1. CASE img.psnr
    <3>1. t = SetQuantMatrices(tables, TRUE, img)
      BY <2>1 DEF QuantizetoPSNR
    <3> DEFINE two == TRUE
    <3>2. two \in BOOLEAN /\ t = SetQuantMatrices(tables, two, img)
      BY <3>1
    <3> HIDE DEF two
    <3>3. /\ IsTables(t) /\ DOMAIN t.qno = DOMAIN tables.qno
          /\ \A c \in DOMAIN tables.qno : tables.q[tables.qno[c]] # NULL => t.q[t.qno[c]] # NULL
          /\ \A e : HasSent(tables, e, {}) => HasSent(t, e, {})
      BY <1>1, <3>2, NewTables
    <3> QED BY <1>1, <2>1, <3>3 DEF Divides
  <2>2. CASE ~img.psnr
    BY <1>1, <2>2
  <2> QED BY <2>1, <2>2
<1>3. x = Start(k)
  <2>1. m.bw = <<>>
    <3>1. m.bw # <<>> => next_scanline < img.height
      BY DEF Inv, LinesInv
    <3>2. next_scanline \in Nat /\ img.height \in Nat
      BY <1>1, Sampling DEF Inv, LinesInv
    <3> QED BY <3>1, <3>2
  <2>2. Pending(m) = <<>>
    BY <1>1, <2>1, NothingPending DEF Wrote
  <2>3. x \o Pending(m) = Start(k) /\ x \in Seq(Segments)
    BY <1>1, StreamIsOfUnits DEF Wrote
  <2>4. x \o <<>> = x
    BY <2>3, NothingOut
  <2> HIDE DEF x
  <2> QED BY <2>2, <2>3, <2>4
<1>4. DOMAIN t.qno = Comps(img)
  BY <1>2 DEF Divides
<1>5. /\ SameButFlags(t, u)
      /\ \E dqt : /\ Sends(dqt, u) /\ frame.units = dqt \o SOF
                  /\ HasSent(u, known, ToSet(dqt))
                  /\ \A c \in Comps(img) : u.qsent[u.qno[c]]
  BY <1>2, <1>4, FrameIs
<1>6. PICK dqt : /\ Sends(dqt, u) /\ frame.units = dqt \o SOF
                 /\ HasSent(u, known, ToSet(dqt))
                 /\ \A c \in Comps(img) : u.qsent[u.qno[c]]
  BY <1>5
<1>7. /\ dht \in Seq(Segments) /\ WriteScanHeader(img, u) = dht \o SOS
      /\ dqt \in Seq(Segments)
  BY <1>6, ScanHeaderIs DEF Sends
<1>8. b \in Seq(Segments) /\ b = Body(img)
  <2>1. img.scans \in Nat \ {0}
    BY <1>1, ImagesAssumption DEF Image
  <2> QED BY <2>1, ScansAre DEF Body
<1> HIDE DEF dht, b
<1>9. units = (dqt \o SOF) \o ((dht \o SOS) \o b)
  BY <1>6, <1>7 DEF ScanUnits, b
<1>10. /\ Start(k) \o (units \o EOI) = Header(k, dqt, dht) \o SOS \o b \o EOI
       /\ units \o EOI \in Seq(Segments)
  <2>1. /\ Start(k) \o (((dqt \o SOF) \o ((dht \o SOS) \o b)) \o EOI)
             = Header(k, dqt, dht) \o SOS \o b \o EOI
        /\ ((dqt \o SOF) \o ((dht \o SOS) \o b)) \o EOI \in Seq(Segments)
    <3>1. k \in Nat /\ dqt \in Seq(Segments) /\ dht \in Seq(Segments) /\ b \in Seq(Segments)
      BY <1>1, <1>7, <1>8
    <3> HIDE DEF k
    <3> QED BY <3>1, ScansAssembled, Zenon
  <2> QED BY <1>9, <2>1, Zenon
<1>11. Append(units, Seg("EOI", 0)) = units \o EOI
  <2>1. units \in Seq(Segments)
    <3>1. dqt \o SOF \in Seq(Segments) /\ dht \o SOS \in Seq(Segments)
      BY <1>7, PartsAre, JoinedUnits
    <3>2. (dht \o SOS) \o b \in Seq(Segments)
      BY <1>8, <3>1, JoinedUnits
    <3> QED BY <1>9, <3>1, <3>2, JoinedUnits
  <2> QED BY <2>1, Appended
<1>12. Divides(img, u, used) /\ IsTables(u)
  BY <1>2, <1>5, DividesStill
<1>13. Ends(img, k, u, used, known, x \o (units \o EOI))
  <2> DEFINE stream == x \o (units \o EOI)
  <2>1. stream = Header(k, dqt, dht) \o SOS \o Body(img) \o EOI
    BY <1>3, <1>8, <1>10
  <2>2. dht = EncodeDHT(img, u)
    BY DEF dht
  <2> HIDE DEF stream, u, k
  <2>3. Ends(img, k, u, used, known, stream)
    BY <1>1, <1>6, <1>12, <2>1, <2>2, ImageEnds
  <2> QED BY <2>3 DEF stream
<1> QED BY <1>10, <1>11, <1>12, <1>13

\* The end of the stream goes out, or an error is raised.
LEMMA EndGoesOut ==
  ASSUME StreamInv, NEW t, IsTables(t), NEW used, NEW units, units \in Seq(Segments),
         Ends(img, m.markers, t, used, known, Stream(dest) \o units),
         NEW ok \in BOOLEAN, WriteOutput(dest, units, TRUE, ok), IsMaster(m),
         img' = img, tables' = t, m'.used = used, m'.markers = m.markers, m'.bw = m.bw,
         m'.next_iMCU_row = m.next_iMCU_row,
         known' = IF ~ok THEN known
                  ELSE [Learn(known, Stream(dest')) EXCEPT
                          !.sound = (@ \/ img.all_tables) /\ ~HasOwnCodes(img)],
         finished' = IF ok THEN "image" ELSE "no",
         global_state' = IF ok THEN "kEncStart" ELSE global_state
  PROVE  StreamInv'
<1> DEFINE x == Stream(dest)
           e == Learn(known, x \o units)
<1>1. IsDest(dest) /\ Sized(heap) /\ IsKnown(known)
  BY DEF StreamInv, StreamTypes
<1>2. /\ IsDest(dest') /\ failed' = ~ok /\ (ok => Stream(dest') = x \o units) /\ Sized(heap')
  <2> DEFINE last == TRUE
  <2>1. last \in BOOLEAN /\ WriteOutput(dest, units, last, ok)
    OBVIOUS
  <2> HIDE DEF last
  <2> QED BY <1>1, <2>1, OutputDelivers, OutputSized
<1>3. CASE ~ok
  BY <1>1, <1>2, <1>3 DEF StreamInv, StreamTypes
<1>4. CASE ok
  <2>1. /\ IsKnown(e)
        /\ \E n \in 0 .. 4, l \in 0 .. 1 : Outline(x \o units) = WholeStream(img, m.markers, n, l)
        /\ \A c \in Comps(img) : e.q[t.qno[c]] = used[c]
        /\ e.h = IF HasOwnCodes(img) THEN "own" ELSE "fixed"
        /\ ~HasOwnCodes(img) => HasSent(t, e, {})
    BY Zenon DEF Ends
  <2>2. known' = [e EXCEPT !.sound = (@ \/ img.all_tables) /\ ~HasOwnCodes(img)]
    BY <1>2, <1>4
  <2> HIDE DEF e
  <2>3. /\ IsKnown(known') /\ known'.q = e.q /\ known'.h = e.h
        /\ (known'.sound => ~HasOwnCodes(img))
    BY <2>1, <2>2 DEF IsKnown
  <2>4. global_state' = "kEncStart" /\ Stream(dest') = x \o units
    BY <1>2, <1>4
  <2>5. Done'
    <3>1. \E n \in 0 .. 4, l \in 0 .. 1 : Outline(Stream(dest')) = WholeStream(img', m'.markers, n, l)
      BY <2>1, <2>4, Zenon
    <3>2. \A c \in Comps(img') : known'.q[tables'.qno[c]] = m'.used[c]
      BY <2>1, <2>3
    <3>3. known'.h = IF HasOwnCodes(img') THEN "own" ELSE "fixed"
      BY <2>1, <2>3
    <3> QED BY <3>1, <3>2, <3>3 DEF Done
  <2>6. known'.sound => HasSent(tables', known', {})
    BY <2>1, <2>3 DEF HasSent
  <2> QED BY <1>2, <2>3, <2>4, <2>5, <2>6 DEF StreamInv, StreamTypes, States
<1> QED BY <1>3, <1>4

LEMMA FinishCompressGoesOn ==
  ASSUME StreamInv, Inv, FinishCompress
  PROVE  StreamInv'
<1> DEFINE t == IF img.psnr THEN QuantizetoPSNR(img, tables) ELSE tables
           frame == WriteFrameHeader(img, t)
           all == frame.units \o ScanUnits(img, frame.tables)
           used == IF img.psnr THEN InitQuantizer(img, t) ELSE m.used
<1>1. /\ ~failed /\ global_state \in {"kEncReadImage", "kEncWriteCoeffs"} /\ img' = img
      /\ IsMaster(m)
  BY DEF FinishCompress, Ready, Inv, MasterInv, RowsInv
<1>2. CASE next_scanline < img.height
  <2>1. next_scanline \in Nat /\ img.height \in Nat
    BY Sampling DEF Inv, LinesInv
  <2>2. ~(next_scanline >= img.height)
    BY <1>2, <2>1
  <2>3. /\ failed' = TRUE /\ m' = m /\ dest' = dest /\ heap' = heap /\ tables' = tables
        /\ known' = known /\ global_state' = global_state /\ finished' = finished
    BY <2>2 DEF FinishCompress
  <2> QED BY <1>1, <2>3, NothingMoved
<1>3. CASE ~(next_scanline < img.height)
  <2>1. next_scanline >= img.height
    BY <1>3 DEF FinishCompress
  <2> DEFINE units == IF WritesBits(img) THEN Pending(m) ELSE all
  <2>2. PICK ok \in BOOLEAN :
          /\ WriteOutput(dest, Append(units, Seg("EOI", 0)), TRUE, ok)
          /\ tables' = IF WritesBits(img) THEN tables ELSE frame.tables
          /\ m' = [m EXCEPT !.used = IF img.psnr THEN InitQuantizer(img, t) ELSE @]
          /\ known' = IF ~ok THEN known
                      ELSE [Learn(known, Stream(dest')) EXCEPT
                              !.sound = (@ \/ img.all_tables) /\ ~HasOwnCodes(img)]
          /\ finished' = IF ok THEN "image" ELSE "no"
          /\ global_state' = IF ok THEN "kEncStart" ELSE global_state
    BY <1>3 DEF FinishCompress, Pending
  <2>3. /\ m'.used = used /\ m'.markers = m.markers /\ m'.bw = m.bw
        /\ m'.next_iMCU_row = m.next_iMCU_row
    <3> HIDE DEF t
    <3> QED BY <1>1, <2>2 DEF IsMaster
  <2>4. CASE WritesBits(img)
    <3> DEFINE out == Append(Pending(m), Seg("EOI", 0))
    <3>1. global_state = "kEncReadImage" /\ ~img.psnr
      BY <1>1, <2>4 DEF StreamInv, WritesBits, IsStreamingSupported
    <3>2. /\ out \in Seq(Segments)
          /\ Ends(img, m.markers, tables, m.used, known, Stream(dest) \o out)
      BY <1>1, <2>1, <2>4, <3>1, BitsEnd
    <3>3. WriteOutput(dest, out, TRUE, ok) /\ tables' = tables /\ m'.used = m.used
      BY <2>2, <2>3, <2>4, <3>1
    <3>4. IsTables(tables)
      BY DEF StreamInv, StreamTypes
    <3> HIDE DEF out, all, frame, units, used, t
    <3> QED BY <1>1, <2>2, <2>3, <3>2, <3>3, <3>4, EndGoesOut
  <2>5. CASE ~WritesBits(img)
    <3> DEFINE out == Append(all, Seg("EOI", 0))
               u == frame.tables
    <3>1. /\ t = IF img.psnr THEN QuantizetoPSNR(img, tables) ELSE tables
          /\ used = IF img.psnr THEN InitQuantizer(img, t) ELSE m.used
          /\ frame = WriteFrameHeader(img, t)
          /\ all = frame.units \o ScanUnits(img, frame.tables)
      OBVIOUS
    <3>2. WriteOutput(dest, out, TRUE, ok) /\ tables' = u
      BY <2>2, <2>5
    <3> HIDE DEF units, all, frame, used, t
    <3>3. /\ out \in Seq(Segments) /\ IsTables(u)
          /\ Ends(img, m.markers, u, used, known, Stream(dest) \o out)
      BY <1>1, <2>1, <2>5, <3>1, ScansEnd
    <3> HIDE DEF out, u
    <3> QED BY <1>1, <2>2, <2>3, <3>2, <3>3, EndGoesOut
  <2> QED BY <2>4, <2>5
<1> QED BY <1>2, <1>3

LEMMA StreamStep == Inv /\ StreamInv /\ [Next]_vars => StreamInv'
<1> SUFFICES ASSUME Inv, StreamInv, [Next]_vars PROVE StreamInv'
  OBVIOUS
<1>1. ASSUME NEW d \in Dests, NEW var \in MemVars, SetDest(d, var) PROVE StreamInv'
  BY <1>1, SetDestGoesOn
<1>2. ASSUME NEW two_chroma \in BOOLEAN, SetQuality(two_chroma) PROVE StreamInv'
  BY <1>2, SetQualityGoesOn
<1>3. ASSUME NEW p \in IF budget.images = MaxImages THEN Images ELSE LaterImages, StartCompress(p)
      PROVE  StreamInv'
  <2>1. p \in Images
    BY <1>3, ImagesAssumption
  <2> QED BY <1>3, <2>1, StartCompressGoesOn
<1>4. CASE WriteTables
  BY <1>4, WriteTablesGoesOn
<1>5. CASE WriteMarker
  BY <1>5, WriteMarkerGoesOn
<1>6. ASSUME NEW n \in LineCounts, BeginWrite(n) PROVE StreamInv'
  BY <1>6, BeginWriteGoesOn
<1>7. CASE CatchUp
  BY <1>7, CatchUpGoesOn
<1>8. CASE WriteLine
  BY <1>8, WriteLineGoesOn
<1>9. CASE WriteRawRows
  BY <1>9, WriteRawRowsGoesOn
<1>10. CASE FinishCompress
  BY <1>10, FinishCompressGoesOn
<1>11. CASE AbortCompress
  BY <1>11, AbortCompressGoesOn
<1>12. CASE UNCHANGED vars
  BY <1>12, NothingMoved DEF vars
<1> QED BY <1>1, <1>2, <1>3, <1>4, <1>5, <1>6, <1>7, <1>8, <1>9, <1>10, <1>11, <1>12 DEF Next

LEMMA StreamAlways == Spec => [](Inv /\ StreamInv)
<1>1. Spec => []Inv
  BY Always
<1>2. Init => StreamInv
  BY StreamStarts
<1>3. Inv /\ StreamInv /\ [Next]_vars => StreamInv'
  BY StreamStep
<1> QED BY <1>1, <1>2, <1>3, PTL DEF Spec

\* What has gone out, and the pending bits, begin the whole stream.
LEMMA BeginsTheImage ==
  ASSUME Inv, StreamInv, global_state # "kEncStart", ~failed
  PROVE  \E n \in 0 .. 4, l \in 0 .. 1 :
           IsPrefix(Outline(Stream(dest) \o Pending(m)), WholeStream(img, m.markers, n, l))
<1> DEFINE k == m.markers
           s == Stream(dest) \o Pending(m)
           r == m.next_iMCU_row
<1>1. /\ img \in Images /\ k \in Nat /\ Going(img, Stream(dest), tables, known, m, HeadersGone)
      /\ r \in Nat /\ r <= total_iMCU_rows(img)
  BY RowsAreCounted DEF StreamInv, Going, Inv, MasterInv
<1>2. CASE HeadersGone
  <2> DEFINE dht == EncodeDHT(img, tables)
  <2>1. PICK dqt : /\ Sends(dqt, tables)
                   /\ Wrote(img, Stream(dest), Header(k, dqt, dht) \o SOS, m)
    BY <1>1, <1>2 DEF Going, AfterHeaders
  <2>2. dht \in HuffmanSegments /\ WritesBits(img)
    BY <1>2, ScanHeaderIs DEF HeadersGone
  <2>3. s = Header(k, dqt, dht) \o SOS \o RowsOfUnits(r)
    BY <2>1, <2>2 DEF Wrote
  <2> HIDE DEF dht, s, r
  <2>4. \E n \in 0 .. 4, l \in 0 .. 1 :
          IsPrefix(Outline(Header(k, dqt, dht) \o SOS \o RowsOfUnits(r)), WholeStream(img, k, n, l))
    BY <1>1, <2>1, <2>2, RowsBeginIt
  <2> QED BY <2>3, <2>4 DEF s
<1>3. CASE ~HeadersGone
  <2>1. Wrote(img, Stream(dest), Start(k), m)
    BY <1>1, <1>3 DEF Going
  <2>2. s = Start(k)
    <3>1. CASE WritesBits(img)
      <4>1. global_state \in {"kEncHeader", "kEncWriteCoeffs"}
        BY <1>3, <3>1 DEF HeadersGone, StreamInv, States
      <4>2. m.bw = <<>> /\ r = 0
        BY <4>1 DEF StreamInv
      <4>3. Stream(dest) \in Seq(Segments) /\ Start(k) \in Seq(Segments) /\ IsWriter(m)
        BY <1>1, <2>1, StreamIsOfUnits, StartOutline DEF StreamInv, StreamTypes, Wrote
      <4>4. Stream(dest) = Start(k)
        BY <2>1, <4>2, <4>3, WroteBefore
      <4>5. Pending(m) = <<>>
        BY <4>2, <4>3, NothingPending
      <4> QED BY <4>3, <4>4, <4>5, NothingOut
    <3>2. CASE ~WritesBits(img)
      BY <2>1, <3>2 DEF Wrote
    <3> QED BY <3>1, <3>2
  <2> HIDE DEF s
  <2>3. IsPrefix(Outline(s), WholeStream(img, k, 0, 0))
    BY <1>1, <2>2, StartBegins
  <2>4. 0 \in 0 .. 4 /\ 0 \in 0 .. 1
    OBVIOUS
  <2> QED BY <2>3, <2>4, Zenon DEF s
<1> QED BY <1>2, <1>3

-----------------------------------------------------------------------------
(* The theorems.                                                           *)

\* Whatever buffers the destination refuses, suspends on or moves its bytes through,
\* the bytes of an image that have reached it are a beginning of the image's stream,
\* the bits of the bit writer follow them without a gap or a repetition, and
\* jpegli_finish_compress leaves all of it: the headers once, the rows in order, for
\* images of every size and every session of them.
THEOREM StreamIsRight == Spec => []StreamIsTheImage
<1>1. ASSUME Inv, StreamInv PROVE StreamIsTheImage
  <2>1. global_state # "kEncStart" /\ ~failed
          => \E n \in 0 .. 4, l \in 0 .. 1 :
               IsPrefix(Outline(Stream(dest) \o Pending(m)), WholeStream(img, m.markers, n, l))
    BY <1>1, BeginsTheImage
  <2>2. finished = "image"
          => \E n \in 0 .. 4, l \in 0 .. 1 :
               Outline(Stream(dest)) = WholeStream(img, m.markers, n, l)
    BY <1>1 DEF StreamInv, Done
  <2> QED BY <2>1, <2>2, Zenon DEF StreamIsTheImage, Pending
<1> QED BY <1>1, StreamAlways, PTL

\* A decoder that has read the streams of a session has the quantization tables that
\* the coefficients of the last one were divided by, and its codes, although tables
\* that are flagged as sent are left out.
THEOREM DecoderIsReady == Spec => []DecoderHasTheTables
<1>1. StreamInv => DecoderHasTheTables
  BY DEF StreamInv, Done, DecoderHasTheTables
<1> QED BY <1>1, StreamAlways, PTL
=============================================================================
