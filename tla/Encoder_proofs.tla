--------------------------- MODULE Encoder_proofs ---------------------------
(***************************************************************************)
(* Proofs about Encoder, for every image that its assumptions allow.       *)
(***************************************************************************)
EXTENDS Encoder, FiniteSetTheorems, TLAPS

-----------------------------------------------------------------------------
(* The largest of a set.                                                   *)

LEMMA MaxOfTwo ==
  ASSUME NEW a \in Int, NEW b \in Int
  PROVE  Max({a, b}) = IF a >= b THEN a ELSE b
BY DEF Max

LEMMA MinOfTwo ==
  ASSUME NEW a \in Int, NEW b \in Int
  PROVE  Min({a, b}) = IF a <= b THEN a ELSE b
BY DEF Min

LEMMA MaxOfFew ==
  ASSUME NEW S \in SUBSET (1 .. 4), S # {}
  PROVE  Max(S) \in S /\ \A y \in S : y <= Max(S)
<1>1. \E x \in S : \A y \in S : x >= y
  <2> SUFFICES ASSUME ~ \E x \in S : \A y \in S : x >= y PROVE FALSE
    OBVIOUS
  <2>4. 4 \notin S OBVIOUS
  <2>3. 3 \notin S BY <2>4
  <2>2. 2 \notin S BY <2>3, <2>4
  <2>1. 1 \notin S BY <2>2, <2>3, <2>4
  <2>5. \A x \in 1 .. 4 : x = 1 \/ x = 2 \/ x = 3 \/ x = 4 OBVIOUS
  <2> QED BY <2>1, <2>2, <2>3, <2>4, <2>5, Zenon
<1> QED BY <1>1 DEF Max

LEMMA Multiples ==
  ASSUME NEW a \in Int, NEW b \in Int, NEW k \in Nat, a <= b
  PROVE  a * k <= b * k
OBVIOUS

-----------------------------------------------------------------------------
(* Geometry.                                                               *)

LEMMA Sampling ==
  ASSUME NEW p \in Images
  PROVE  /\ p.height \in Nat \ {0} /\ p.cols \in Nat
         /\ Comps(p) # {} /\ Comps(p) \subseteq 1 .. 4 /\ p.ychan \in Comps(p)
         /\ max_v_samp_factor(p) \in 1 .. 4 /\ max_h_samp_factor(p) \in 1 .. 4
         /\ \A c \in Comps(p) : /\ p.v[c] \in 1 .. 4 /\ p.h[c] \in 1 .. 4
                                /\ p.v[c] <= max_v_samp_factor(p)
                                /\ max_v_samp_factor(p) % p.v[c] = 0
<1>1. /\ p.height \in Nat /\ p.cols \in Nat /\ p.height >= 1
      /\ p.v \in Seq(1 .. 4) /\ p.h \in Seq(1 .. 4)
      /\ DOMAIN p.h = Comps(p) /\ p.ychan \in Comps(p) /\ Comps(p) \subseteq 1 .. 4
      /\ \A c \in Comps(p) : max_v_samp_factor(p) % p.v[c] = 0
  BY ImagesAssumption, ShapeAssumption DEF Image
<1>2. \A c \in Comps(p) : p.v[c] \in 1 .. 4 /\ p.h[c] \in 1 .. 4
  BY <1>1 DEF Comps
<1>3. ASSUME NEW f, \A c \in Comps(p) : f[c] \in 1 .. 4
      PROVE  /\ Max({f[c] : c \in Comps(p)}) \in 1 .. 4
             /\ \A c \in Comps(p) : f[c] <= Max({f[c_1] : c_1 \in Comps(p)})
  <2> DEFINE S == {f[c] : c \in Comps(p)}
  <2>1. S \in SUBSET (1 .. 4) /\ S # {} /\ \A c \in Comps(p) : f[c] \in S
    BY <1>1, <1>3
  <2>2. Max(S) \in S /\ \A y \in S : y <= Max(S)
    <3> HIDE DEF S
    <3> QED BY <2>1, MaxOfFew
  <2>3. Max(S) \in 1 .. 4
    BY <2>1, <2>2
  <2> QED BY <2>1, <2>2, <2>3
<1>4. max_v_samp_factor(p) \in 1 .. 4 /\ \A c \in Comps(p) : p.v[c] <= max_v_samp_factor(p)
  BY <1>2, <1>3 DEF max_v_samp_factor
<1>5. max_h_samp_factor(p) \in 1 .. 4
  BY <1>2, <1>3 DEF max_h_samp_factor
<1> QED BY <1>1, <1>2, <1>4, <1>5

LEMMA Heights ==
  ASSUME NEW p \in Images
  PROVE  LET H == iMCU_height(p)
             T == total_iMCU_rows(p)
         IN  /\ H \in 8 .. 32 /\ H = 8 * max_v_samp_factor(p)
             /\ T \in Nat \ {0} /\ T * H \in Nat
             /\ (T - 1) * H < p.height /\ p.height <= T * H
             /\ ysize_blocks(p) * DCTSIZE = T * H
             /\ ysize_blocks(p) * 2 = T * (2 * max_v_samp_factor(p))
             /\ T <= DivCeil(p.height, DCTSIZE)
<1> DEFINE M == max_v_samp_factor(p)
           h == p.height
           N == 8 * M
           T == total_iMCU_rows(p)
<1>1. M \in 1 .. 4 /\ h \in Nat \ {0} /\ N \in 8 .. 32 /\ iMCU_height(p) = N
  BY Sampling DEF iMCU_height, DCTSIZE
<1>2. T = (h + N - 1) \div N /\ ysize_blocks(p) = T * M /\ DivCeil(h, DCTSIZE) = (h + 7) \div 8
  BY DEF total_iMCU_rows, ysize_blocks, DivCeil, iMCU_height, DCTSIZE
<1>3. T \in Nat \ {0} /\ (T - 1) * N < h /\ h <= T * N
  <2> HIDE DEF N, T, h
  <2> QED BY <1>1, <1>2
<1>4. T * M * 8 = T * N /\ T * M * 2 = T * (2 * M) /\ T * N \in Nat
  <2> HIDE DEF M, T
  <2> QED BY <1>1, <1>3
<1>5. T <= (h + 7) \div 8
  <2> DEFINE g == (h + 7) \div 8
  <2>1. g \in Nat /\ h <= 8 * g
    <3> HIDE DEF h
    <3> QED BY <1>1
  <2>2. (T - 1) * 8 <= (T - 1) * N
    <3> HIDE DEF T, N
    <3> QED BY <1>1, <1>3
  <2> HIDE DEF T, N, g, h
  <2> DEFINE P == (T - 1) * N
  <2>3. P \in Int
    BY <1>1, <1>3
  <2> HIDE DEF P
  <2>4. (T - 1) * 8 <= P /\ P < h
    BY <1>3, <2>2 DEF P
  <2>5. (T - 1) * 8 < 8 * g
    BY <1>1, <1>3, <2>1, <2>3, <2>4
  <2>6. T <= g
    BY <1>3, <2>1, <2>5
  <2> QED BY <2>6 DEF g
<1> HIDE DEF T
<1> QED BY <1>1, <1>2, <1>3, <1>4, <1>5 DEF T, DCTSIZE

LEMMA Blocks ==
  ASSUME NEW p \in Images
  PROVE  blocks_per_iMCU_row(p) \in Nat
<1> DEFINE B(c) == IF c \in Comps(p) THEN p.h[c] * p.v[c] ELSE 0
<1>1. \A c : B(c) \in Nat
  BY Sampling
<1>2. B(1) \in Nat /\ B(2) \in Nat /\ B(3) \in Nat /\ B(4) \in Nat /\ p.cols \in Nat
  BY <1>1, Sampling
<1> HIDE DEF B
<1>3. p.cols * (B(1) + B(2) + B(3) + B(4)) \in Nat
  BY <1>2
<1> QED BY <1>3 DEF blocks_per_iMCU_row, B

-----------------------------------------------------------------------------
(* Rings.                                                                  *)

LEMMA SameSlot ==
  ASSUME NEW n \in Nat \ {0}, NEW x \in Int, NEW y \in Int,
         x >= -n, x < y, y < x + n
  PROVE  (n + x) % n # (n + y) % n
<1> DEFINE a == (n + x) \div n
           b == (n + y) \div n
           z == (n + x) % n
<1> SUFFICES ASSUME (n + x) % n = (n + y) % n PROVE FALSE
  OBVIOUS
<1>1. a \in Nat /\ b \in Nat /\ z \in 0 .. n - 1 /\ n + x = n * a + z /\ n + y = n * b + z
  OBVIOUS
<1> HIDE DEF a, b, z
<1>2. ~(b >= a + 1)
  <2> SUFFICES ASSUME b >= a + 1 PROVE FALSE
    OBVIOUS
  <2>1. (a + 1) * n <= b * n
    BY <1>1, Multiples
  <2>2. (a + 1) * n = n * a + n /\ b * n = n * b /\ n * a \in Nat /\ n * b \in Nat
    BY <1>1
  <2> QED BY <1>1, <2>1, <2>2
<1>3. b * n <= a * n
  BY <1>1, <1>2, Multiples
<1>4. b * n = n * b /\ a * n = n * a /\ n * a \in Nat /\ n * b \in Nat
  BY <1>1
<1> QED BY <1>1, <1>3, <1>4

\* Rows less than a turn apart are in different slots.
LEMMA Ring ==
  ASSUME NEW n \in Nat \ {0}, NEW buf, DOMAIN buf = 0 .. n - 1
  PROVE  /\ \A y \in Int : y >= -n => Slot(buf, y) \in 0 .. n - 1
         /\ \A x, y \in Int : x >= -n /\ x < y /\ y < x + n => Slot(buf, x) # Slot(buf, y)
<1>1. Cardinality(DOMAIN buf) = n
  BY FS_Interval
<1>2. \A y : Slot(buf, y) = (n + y) % n
  BY <1>1 DEF Slot
<1>3. \A y \in Int : y >= -n => (n + y) % n \in 0 .. n - 1
  OBVIOUS
<1> QED BY <1>2, <1>3, SameSlot

\* A row is the same in two rings of the same size.
LEMMA SlotOf ==
  ASSUME NEW buf, NEW b, DOMAIN b = DOMAIN buf, NEW y
  PROVE  Slot(b, y) = Slot(buf, y)
BY DEF Slot

-----------------------------------------------------------------------------
(* The state of the master, field by field.                                *)

IsMaster(s) ==
  DOMAIN s = {"use_adaptive_quantization", "next_input_row", "next_iMCU_row", "input_buffer",
              "pre_erosion", "right", "cur_token_array", "allocated", "num_tokens",
              "ta_num_tokens", "total_num_tokens", "bw", "output_pos", "markers", "used"}

SameTokens(s, t) ==
  /\ t.cur_token_array = s.cur_token_array /\ t.allocated = s.allocated
  /\ t.num_tokens = s.num_tokens /\ t.ta_num_tokens = s.ta_num_tokens
  /\ t.total_num_tokens = s.total_num_tokens

\* What reading lines leaves alone, and what coding them leaves alone too.
SameCoding(s, t) ==
  /\ IsMaster(t)
  /\ t.next_iMCU_row = s.next_iMCU_row /\ t.right = s.right /\ t.bw = s.bw
  /\ t.pre_erosion = s.pre_erosion
  /\ t.use_adaptive_quantization = s.use_adaptive_quantization
  /\ SameTokens(s, t)

LEMMA ReadInputRowFields ==
  ASSUME NEW p, NEW s, IsMaster(s), NEW line, NEW t, t = ReadInputRow(p, s, line)
  PROVE  /\ SameCoding(s, t) /\ t.next_input_row = s.next_input_row + 1
         /\ DOMAIN t.input_buffer = Comps(p)
         /\ \A c \in Comps(p) :
              t.input_buffer[c] = [s.input_buffer[c] EXCEPT
                                     ![Slot(s.input_buffer[c], s.next_input_row)] = line]
BY DEF IsMaster, SameCoding, SameTokens, ReadInputRow

LEMMA PadInputBufferFields ==
  ASSUME NEW p, NEW s, IsMaster(s), s.next_input_row = p.height, NEW t, t = PadInputBuffer(p, s)
  PROVE  /\ SameCoding(s, t) /\ t.next_input_row = ysize_blocks(p) * DCTSIZE
         /\ DOMAIN t.input_buffer = Comps(p)
         /\ \A c \in Comps(p) :
              t.input_buffer[c] =
                [u \in DOMAIN s.input_buffer[c] |->
                   IF \E y \in p.height .. ysize_blocks(p) * DCTSIZE - 1 :
                         Slot(s.input_buffer[c], y) = u
                   THEN Row(s.input_buffer[c], p.height - 1)
                   ELSE s.input_buffer[c][u]]
BY DEF IsMaster, SameCoding, SameTokens, PadInputBuffer

LEMMA ReadRawRowsFields ==
  ASSUME NEW p, NEW s, IsMaster(s), NEW t, t = ReadRawRows(p, s)
  PROVE  /\ SameCoding(s, t) /\ t.next_input_row = s.next_input_row + iMCU_height(p)
         /\ DOMAIN t.input_buffer = Comps(p)
         /\ \A c \in Comps(p) :
              LET n == DCTSIZE * p.v[c]
                  iMCU_y == s.next_input_row \div iMCU_height(p)
                  rows == iMCU_y * n .. iMCU_y * n + n - 1
                  buf == s.input_buffer[c]
              IN  t.input_buffer[c] =
                    [u \in DOMAIN buf |-> IF \E y \in rows : Slot(buf, y) = u
                                          THEN CHOOSE y \in rows : Slot(buf, y) = u ELSE buf[u]]
BY DEF IsMaster, SameCoding, SameTokens, ReadRawRows

NewTokens(p, s, t) ==
  /\ t.cur_token_array = IF s.allocated THEN s.cur_token_array + 1 ELSE s.cur_token_array
  /\ t.allocated = TRUE /\ t.ta_num_tokens = 0
  /\ t.total_num_tokens = s.total_num_tokens + (IF s.allocated THEN s.ta_num_tokens ELSE 0)
  /\ t.num_tokens = EstimateNumTokens(s.next_iMCU_row, total_iMCU_rows(p),
                                      t.total_num_tokens, MaxNumTokensPerMCURow(p))

LEMMA ReserveTokensFields ==
  ASSUME NEW p, NEW s, IsMaster(s), NEW t, t = ReserveTokens(p, s)
  PROVE  /\ IsMaster(t)
         /\ t.next_iMCU_row = s.next_iMCU_row /\ t.right = s.right /\ t.bw = s.bw
         /\ t.pre_erosion = s.pre_erosion /\ t.input_buffer = s.input_buffer
         /\ t.next_input_row = s.next_input_row
         /\ t.use_adaptive_quantization = s.use_adaptive_quantization
         /\ IF s.ta_num_tokens + MaxNumTokensPerMCURow(p) <= s.num_tokens
            THEN SameTokens(s, t) ELSE NewTokens(p, s, t)
<1>1. CASE s.ta_num_tokens + MaxNumTokensPerMCURow(p) <= s.num_tokens
  BY <1>1 DEF ReserveTokens, SameTokens
<1>2. CASE ~(s.ta_num_tokens + MaxNumTokensPerMCURow(p) <= s.num_tokens)
  <2> DEFINE total == s.total_num_tokens + (IF s.allocated THEN s.ta_num_tokens ELSE 0)
             e == EstimateNumTokens(s.next_iMCU_row, total_iMCU_rows(p), total,
                                    MaxNumTokensPerMCURow(p))
  <2>1. t = [s EXCEPT !.total_num_tokens = total,
                      !.cur_token_array = IF s.allocated THEN @ + 1 ELSE @,
                      !.num_tokens = e, !.ta_num_tokens = 0, !.allocated = TRUE]
    BY <1>2 DEF ReserveTokens
  <2>2. t.total_num_tokens = total /\ t.num_tokens = e
    <3> HIDE DEF total, e
    <3> QED BY <2>1 DEF IsMaster
  <2>3. /\ IsMaster(t)
        /\ t.next_iMCU_row = s.next_iMCU_row /\ t.right = s.right /\ t.bw = s.bw
        /\ t.pre_erosion = s.pre_erosion /\ t.input_buffer = s.input_buffer
        /\ t.next_input_row = s.next_input_row
        /\ t.use_adaptive_quantization = s.use_adaptive_quantization
        /\ t.cur_token_array = IF s.allocated THEN s.cur_token_array + 1 ELSE s.cur_token_array
        /\ t.allocated = TRUE /\ t.ta_num_tokens = 0
    <3> HIDE DEF total, e
    <3> QED BY <2>1 DEF IsMaster
  <2> QED BY <1>2, <2>2, <2>3 DEF NewTokens
<1> QED BY <1>1, <1>2

AddedTokens(u, t, x) ==
  /\ t.cur_token_array = u.cur_token_array /\ t.allocated = u.allocated
  /\ t.num_tokens = u.num_tokens /\ t.total_num_tokens = u.total_num_tokens
  /\ t.ta_num_tokens = u.ta_num_tokens + x

\* What coding an iMCU row leaves alone.
Encoded(p, s, t) ==
  /\ IsMaster(t)
  /\ t.next_iMCU_row = s.next_iMCU_row /\ t.right = s.right
  /\ t.pre_erosion = s.pre_erosion /\ t.input_buffer = s.input_buffer
  /\ t.next_input_row = s.next_input_row
  /\ t.use_adaptive_quantization = s.use_adaptive_quantization
  /\ t.bw = IF WritesBits(p) THEN s.bw \o RowUnits(s.next_iMCU_row) ELSE s.bw

LEMMA EncodeFields ==
  ASSUME NEW p, NEW s, IsMaster(s), NEW density, NEW t, t = EncodeiMCURow(p, s, density)
  PROVE  /\ Encoded(p, s, t)
         /\ IF IsStreamingSupported(p) /\ p.optimize
            THEN AddedTokens(ReserveTokens(p, s), t, density * blocks_per_iMCU_row(p))
            ELSE SameTokens(s, t)
<1>1. CASE WritesBits(p)
  <2>1. ~(IsStreamingSupported(p) /\ p.optimize)
    BY <1>1 DEF WritesBits
  <2>2. t = [s EXCEPT !.bw = @ \o RowUnits(s.next_iMCU_row)]
    BY <1>1, <2>1 DEF EncodeiMCURow
  <2> QED BY <1>1, <2>1, <2>2 DEF Encoded, IsMaster, SameTokens
<1>2. CASE IsStreamingSupported(p) /\ p.optimize
  <2>1. ~WritesBits(p)
    BY <1>2 DEF WritesBits
  <2> DEFINE u == ReserveTokens(p, s)
             x == density * blocks_per_iMCU_row(p)
  <2>2. t = [u EXCEPT !.ta_num_tokens = @ + x]
    BY <1>2, <2>1 DEF EncodeiMCURow
  <2>3. /\ IsMaster(u)
        /\ u.next_iMCU_row = s.next_iMCU_row /\ u.right = s.right /\ u.bw = s.bw
        /\ u.pre_erosion = s.pre_erosion /\ u.input_buffer = s.input_buffer
        /\ u.next_input_row = s.next_input_row
        /\ u.use_adaptive_quantization = s.use_adaptive_quantization
    BY ReserveTokensFields
  <2> HIDE DEF u, x
  <2>4. /\ IsMaster(t) /\ t.ta_num_tokens = u.ta_num_tokens + x
        /\ t.next_iMCU_row = s.next_iMCU_row /\ t.right = s.right /\ t.bw = s.bw
        /\ t.pre_erosion = s.pre_erosion /\ t.input_buffer = s.input_buffer
        /\ t.next_input_row = s.next_input_row
        /\ t.use_adaptive_quantization = s.use_adaptive_quantization
        /\ t.cur_token_array = u.cur_token_array /\ t.allocated = u.allocated
        /\ t.num_tokens = u.num_tokens /\ t.total_num_tokens = u.total_num_tokens
    BY <2>2, <2>3 DEF IsMaster
  <2>5. AddedTokens(u, t, x)
    BY <2>4 DEF AddedTokens
  <2> QED BY <1>2, <2>1, <2>4, <2>5 DEF Encoded, u, x
<1>3. CASE ~WritesBits(p) /\ ~(IsStreamingSupported(p) /\ p.optimize)
  <2>1. t = s
    BY <1>3 DEF EncodeiMCURow
  <2> QED BY <1>3, <2>1 DEF Encoded, SameTokens
<1> QED BY <1>1, <1>2, <1>3

LEMMA SmoothingFields ==
  ASSUME NEW p, NEW s, IsMaster(s), DOMAIN s.input_buffer = Comps(p),
         NEW t, t = ApplyInputSmoothing(p, s)
  PROVE  /\ SameCoding(s, t) /\ t.next_input_row = s.next_input_row
         /\ DOMAIN t.input_buffer = Comps(p)
         /\ \A c \in Comps(p) :
              t.input_buffer[c] = IF ~p.smoothing \/ p.mode = "raw" THEN s.input_buffer[c]
                                  ELSE CopyBorders(p, s, s.input_buffer[c])
<1>1. CASE ~p.smoothing \/ p.mode = "raw"
  BY <1>1 DEF ApplyInputSmoothing, SameCoding, SameTokens
<1>2. CASE ~(~p.smoothing \/ p.mode = "raw")
  BY <1>2 DEF ApplyInputSmoothing, SameCoding, SameTokens, IsMaster
<1> QED BY <1>1, <1>2

LEMMA DownsampleFields ==
  ASSUME NEW p, NEW s, IsMaster(s), DOMAIN s.input_buffer = Comps(p),
         NEW t, t = DownsampleInputBuffer(p, s)
  PROVE  /\ SameCoding(s, t) /\ t.next_input_row = s.next_input_row
         /\ DOMAIN t.input_buffer = Comps(p)
         /\ \A c \in Comps(p) :
              LET buf == s.input_buffer[c]
                  y0 == s.next_iMCU_row * iMCU_height(p)
              IN  t.input_buffer[c] =
                    IF p.mode = "raw" \/ p.smoothing \/ ~ShrinksInPlace(downsample_method(p, c))
                    THEN buf
                    ELSE [u \in DOMAIN buf |->
                            IF \E y \in y0 .. y0 + iMCU_height(p) - 1 :
                                 /\ Slot(buf, y) = u
                                 /\ y % v_factor(p, c) < downsample_method(p, c)[2]
                            THEN Garbage ELSE buf[u]]
<1>1. CASE p.mode = "raw" \/ p.smoothing
  BY <1>1 DEF DownsampleInputBuffer, SameCoding, SameTokens
<1>2. CASE ~(p.mode = "raw" \/ p.smoothing)
  BY <1>2 DEF DownsampleInputBuffer, SameCoding, SameTokens, IsMaster
<1> QED BY <1>1, <1>2

ErodedFrom(p, s, s1, t) ==
  /\ SameCoding(s, s1) /\ s1.input_buffer = t.input_buffer
  /\ t.pre_erosion = ComputePreErosion(p, s1)

LEMMA AdaptiveQuantFields ==
  ASSUME NEW p, NEW s, IsMaster(s), DOMAIN s.input_buffer = Comps(p), p.ychan \in Comps(p),
         NEW t, t = ComputeAdaptiveQuantField(p, s)
  PROVE  /\ IsMaster(t)
         /\ t.next_iMCU_row = s.next_iMCU_row /\ t.right = s.right /\ t.bw = s.bw
         /\ t.next_input_row = s.next_input_row
         /\ t.use_adaptive_quantization = s.use_adaptive_quantization
         /\ SameTokens(s, t)
         /\ DOMAIN t.input_buffer = Comps(p)
         /\ \A c \in Comps(p) :
              t.input_buffer[c] = IF s.use_adaptive_quantization /\ c = p.ychan
                                  THEN CopyBorders(p, s, s.input_buffer[c]) ELSE s.input_buffer[c]
         /\ ~s.use_adaptive_quantization => t.pre_erosion = s.pre_erosion
         /\ s.use_adaptive_quantization =>
              \E s1 : ErodedFrom(p, s, s1, t)
<1>1. CASE ~s.use_adaptive_quantization
  BY <1>1 DEF ComputeAdaptiveQuantField, SameTokens
<1>2. CASE s.use_adaptive_quantization
  <2> DEFINE b == CopyBorders(p, s, s.input_buffer[p.ychan])
             s1 == [s EXCEPT !.input_buffer[p.ychan] = CopyBorders(p, s, @)]
             e == ComputePreErosion(p, s1)
  <2>1. t = [s1 EXCEPT !.pre_erosion = e]
    BY <1>2 DEF ComputeAdaptiveQuantField
  <2>2. s1 = [s EXCEPT !.input_buffer = [s.input_buffer EXCEPT ![p.ychan] = b]]
    OBVIOUS
  <2> HIDE DEF b, e, s1
  <2>3. /\ SameCoding(s, s1) /\ s1.next_input_row = s.next_input_row
        /\ s1.input_buffer = [s.input_buffer EXCEPT ![p.ychan] = b]
    BY <2>2 DEF SameCoding, SameTokens, IsMaster
  <2>4. /\ t.input_buffer = s1.input_buffer /\ t.pre_erosion = e /\ IsMaster(t)
        /\ t.next_iMCU_row = s.next_iMCU_row /\ t.right = s.right /\ t.bw = s.bw
        /\ t.next_input_row = s.next_input_row
        /\ t.use_adaptive_quantization = s.use_adaptive_quantization
        /\ SameTokens(s, t)
    BY <2>1, <2>3 DEF SameCoding, SameTokens, IsMaster
  <2>5. /\ DOMAIN t.input_buffer = Comps(p)
        /\ \A c \in Comps(p) : t.input_buffer[c] = IF c = p.ychan THEN b ELSE s.input_buffer[c]
    BY <2>3, <2>4
  <2>6. \A c \in Comps(p) :
              t.input_buffer[c] = IF s.use_adaptive_quantization /\ c = p.ychan
                                  THEN CopyBorders(p, s, s.input_buffer[c]) ELSE s.input_buffer[c]
    BY <1>2, <2>5 DEF b
  <2>7. ErodedFrom(p, s, s1, t)
    BY <2>3, <2>4 DEF ErodedFrom, e
  <2> QED BY <1>2, <2>4, <2>5, <2>6, <2>7
<1> QED BY <1>1, <1>2

-----------------------------------------------------------------------------
(* Token arrays.                                                           *)

LEMMA EstimateIsEnough ==
  ASSUME NEW r \in Nat, NEW T \in Nat, r < T, NEW num \in Nat, NEW max \in Nat
  PROVE  EstimateNumTokens(r, T, num, max) \in Nat /\ max <= EstimateNumTokens(r, T, num, max)
<1> DEFINE estimate == IF r = 0 THEN 16 * max ELSE (4 * T * num) \div (3 * r)
           more == (estimate - num) % SizeT
           rest == (T - r) * max
<1>1. EstimateNumTokens(r, T, num, max) = Min({rest, Max({max, more})})
  BY DEF EstimateNumTokens
<1>2. estimate \in Int
  <2>1. CASE r = 0
    BY <2>1
  <2>2. CASE r # 0
    <3>1. 4 * T * num \in Int /\ 3 * r \in Nat \ {0}
      BY <2>2
    <3>2. (4 * T * num) \div (3 * r) \in Int
      <4> DEFINE x == 4 * T * num
                 y == 3 * r
      <4> HIDE DEF x, y
      <4>1. x \div y \in Int
        BY <3>1 DEF x, y
      <4> QED BY <4>1 DEF x, y
    <3> QED BY <2>2, <3>2
  <2> QED BY <2>1, <2>2
<1>3. SizeT \in Nat \ {0}
  BY DEF SizeT
<1>4. more \in Nat
  <2> HIDE DEF estimate
  <2> QED BY <1>2, <1>3
<1>5. rest \in Nat /\ max <= rest
  <2>1. 1 * max <= (T - r) * max
    BY Multiples
  <2>2. (T - r) * max \in Int
    OBVIOUS
  <2> QED BY <2>1, <2>2
<1> HIDE DEF more, rest
<1>6. Max({max, more}) \in Nat /\ max <= Max({max, more})
  BY <1>4, MaxOfTwo
<1>7. Min({rest, Max({max, more})}) \in Nat /\ max <= Min({rest, Max({max, more})})
  BY <1>5, <1>6, MinOfTwo
<1> QED BY <1>1, <1>7

LEMMA TokensStep ==
  ASSUME NEW p \in Images, NEW s, IsMaster(s), TokensInv(p, s),
         s.next_iMCU_row \in Nat, s.next_iMCU_row < total_iMCU_rows(p),
         NEW density \in 2 .. 64, NEW e, e = EncodeiMCURow(p, s, density),
         NEW t, t.next_iMCU_row = s.next_iMCU_row + 1, SameTokens(e, t)
  PROVE  TokensInv(p, t)
<1> DEFINE u == ReserveTokens(p, s)
           max == MaxNumTokensPerMCURow(p)
           x == density * blocks_per_iMCU_row(p)
           r == s.next_iMCU_row
           T == total_iMCU_rows(p)
<1>1. IF IsStreamingSupported(p) /\ p.optimize THEN AddedTokens(u, e, x) ELSE SameTokens(s, e)
  BY EncodeFields
<1>2. IF s.ta_num_tokens + max <= s.num_tokens THEN SameTokens(s, u) ELSE NewTokens(p, s, u)
  BY ReserveTokensFields
<1>3. max \in Nat /\ x \in Nat /\ x <= max
  <2> DEFINE B == blocks_per_iMCU_row(p)
  <2>1. B \in Nat /\ max = 64 * B
    BY Blocks DEF MaxNumTokensPerMCURow
  <2> HIDE DEF B
  <2>2. density * B <= 64 * B
    BY <2>1, Multiples
  <2>3. density * B \in Nat
    BY <2>1
  <2> QED BY <2>1, <2>2, <2>3 DEF B
<1>4. T \in Nat
  BY Heights
<1>5. NewTokens(p, s, u) => u.num_tokens = EstimateNumTokens(r, T, u.total_num_tokens, max)
  BY DEF NewTokens
<1> HIDE DEF u, max, x
<1>6. CASE ~(IsStreamingSupported(p) /\ p.optimize)
  BY <1>1, <1>6 DEF TokensInv, SameTokens
<1>7. CASE IsStreamingSupported(p) /\ p.optimize
  <2>1. AddedTokens(u, e, x) /\ IsStreamingSupported(p)
    BY <1>1, <1>7
  <2>2. CASE s.ta_num_tokens + max <= s.num_tokens
    BY <1>2, <1>3, <2>1, <2>2 DEF TokensInv, SameTokens, AddedTokens
  <2>3. CASE ~(s.ta_num_tokens + max <= s.num_tokens)
    <3>1. NewTokens(p, s, u)
      BY <1>2, <2>3
    <3>2. u.total_num_tokens \in Nat
      BY <3>1 DEF TokensInv, NewTokens
    <3>3. u.num_tokens \in Nat /\ max <= u.num_tokens
      <4> DEFINE num == u.total_num_tokens
      <4>1. r \in Nat /\ r < T /\ num \in Nat
        BY <3>2
      <4> HIDE DEF r, T, num
      <4>2. EstimateNumTokens(r, T, num, max) \in Nat /\ max <= EstimateNumTokens(r, T, num, max)
        BY <1>3, <1>4, <4>1, EstimateIsEnough
      <4>3. u.num_tokens = EstimateNumTokens(r, T, num, max)
        BY <1>5, <3>1 DEF num
      <4> QED BY <4>2, <4>3
    <3>4. /\ t.ta_num_tokens = x /\ t.num_tokens = u.num_tokens /\ t.allocated = TRUE
          /\ t.total_num_tokens = u.total_num_tokens
          /\ t.cur_token_array = IF s.allocated THEN s.cur_token_array + 1 ELSE s.cur_token_array
      BY <1>3, <2>1, <3>1 DEF SameTokens, NewTokens, AddedTokens
    <3>5. t.cur_token_array \in Nat /\ t.cur_token_array < t.next_iMCU_row
      BY <3>4 DEF TokensInv
    <3>6. /\ t.ta_num_tokens \in Nat /\ t.num_tokens \in Nat /\ t.total_num_tokens \in Nat
          /\ t.ta_num_tokens <= t.num_tokens
      BY <1>3, <3>2, <3>3, <3>4
    <3>7. t.allocated \in BOOLEAN /\ t.allocated
      BY <3>4
    <3> QED BY <2>1, <3>5, <3>6, <3>7, Zenon DEF TokensInv
  <2> QED BY <2>2, <2>3
<1> QED BY <1>6, <1>7

-----------------------------------------------------------------------------
(* What a row of a ring should be, and the borders.                        *)

EndRow(p) == total_iMCU_rows(p) * iMCU_height(p)

LEMMA WantIs ==
  ASSUME NEW p \in Images
  PROVE  LET z == EndRow(p)
         IN  /\ z \in Nat /\ p.height <= z /\ ysize_blocks(p) * DCTSIZE = z
             /\ Want(p, -1) = 0 /\ Want(p, 0) = 0 /\ Want(p, z) = Want(p, z - 1)
             /\ p.mode = "raw" => \A y \in 0 .. z - 1 : Want(p, y) = y
             /\ p.mode # "raw" => \A y \in 0 .. z - 1 :
                                    Want(p, y) = IF y < p.height THEN y ELSE p.height - 1
<1> DEFINE z == EndRow(p)
           last == IF p.mode = "raw" THEN z - 1 ELSE p.height - 1
<1>1. z \in Nat /\ p.height \in Nat \ {0} /\ p.height <= z /\ ysize_blocks(p) * DCTSIZE = z
  BY Heights, Sampling DEF EndRow
<1>2. \A y : Want(p, y) = IF y < 0 THEN 0 ELSE IF y > last THEN last ELSE y
  BY <1>1 DEF Want
<1> HIDE DEF z
<1>3. last \in Nat /\ last <= z - 1
  BY <1>1
<1>4. p.mode = "raw" => last = z - 1
  OBVIOUS
<1>5. p.mode # "raw" => last = p.height - 1
  OBVIOUS
<1> HIDE DEF last
<1>6. Want(p, -1) = 0 /\ Want(p, 0) = 0 /\ Want(p, z) = Want(p, z - 1)
  BY <1>1, <1>2, <1>3
<1>7. \A y \in 0 .. z - 1 : Want(p, y) = IF y <= last THEN y ELSE last
  BY <1>1, <1>2, <1>3
<1>8. ASSUME p.mode = "raw", NEW y \in 0 .. z - 1 PROVE Want(p, y) = y
  BY <1>1, <1>4, <1>7, <1>8
<1>9. ASSUME p.mode # "raw", NEW y \in 0 .. z - 1
      PROVE  Want(p, y) = IF y < p.height THEN y ELSE p.height - 1
  BY <1>1, <1>5, <1>7, <1>9
<1> QED BY <1>1, <1>6, <1>8, <1>9 DEF z

LEMMA CopyRowIs ==
  ASSUME NEW n \in Nat \ {0}, NEW buf, DOMAIN buf = 0 .. n - 1,
         NEW dst \in Int, NEW src \in Int, dst >= -n, NEW t, t = CopyRow(buf, dst, src)
  PROVE  /\ DOMAIN t = 0 .. n - 1 /\ Row(t, dst) = Row(buf, src)
         /\ \A y \in Int : /\ y >= -n
                           /\ (y < dst /\ dst < y + n) \/ (dst < y /\ y < dst + n)
                           => Row(t, y) = Row(buf, y)
<1>1. t = [buf EXCEPT ![Slot(buf, dst)] = Row(buf, src)]
  BY DEF CopyRow
<1>2. Slot(buf, dst) \in 0 .. n - 1
  BY Ring
<1> DEFINE u == Slot(buf, dst)
           x == Row(buf, src)
<1>3. u \in DOMAIN buf /\ t = [buf EXCEPT ![u] = x]
  BY <1>1, <1>2
<1> HIDE DEF u, x
<1>4. DOMAIN t = DOMAIN buf /\ t[u] = x /\ \A w \in DOMAIN buf : w # u => t[w] = buf[w]
  BY <1>3
<1>5. \A y : Slot(t, y) = Slot(buf, y)
  BY <1>4, SlotOf
<1>6. Row(t, dst) = Row(buf, src)
  BY <1>4, <1>5 DEF Row, u, x
<1>7. ASSUME NEW y \in Int, y >= -n,
             (y < dst /\ dst < y + n) \/ (dst < y /\ y < dst + n)
      PROVE  Row(t, y) = Row(buf, y)
  <2>1. Slot(buf, y) # u /\ Slot(buf, y) \in DOMAIN buf
    BY <1>7, Ring DEF u
  <2> QED BY <1>4, <1>5, <2>1 DEF Row
<1> QED BY <1>4, <1>6, <1>7

\* a, e and z are the first row of the iMCU row, the end of the input and the end of
\* the image; lo is the first row that the ring holds.
Bounds(p, s, H, a, e, z, lo) ==
  /\ H \in Nat /\ H >= 8 /\ a \in Nat /\ e \in Nat /\ z \in Nat /\ lo \in {a - 1, a}
  /\ z = EndRow(p)
  /\ s.next_iMCU_row = 0 <=> a = 0
  /\ s.next_iMCU_row + 1 = total_iMCU_rows(p) <=> a + H = z
  /\ e = a + H \/ e = a + 2 * H
  /\ e <= z /\ (e = a + 2 * H \/ e = z)

Holds(p, buf, lo, e) == \A y \in 0 .. e - 1 : y >= lo => Row(buf, y) = Want(p, y)

Bordered(p, buf, H, a, e, z, lo) ==
  \A y \in Int :
    (0 <= y /\ lo <= y /\ y < e) \/ (y = -1 /\ a = 0) \/ (y = z /\ a + H = z)
      => Row(buf, y) = Want(p, y)

\* The copies above the first and below the last row stand for the rows beyond the
\* border, and no row of the window is overwritten by them.
LEMMA Borders ==
  ASSUME NEW p \in Images, NEW s, NEW buf, NEW H, NEW a, NEW e, NEW z, NEW lo,
         Bounds(p, s, H, a, e, z, lo), DOMAIN buf = 0 .. 3 * H - 1, Holds(p, buf, lo, e),
         NEW t, t = CopyBorders(p, s, buf)
  PROVE  DOMAIN t = 0 .. 3 * H - 1 /\ Bordered(p, t, H, a, e, z, lo)
<1> USE DEF Bounds, Holds
<1> DEFINE n == 3 * H
           top == IF a = 0 THEN CopyRow(buf, -1, 0) ELSE buf
<1>1. n \in Nat \ {0} /\ DOMAIN buf = 0 .. n - 1 /\ ysize_blocks(p) * DCTSIZE = z
      /\ Want(p, -1) = Want(p, 0) /\ Want(p, z) = Want(p, z - 1)
  BY WantIs
<1>2. t = IF a + H = z THEN CopyRow(top, z, z - 1) ELSE top
  <2>1. z - 1 + 1 = z
    OBVIOUS
  <2> QED BY <1>1, <2>1 DEF CopyBorders
<1>3. /\ DOMAIN top = 0 .. n - 1
      /\ \A y \in Int : \/ 0 <= y /\ lo <= y /\ y < e
                        \/ y = -1 /\ a = 0
                        => Row(top, y) = Want(p, y)
  <2>1. CASE a = 0
    <3>1. top = CopyRow(buf, -1, 0)
      BY <2>1
    <3> HIDE DEF top, n
    <3>2. /\ DOMAIN top = 0 .. n - 1 /\ Row(top, -1) = Row(buf, 0)
          /\ \A y \in Int : y >= -n /\ -1 < y /\ y < -1 + n => Row(top, y) = Row(buf, y)
      BY <1>1, <3>1, CopyRowIs
    <3>3. Row(buf, 0) = Want(p, 0)
      BY <2>1
    <3>4. ASSUME NEW y \in Int, 0 <= y, lo <= y, y < e
          PROVE  Row(top, y) = Want(p, y)
      <4>1. Row(top, y) = Row(buf, y)
        BY <2>1, <3>2, <3>4 DEF n
      <4> QED BY <3>4, <4>1
    <3> QED BY <1>1, <3>2, <3>3, <3>4
  <2>2. CASE a # 0
    BY <1>1, <2>2
  <2> QED BY <2>1, <2>2
<1>4. CASE a + H # z
  BY <1>2, <1>3, <1>4 DEF Bordered
<1>5. CASE a + H = z
  <2>1. t = CopyRow(top, z, z - 1)
    BY <1>2, <1>5
  <2> HIDE DEF top, n
  <2>2. /\ DOMAIN t = 0 .. n - 1 /\ Row(t, z) = Row(top, z - 1)
        /\ \A y \in Int : y >= -n /\ y < z /\ z < y + n => Row(t, y) = Row(top, y)
    BY <1>1, <1>3, <2>1, CopyRowIs
  <2>3. Row(top, z - 1) = Want(p, z - 1)
    BY <1>3, <1>5
  <2>4. ASSUME NEW y \in Int, (0 <= y /\ lo <= y /\ y < e) \/ (y = -1 /\ a = 0)
        PROVE  Row(t, y) = Want(p, y)
    <3>1. y >= -n /\ y < z /\ z < y + n
      BY <1>5, <2>4 DEF n
    <3>2. Row(t, y) = Row(top, y)
      BY <2>2, <3>1
    <3> QED BY <1>3, <2>4, <3>2
  <2> QED BY <1>1, <2>2, <2>3, <2>4 DEF n, Bordered
<1> QED BY <1>4, <1>5

-----------------------------------------------------------------------------
(* The window of rows that a ring holds.                                   *)

LEMMA ReadWindow ==
  ASSUME NEW p, NEW n \in Nat \ {0}, NEW buf, DOMAIN buf = 0 .. n - 1,
         NEW lo \in Int, NEW e \in Nat, e < lo + n, Holds(p, buf, lo, e),
         NEW t, t = [buf EXCEPT ![Slot(buf, e)] = Want(p, e)]
  PROVE  DOMAIN t = 0 .. n - 1 /\ Holds(p, t, lo, e + 1)
<1>1. DOMAIN t = DOMAIN buf /\ \A y : Slot(t, y) = Slot(buf, y)
  BY SlotOf
<1>2. Slot(buf, e) \in DOMAIN buf
  BY Ring
<1> SUFFICES ASSUME NEW y \in 0 .. (e + 1) - 1, y >= lo PROVE Row(t, y) = Want(p, y)
  BY <1>1 DEF Holds
<1>3. CASE y = e
  BY <1>1, <1>2, <1>3 DEF Row
<1>4. CASE y < e
  <2>1. Slot(buf, y) # Slot(buf, e) /\ Slot(buf, y) \in DOMAIN buf
    BY <1>4, Ring
  <2>2. Row(t, y) = Row(buf, y)
    BY <1>1, <1>2, <2>1 DEF Row
  <2> QED BY <1>4, <2>2 DEF Holds
<1> QED BY <1>3, <1>4

\* The ring of n rows is ready for the padding of rows h to z - 1, and is padded.
PadReady(p, n, buf, lo, h, z) ==
  /\ p.mode # "raw" /\ n \in Nat \ {0} /\ DOMAIN buf = 0 .. n - 1
  /\ lo \in Int /\ z \in Nat /\ z = EndRow(p) /\ h \in Nat /\ h = p.height
  /\ Holds(p, buf, lo, h) /\ lo < h /\ 1 <= h /\ h <= z /\ z <= lo + n

Padding(buf, h, z) ==
  [u \in DOMAIN buf |-> IF \E y \in h .. z - 1 : Slot(buf, y) = u
                        THEN Row(buf, h - 1) ELSE buf[u]]

LEMMA PadWindow ==
  ASSUME NEW p \in Images, NEW n, NEW buf, NEW lo, NEW z, NEW h, PadReady(p, n, buf, lo, h, z),
         NEW t, t = Padding(buf, h, z)
  PROVE  DOMAIN t = 0 .. n - 1 /\ Holds(p, t, lo, z)
<1> USE DEF PadReady, Padding
<1>1. DOMAIN t = DOMAIN buf /\ \A y : Slot(t, y) = Slot(buf, y)
  BY SlotOf
<1>2. \A y \in 0 .. z - 1 : Want(p, y) = IF y < h THEN y ELSE h - 1
  BY WantIs
<1>3. Row(buf, h - 1) = h - 1
  BY <1>2 DEF Holds
<1> SUFFICES ASSUME NEW y \in 0 .. z - 1, y >= lo PROVE Row(t, y) = Want(p, y)
  BY <1>1 DEF Holds
<1>4. Slot(buf, y) \in DOMAIN buf
  BY Ring
<1>5. CASE y >= h
  <2>1. \E x \in h .. z - 1 : Slot(buf, x) = Slot(buf, y)
    BY <1>5
  <2>2. Row(t, y) = Row(buf, h - 1)
    BY <1>1, <1>4, <2>1 DEF Row
  <2> QED BY <1>2, <1>3, <1>5, <2>2
<1>6. CASE y < h
  <2>1. \A x \in h .. z - 1 : Slot(buf, x) # Slot(buf, y)
    <3> SUFFICES ASSUME NEW x \in h .. z - 1 PROVE Slot(buf, x) # Slot(buf, y)
      OBVIOUS
    <3>1. x \in Int /\ y \in Int /\ y >= -n /\ y < x /\ x < y + n
      BY <1>6
    <3> QED BY <3>1, Ring
  <2>2. Row(t, y) = Row(buf, y)
    BY <1>1, <1>4, <2>1 DEF Row
  <2> QED BY <1>6, <2>2 DEF Holds
<1> QED BY <1>5, <1>6

\* The same for the U rows of raw data from row x.
FillReady(p, n, buf, lo, x, U) ==
  /\ p.mode = "raw" /\ n \in Nat \ {0} /\ DOMAIN buf = 0 .. n - 1
  /\ lo \in Int /\ x \in Nat /\ U \in Nat
  /\ Holds(p, buf, lo, x) /\ x + U <= lo + n /\ U <= n /\ x + U <= EndRow(p)

Filling(buf, x, U) ==
  [u \in DOMAIN buf |-> IF \E y \in x .. x + U - 1 : Slot(buf, y) = u
                        THEN CHOOSE y \in x .. x + U - 1 : Slot(buf, y) = u ELSE buf[u]]

LEMMA RawWindow ==
  ASSUME NEW p \in Images, NEW n, NEW buf, NEW lo, NEW x, NEW U,
         FillReady(p, n, buf, lo, x, U), NEW t, t = Filling(buf, x, U)
  PROVE  DOMAIN t = 0 .. n - 1 /\ Holds(p, t, lo, x + U)
<1> USE DEF FillReady, Filling
<1>1. DOMAIN t = DOMAIN buf /\ \A y : Slot(t, y) = Slot(buf, y)
  BY SlotOf
<1>2. EndRow(p) \in Nat /\ \A y \in 0 .. EndRow(p) - 1 : Want(p, y) = y
  BY WantIs
<1> SUFFICES ASSUME NEW y \in 0 .. x + U - 1, y >= lo PROVE Row(t, y) = Want(p, y)
  BY <1>1 DEF Holds
<1>3. Slot(buf, y) \in DOMAIN buf
  BY Ring
<1>4. CASE y >= x
  <2> DEFINE u == Slot(buf, y)
             w == CHOOSE w \in x .. x + U - 1 : Slot(buf, w) = u
  <2>1. y \in x .. x + U - 1
    BY <1>4
  <2>2. w \in x .. x + U - 1 /\ Slot(buf, w) = u
    BY <2>1
  <2>3. Row(t, y) = w
    BY <1>1, <1>3, <2>1 DEF Row
  <2> HIDE DEF w
  <2>4. w = y
    <3>1. ~(w < y)
      BY <2>1, <2>2, Ring
    <3>2. ~(y < w)
      BY <2>1, <2>2, Ring
    <3> QED BY <2>1, <2>2, <3>1, <3>2
  <2> QED BY <1>2, <2>3, <2>4
<1>5. CASE y < x
  <2>1. \A w \in x .. x + U - 1 : Slot(buf, w) # Slot(buf, y)
    <3> SUFFICES ASSUME NEW w \in x .. x + U - 1 PROVE Slot(buf, w) # Slot(buf, y)
      OBVIOUS
    <3>1. w \in Int /\ y \in Int /\ y >= -n /\ y < w /\ w < y + n
      BY <1>5
    <3> QED BY <3>1, Ring
  <2>2. Row(t, y) = Row(buf, y)
    BY <1>1, <1>3, <2>1 DEF Row
  <2> QED BY <1>5, <2>2 DEF Holds
<1> QED BY <1>4, <1>5

LEMMA ShrinkWindow ==
  ASSUME NEW p, NEW n \in Nat \ {0}, NEW buf, DOMAIN buf = 0 .. n - 1,
         NEW lo \in Int, NEW a \in Nat, NEW H \in Nat, NEW e \in Nat,
         lo <= a, Holds(p, buf, lo, e), e <= a + n, NEW S \in SUBSET (a .. a + H - 1),
         NEW t, t = [u \in DOMAIN buf |-> IF \E y \in S : Slot(buf, y) = u
                                          THEN Garbage ELSE buf[u]]
  PROVE  DOMAIN t = 0 .. n - 1 /\ Holds(p, t, a + H, e)
<1>1. DOMAIN t = DOMAIN buf /\ \A y : Slot(t, y) = Slot(buf, y)
  BY SlotOf
<1> SUFFICES ASSUME NEW y \in 0 .. e - 1, y >= a + H PROVE Row(t, y) = Want(p, y)
  BY <1>1 DEF Holds
<1>2. Slot(buf, y) \in DOMAIN buf
  BY Ring
<1>3. \A w \in S : Slot(buf, w) # Slot(buf, y)
  <2> SUFFICES ASSUME NEW w \in S PROVE Slot(buf, w) # Slot(buf, y)
    OBVIOUS
  <2>1. w \in Int /\ y \in Int /\ w >= -n /\ w < y /\ y < w + n
    OBVIOUS
  <2> QED BY <2>1, Ring
<1>4. Row(t, y) = Row(buf, y)
  BY <1>1, <1>2, <1>3 DEF Row
<1> QED BY <1>4 DEF Holds

-----------------------------------------------------------------------------
(* Coding one iMCU row.                                                    *)

LEMMA Extents ==
  ASSUME NEW U \in Nat \ {0}, NEW r \in Nat, NEW k \in Nat, NEW T \in Nat,
         k = r + 1 \/ k = r + 2, k <= T, k = r + 2 \/ k = T
  PROVE  LET a == r * U
             e == k * U
             z == T * U
         IN  /\ a \in Nat /\ e \in Nat /\ z \in Nat
             /\ r = 0 <=> a = 0
             /\ r + 1 = T <=> a + U = z
             /\ e = a + U \/ e = a + 2 * U
             /\ e <= z
             /\ e = a + 2 * U \/ e = z
             /\ (r + 1) * U = a + U
<1> DEFINE a == r * U
           e == k * U
           z == T * U
<1>1. a \in Nat /\ e \in Nat /\ z \in Nat /\ (r + 1) * U = a + U /\ (r + 2) * U = a + 2 * U
  OBVIOUS
<1>2. r = 0 <=> a = 0
  OBVIOUS
<1>3. e = a + U \/ e = a + 2 * U
  BY <1>1
<1>4. e <= z
  BY Multiples
<1>5. e = a + 2 * U \/ e = z
  BY <1>1
<1>6. r + 1 = T <=> a + U = z
  <2>1. r + 1 = T => a + U = z
    BY <1>1
  <2>2. r + 1 # T => r + 2 <= T
    OBVIOUS
  <2>3. r + 2 <= T => (r + 2) * U <= z
    BY Multiples
  <2> HIDE DEF a, z
  <2> QED BY <1>1, <2>1, <2>2, <2>3
<1> QED BY <1>1, <1>2, <1>3, <1>4, <1>5, <1>6

LEMMA Units ==
  ASSUME NEW p \in Images, NEW c \in Comps(p)
  PROVE  /\ Unit(p, c) \in 8 .. 32 /\ Unit(p, c) <= iMCU_height(p)
         /\ total_iMCU_rows(p) * Unit(p, c) <= EndRow(p)
         /\ p.mode # "raw" \/ p.v[c] = max_v_samp_factor(p)
              => Unit(p, c) = iMCU_height(p) /\ total_iMCU_rows(p) * Unit(p, c) = EndRow(p)
         /\ p.mode = "raw" => Unit(p, c) = DCTSIZE * p.v[c]
<1> DEFINE U == Unit(p, c)
           H == iMCU_height(p)
           T == total_iMCU_rows(p)
<1>1. /\ p.v[c] \in 1 .. 4 /\ p.v[c] <= max_v_samp_factor(p) /\ max_v_samp_factor(p) \in 1 .. 4
      /\ H = 8 * max_v_samp_factor(p) /\ T \in Nat /\ EndRow(p) = T * H
  BY Sampling, Heights DEF EndRow
<1>2. /\ U = 8 * (IF p.mode = "raw" THEN p.v[c] ELSE max_v_samp_factor(p))
      /\ p.mode = "raw" => U = DCTSIZE * p.v[c]
  BY DEF Unit, DCTSIZE
<1> HIDE DEF U, H, T
<1>3. U \in 8 .. 32 /\ U <= H /\ H \in 8 .. 32
  BY <1>1, <1>2
<1>4. T * U <= T * H
  BY <1>1, <1>3
<1>5. p.mode # "raw" \/ p.v[c] = max_v_samp_factor(p) => U = H
  BY <1>1, <1>2
<1> QED BY <1>1, <1>2, <1>3, <1>4, <1>5 DEF U, H, T

\* The rows that a row of raw_data is made of are rows of the same iMCU row.
LEMMA SourceRow ==
  ASSUME NEW p \in Images, NEW c \in Comps(p), NEW r \in Nat,
         NEW y \in r * (DCTSIZE * p.v[c]) .. r * (DCTSIZE * p.v[c]) + DCTSIZE * p.v[c] - 1,
         NEW iy \in 0 .. downsample_method(p, c)[2] - 1
  PROVE  y * v_factor(p, c) + iy \in r * iMCU_height(p) .. r * iMCU_height(p) + iMCU_height(p) - 1
<1> DEFINE v == p.v[c]
           f == v_factor(p, c)
           M == max_v_samp_factor(p)
           H == iMCU_height(p)
<1>1. v \in 1 .. 4 /\ M \in 1 .. 4 /\ v <= M /\ M % v = 0 /\ f = M \div v /\ H = 8 * M
  BY Sampling DEF v_factor, iMCU_height, DCTSIZE
<1>2. f \in 1 .. 4 /\ M = v * f
  <2>1. \A a, b \in 1 .. 4 :
          b <= a /\ a % b = 0 => a \div b \in 1 .. 4 /\ a = b * (a \div b)
    OBVIOUS
  <2> HIDE DEF v, f, M
  <2> QED BY <1>1, <2>1
<1>3. downsample_method(p, c)[2] = IF f = 3 THEN 2 ELSE f
  BY DEF downsample_method
<1>4. iy \in 0 .. f - 1 /\ y \in r * (8 * v) .. r * (8 * v) + 8 * v - 1
  BY <1>2, <1>3 DEF DCTSIZE
<1> HIDE DEF v, f, M, H
<1>5. y * f + iy \in r * H .. r * H + H - 1
  <2>1. CASE v = 1
    <3>1. CASE f = 1
      BY <1>1, <1>2, <1>4, <2>1, <3>1
    <3>2. CASE f = 2
      BY <1>1, <1>2, <1>4, <2>1, <3>2
    <3>3. CASE f = 3
      BY <1>1, <1>2, <1>4, <2>1, <3>3
    <3>4. CASE f = 4
      BY <1>1, <1>2, <1>4, <2>1, <3>4
    <3> QED BY <1>2, <3>1, <3>2, <3>3, <3>4
  <2>2. CASE v = 2
    <3>1. CASE f = 1
      BY <1>1, <1>2, <1>4, <2>2, <3>1
    <3>2. CASE f = 2
      BY <1>1, <1>2, <1>4, <2>2, <3>2
    <3> QED BY <1>1, <1>2, <2>2, <3>1, <3>2
  <2>3. CASE v = 3
    <3>1. f = 1
      BY <1>1, <1>2, <2>3
    <3> QED BY <1>1, <1>2, <1>4, <2>3, <3>1
  <2>4. CASE v = 4
    <3>1. f = 1
      BY <1>1, <1>2, <2>4
    <3> QED BY <1>1, <1>2, <1>4, <2>4, <3>1
  <2> QED BY <1>1, <2>1, <2>2, <2>3, <2>4
<1> QED BY <1>5 DEF f, H

\* An iMCU row may be coded: the input ends with iMCU row k, the next one if there
\* is a next one.
Coding(p, s, k) ==
  LET r == s.next_iMCU_row
  IN  /\ IsMaster(s) /\ p.mode # "coeffs" /\ r \in Nat /\ k \in Nat
      /\ k = r + 1 \/ k = r + 2
      /\ k <= total_iMCU_rows(p)
      /\ k = r + 2 \/ k = total_iMCU_rows(p)
      /\ s.next_input_row = k * iMCU_height(p)

Above(p) == IF p.smoothing THEN 1 ELSE 0

LEMMA ExtentsOf ==
  ASSUME NEW p \in Images, NEW s, NEW k, Coding(p, s, k), NEW c \in Comps(p)
  PROVE  LET U == Unit(p, c)
             r == s.next_iMCU_row
             a == r * U
             e == k * U
             z == total_iMCU_rows(p) * U
         IN  /\ U \in Nat \ {0} /\ U >= 8 /\ a \in Nat /\ e \in Nat /\ z \in Nat
             /\ r = 0 <=> a = 0
             /\ r + 1 = total_iMCU_rows(p) <=> a + U = z
             /\ e = a + U \/ e = a + 2 * U
             /\ e <= z
             /\ e = a + 2 * U \/ e = z
             /\ (r + 1) * U = a + U
<1> DEFINE U == Unit(p, c)
           r == s.next_iMCU_row
           T == total_iMCU_rows(p)
<1>1. U \in Nat \ {0} /\ U >= 8 /\ r \in Nat /\ k \in Nat /\ T \in Nat
      /\ (k = r + 1 \/ k = r + 2) /\ k <= T /\ (k = r + 2 \/ k = T)
  BY Units, Heights DEF Coding
<1> HIDE DEF U, r, T
<1>2. /\ r * U \in Nat /\ k * U \in Nat /\ T * U \in Nat
      /\ r = 0 <=> r * U = 0
      /\ r + 1 = T <=> r * U + U = T * U
      /\ k * U = r * U + U \/ k * U = r * U + 2 * U
      /\ k * U <= T * U
      /\ k * U = r * U + 2 * U \/ k * U = T * U
      /\ (r + 1) * U = r * U + U
  BY <1>1, Extents
<1> QED BY <1>1, <1>2 DEF U, r, T

LEMMA RowsInIs ==
  ASSUME NEW p \in Images, NEW s, NEW k \in Nat, s.next_input_row = k * iMCU_height(p),
         NEW c \in Comps(p)
  PROVE  RowsIn(p, s, c) = k * Unit(p, c)
<1> DEFINE H == iMCU_height(p)
<1>1. H \in 8 .. 32
  BY Heights
<1>2. (k * H) \div H = k
  <2> HIDE DEF H
  <2> QED BY <1>1
<1>3. CASE p.mode = "raw"
  BY <1>2, <1>3 DEF RowsIn
<1>4. CASE p.mode # "raw"
  BY <1>4, Units DEF RowsIn
<1> QED BY <1>3, <1>4

LEMMA WindowOf ==
  ASSUME NEW p \in Images, NEW s, NEW k \in Nat, p.mode # "coeffs",
         s.next_input_row = k * iMCU_height(p), RingsInv(p, s)
  PROVE  /\ DOMAIN s.input_buffer = Comps(p)
         /\ \A c \in Comps(p) :
              /\ DOMAIN s.input_buffer[c] = 0 .. 3 * Unit(p, c) - 1
              /\ Holds(p, s.input_buffer[c], s.next_iMCU_row * Unit(p, c) - Above(p), k * Unit(p, c))
BY RowsInIs DEF RingsInv, Holds, Above

LEMMA RingsOf ==
  ASSUME NEW p \in Images, NEW s, NEW k \in Nat, s.next_input_row = k * iMCU_height(p),
         DOMAIN s.input_buffer = Comps(p),
         \A c \in Comps(p) :
           /\ DOMAIN s.input_buffer[c] = 0 .. 3 * Unit(p, c) - 1
           /\ Holds(p, s.input_buffer[c], s.next_iMCU_row * Unit(p, c) - Above(p), k * Unit(p, c))
  PROVE  RingsInv(p, s)
BY RowsInIs DEF RingsInv, Holds, Above

LEMMA Smoothed ==
  ASSUME NEW p \in Images, NEW s, NEW k, Coding(p, s, k), RingsInv(p, s),
         NEW t, t = ApplyInputSmoothing(p, s), NEW c \in Comps(p)
  PROVE  LET U == Unit(p, c)
             a == s.next_iMCU_row * U
         IN  /\ DOMAIN t.input_buffer[c] = 0 .. 3 * U - 1
             /\ Holds(p, t.input_buffer[c], a - Above(p), k * U)
             /\ p.mode # "raw" => \A y \in a .. a + U - 1 : SmoothInputRight(p, t, c, y)
<1> DEFINE U == Unit(p, c)
           a == s.next_iMCU_row * U
           e == k * U
           z == total_iMCU_rows(p) * U
           lo == a - Above(p)
           buf == s.input_buffer[c]
           b == t.input_buffer[c]
<1>1. /\ U \in Nat \ {0} /\ U >= 8 /\ a \in Nat /\ e \in Nat /\ z \in Nat
      /\ s.next_iMCU_row = 0 <=> a = 0
      /\ s.next_iMCU_row + 1 = total_iMCU_rows(p) <=> a + U = z
      /\ e = a + U \/ e = a + 2 * U
      /\ e <= z
      /\ e = a + 2 * U \/ e = z
  BY ExtentsOf
<1>2. /\ IsMaster(s) /\ k \in Nat /\ p.mode # "coeffs" /\ s.next_input_row = k * iMCU_height(p)
  BY DEF Coding
<1>3. DOMAIN s.input_buffer = Comps(p) /\ DOMAIN buf = 0 .. 3 * U - 1 /\ Holds(p, buf, lo, e)
  BY <1>2, WindowOf
<1>4. b = IF ~p.smoothing \/ p.mode = "raw" THEN buf ELSE CopyBorders(p, s, buf)
  BY <1>2, <1>3, SmoothingFields
<1>5. lo \in {a - 1, a} /\ lo \in Int /\ (p.smoothing => lo = a - 1) /\ (~p.smoothing => lo = a)
  BY <1>1 DEF Above
<1>6. p.mode # "raw" => U = iMCU_height(p) /\ z = EndRow(p)
  BY Units
<1> HIDE DEF U, a, e, z, lo, b, buf
<1>7. p.mode # "raw" => Bounds(p, s, U, a, e, z, lo)
  BY <1>1, <1>5, <1>6 DEF Bounds
<1>8. ASSUME p.smoothing, p.mode # "raw"
      PROVE  DOMAIN b = 0 .. 3 * U - 1 /\ Bordered(p, b, U, a, e, z, lo)
  <2>1. b = CopyBorders(p, s, buf)
    BY <1>4, <1>8
  <2> QED BY <1>3, <1>7, <1>8, <2>1, Borders
<1>9. DOMAIN b = 0 .. 3 * U - 1 /\ Holds(p, b, lo, e)
  <2>1. CASE ~p.smoothing \/ p.mode = "raw"
    BY <1>3, <1>4, <2>1
  <2>2. CASE ~(~p.smoothing \/ p.mode = "raw")
    <3>1. DOMAIN b = 0 .. 3 * U - 1 /\ Bordered(p, b, U, a, e, z, lo)
      BY <1>8, <2>2
    <3> QED BY <1>1, <1>5, <3>1 DEF Holds, Bordered
  <2> QED BY <2>1, <2>2
<1>10. ASSUME p.mode # "raw", NEW y \in a .. a + U - 1
       PROVE  SmoothInputRight(p, t, c, y)
  <2>1. CASE ~p.smoothing
    <3>1. Row(b, y) = Want(p, y)
      BY <1>1, <1>5, <1>9, <1>10, <2>1 DEF Holds
    <3>2. y + 0 = y
      BY <1>1, <1>10
    <3> QED BY <2>1, <3>1, <3>2 DEF SmoothInputRight, b
  <2>2. CASE p.smoothing
    <3>1. Bordered(p, b, U, a, e, z, lo)
      BY <1>8, <1>10, <2>2
    <3>2. lo = a - 1
      BY <1>5, <2>2
    <3>3. \A d \in {-1, 0, 1} : Row(b, y + d) = Want(p, y + d)
      <4> SUFFICES ASSUME NEW d \in {-1, 0, 1} PROVE Row(b, y + d) = Want(p, y + d)
        OBVIOUS
      <4>1. y + d \in Int /\ (\/ 0 <= y + d /\ lo <= y + d /\ y + d < e
                              \/ y + d = -1 /\ a = 0
                              \/ y + d = z /\ a + U = z)
        BY <1>1, <1>10, <3>2
      <4> QED BY <3>1, <4>1 DEF Bordered
    <3> QED BY <2>2, <3>3 DEF SmoothInputRight, b
  <2> QED BY <2>1, <2>2
<1> QED BY <1>9, <1>10 DEF U, a, e, lo, b

\* Each row of raw_data is made of the lines it should be made of.
LEMMA RowsRight ==
  ASSUME NEW p \in Images, NEW s, NEW k, Coding(p, s, k), RingsInv(p, s),
         NEW t, t = ApplyInputSmoothing(p, s), NEW c \in Comps(p),
         NEW y \in s.next_iMCU_row * (DCTSIZE * p.v[c])
                     .. s.next_iMCU_row * (DCTSIZE * p.v[c]) + DCTSIZE * p.v[c] - 1
  PROVE  RawDataRight(p, t, c, y)
<1> DEFINE U == Unit(p, c)
           r == s.next_iMCU_row
           a == r * U
           e == k * U
           z == total_iMCU_rows(p) * U
           b == t.input_buffer[c]
<1>1. /\ U \in Nat \ {0} /\ U >= 8 /\ a \in Nat /\ e \in Nat /\ z \in Nat
      /\ e = a + U \/ e = a + 2 * U
      /\ e <= z
  BY ExtentsOf
<1>2. Holds(p, b, a - Above(p), e) /\ r \in Nat
  BY Smoothed DEF Coding
<1>3. p.mode # "raw" => \A x \in a .. a + U - 1 : SmoothInputRight(p, t, c, x)
  BY Smoothed
<1>4. CASE p.mode = "raw"
  <2>1. y \in a .. a + U - 1
    BY <1>4, Units
  <2>2. EndRow(p) \in Nat /\ z <= EndRow(p) /\ Above(p) \in {0, 1}
    BY WantIs, Units DEF Above
  <2> HIDE DEF U, a, e, z, b
  <2>3. y \in 0 .. e - 1 /\ y >= a - Above(p) /\ y \in 0 .. EndRow(p) - 1
    BY <1>1, <2>1, <2>2
  <2>4. Row(b, y) = Want(p, y)
    BY <1>2, <2>3 DEF Holds
  <2>5. Want(p, y) = y
    BY <1>4, <2>3, WantIs
  <2> QED BY <1>4, <2>4, <2>5 DEF RawDataRight, b
<1>5. CASE p.mode # "raw"
  <2>1. U = iMCU_height(p)
    BY <1>5, Units
  <2>2. \A x \in r * iMCU_height(p) .. r * iMCU_height(p) + iMCU_height(p) - 1 :
          SmoothInputRight(p, t, c, x)
    BY <1>3, <1>5, <2>1
  <2>3. \A iy \in 0 .. downsample_method(p, c)[2] - 1 :
          SmoothInputRight(p, t, c, y * v_factor(p, c) + iy)
    BY <1>2, <2>2, SourceRow
  <2> QED BY <1>5, <2>3 DEF RawDataRight
<1> QED BY <1>4, <1>5

\* What is left after shrinking rows in place is the window of the next iMCU row.
LEMMA Downsampled ==
  ASSUME NEW p \in Images, NEW s, NEW k, Coding(p, s, k), RingsInv(p, s),
         NEW sm, sm = ApplyInputSmoothing(p, s),
         NEW t, t = DownsampleInputBuffer(p, sm), NEW c \in Comps(p)
  PROVE  LET U == Unit(p, c)
             a == s.next_iMCU_row * U
         IN  /\ DOMAIN t.input_buffer[c] = 0 .. 3 * U - 1
             /\ Holds(p, t.input_buffer[c], a + U - Above(p), k * U)
             /\ p.v[c] = max_v_samp_factor(p) => t.input_buffer[c] = sm.input_buffer[c]
<1> DEFINE U == Unit(p, c)
           a == s.next_iMCU_row * U
           e == k * U
           z == total_iMCU_rows(p) * U
           buf == sm.input_buffer[c]
           b == t.input_buffer[c]
           S == {y \in a .. a + U - 1 : y % v_factor(p, c) < downsample_method(p, c)[2]}
           Shrunk == ~(p.mode = "raw" \/ p.smoothing \/ ~ShrinksInPlace(downsample_method(p, c)))
<1>1. /\ U \in Nat \ {0} /\ U >= 8 /\ a \in Nat /\ e \in Nat /\ z \in Nat
      /\ e = a + U \/ e = a + 2 * U
  BY ExtentsOf
<1>2. DOMAIN buf = 0 .. 3 * U - 1 /\ Holds(p, buf, a - Above(p), e)
  BY Smoothed
<1>3. IsMaster(s) /\ DOMAIN s.input_buffer = Comps(p)
  BY DEF Coding, RingsInv
<1>4. IsMaster(sm) /\ sm.next_iMCU_row = s.next_iMCU_row /\ DOMAIN sm.input_buffer = Comps(p)
  BY <1>3, SmoothingFields DEF SameCoding
<1>5. b = IF ~Shrunk THEN buf
          ELSE [u \in DOMAIN buf |->
                  IF \E y \in s.next_iMCU_row * iMCU_height(p)
                                .. s.next_iMCU_row * iMCU_height(p) + iMCU_height(p) - 1 :
                       /\ Slot(buf, y) = u
                       /\ y % v_factor(p, c) < downsample_method(p, c)[2]
                  THEN Garbage ELSE buf[u]]
  BY <1>4, DownsampleFields
<1>6. CASE ~Shrunk
  <2>1. b = buf
    BY <1>5, <1>6
  <2>2. Above(p) \in {0, 1}
    BY DEF Above
  <2> HIDE DEF U, a, e, z, buf, b
  <2>3. Holds(p, buf, a + U - Above(p), e)
    BY <1>1, <1>2, <2>2 DEF Holds
  <2> QED BY <1>2, <2>1, <2>3 DEF U, a, e, z, buf, b
<1>7. CASE Shrunk
  <2>1. U = iMCU_height(p) /\ Above(p) = 0
    BY <1>7, Units DEF Above
  <2>2. b = [u \in DOMAIN buf |-> IF \E y \in S : Slot(buf, y) = u THEN Garbage ELSE buf[u]]
    BY <1>5, <1>7, <2>1
  <2>3. S \in SUBSET (a .. a + U - 1)
    OBVIOUS
  <2> HIDE DEF U, a, e, z, buf, b, S
  <2>4. 3 * U \in Nat \ {0} /\ a - Above(p) \in Int /\ a - Above(p) <= a /\ e <= a + 3 * U /\ U \in Nat
    BY <1>1, <2>1
  <2>5. DOMAIN b = 0 .. 3 * U - 1 /\ Holds(p, b, a + U, e)
    BY <1>1, <1>2, <2>2, <2>3, <2>4, ShrinkWindow
  <2>6. a + U - Above(p) = a + U
    BY <1>1, <2>1
  <2>7. p.v[c] # max_v_samp_factor(p)
    <3> SUFFICES ASSUME p.v[c] = max_v_samp_factor(p) PROVE FALSE
      OBVIOUS
    <3>1. v_factor(p, c) = 1
      BY Sampling DEF v_factor
    <3>2. downsample_method(p, c)[2] = 1
      BY <3>1 DEF downsample_method
    <3> QED BY <1>7, <3>2 DEF ShrinksInPlace
  <2> QED BY <2>5, <2>6, <2>7 DEF U, a, e, z, buf, b
<1> QED BY <1>6, <1>7

-----------------------------------------------------------------------------
(* Adaptive quantization.                                                  *)

LEMMA MaxOfOne ==
  ASSUME NEW a \in Int
  PROVE  Max({a}) = a
BY DEF Max

\* The rows of pre_erosion of iMCU row r: one ahead, except at the end.  f is the
\* first row of the iMCU row and n the number of its rows.
LEMMA PreErosionRowsAre ==
  ASSUME NEW p \in Images, NEW s, NEW n \in Nat, n >= 2, NEW f \in Nat,
         iMCU_height(p) = 4 * n, s.next_iMCU_row * iMCU_height(p) = 4 * f
  PROVE  PreErosionRows(p, s) =
           (IF f = 0 THEN 0 ELSE f + 1)
             .. (IF s.next_iMCU_row + 1 = total_iMCU_rows(p) THEN f + n - 1 ELSE f + n)
<1> DEFINE last == s.next_iMCU_row + 1 = total_iMCU_rows(p)
           from == IF 4 * f = 0 THEN 0 ELSE 4 * f + 4
           len == 4 * n + (IF 4 * f = 0 THEN 4 ELSE 0) - (IF last THEN 4 ELSE 0)
<1>1. PreErosionRows(p, s) = from \div 4 .. (from + len) \div 4 - 1
  BY DEF PreErosionRows
<1> HIDE DEF last
<1>2. from \div 4 = IF f = 0 THEN 0 ELSE f + 1
  OBVIOUS
<1>3. (from + len) \div 4 - 1 = IF last THEN f + n - 1 ELSE f + n
  <2>1. from + len = 4 * (f + n + (IF last THEN 0 ELSE 1))
    OBVIOUS
  <2> HIDE DEF from, len
  <2>2. CASE last
    <3>1. from + len = 4 * (f + n)
      BY <2>1, <2>2
    <3>2. (4 * (f + n)) \div 4 = f + n
      OBVIOUS
    <3> QED BY <2>2, <3>1, <3>2
  <2>3. CASE ~last
    <3>1. from + len = 4 * (f + n + 1)
      BY <2>1, <2>3
    <3>2. (4 * (f + n + 1)) \div 4 = f + n + 1
      OBVIOUS
    <3>3. f + n + 1 - 1 = f + n
      OBVIOUS
    <3> QED BY <2>3, <3>1, <3>2, <3>3
  <2> QED BY <2>2, <2>3
<1> QED BY <1>1, <1>2, <1>3 DEF last

ErosionRight(p, s, lo, hi, N) ==
  /\ N \in Nat \ {0} /\ DOMAIN s.pre_erosion = 0 .. N - 1
  /\ lo \in Int /\ hi \in Int /\ lo >= 0 /\ hi < lo + N
  /\ \A y \in lo .. hi : PreErosionRight(p, s, y)

\* The ring after rows lo to hi have been computed.
Eroded(p, s, lo, hi) ==
  [u \in DOMAIN s.pre_erosion |->
     IF \E y \in lo .. hi : Slot(s.pre_erosion, y) = u
     THEN LET y == Max({x \in lo .. hi : Slot(s.pre_erosion, x) = u})
          IN  IF PreErosionRight(p, s, y) THEN y ELSE Garbage
     ELSE s.pre_erosion[u]]

\* The rows that are computed are computed from their lines, and no row of the ring
\* that is still needed is overwritten.
LEMMA NewPreErosion ==
  ASSUME NEW p, NEW s, NEW N, NEW lo, NEW hi, ErosionRight(p, s, lo, hi, N),
         NEW t, t = Eroded(p, s, lo, hi)
  PROVE  /\ DOMAIN t = 0 .. N - 1
         /\ \A y \in lo .. hi : Row(t, y) = y
         /\ \A y \in Int : y >= 0 /\ y < lo /\ hi < y + N => Row(t, y) = Row(s.pre_erosion, y)
<1> USE DEF Eroded, ErosionRight
<1> DEFINE buf == s.pre_erosion
<1>1. DOMAIN t = DOMAIN buf /\ \A y : Slot(t, y) = Slot(buf, y)
  BY SlotOf
<1>2. ASSUME NEW y \in lo .. hi PROVE Row(t, y) = y
  <2> DEFINE S == {x \in lo .. hi : Slot(buf, x) = Slot(buf, y)}
  <2>1. \A x \in lo .. hi : Slot(buf, x) = Slot(buf, y) => x = y
    <3> SUFFICES ASSUME NEW x \in lo .. hi, x # y PROVE Slot(buf, x) # Slot(buf, y)
      OBVIOUS
    <3>1. x \in Int /\ y \in Int /\ x >= -N /\ y >= -N /\ x < y + N /\ y < x + N
      OBVIOUS
    <3>2. x < y \/ y < x
      BY <3>1
    <3> QED BY <3>1, <3>2, Ring
  <2>2. S = {y}
    BY <2>1
  <2>3. Max(S) = y
    BY <2>2, MaxOfOne
  <2>4. Slot(buf, y) \in DOMAIN buf
    BY Ring
  <2>5. t[Slot(buf, y)] = IF PreErosionRight(p, s, Max(S)) THEN Max(S) ELSE Garbage
    BY <2>4
  <2> QED BY <1>1, <2>3, <2>5 DEF Row
<1>3. ASSUME NEW y \in Int, y >= 0, y < lo, hi < y + N
      PROVE  Row(t, y) = Row(buf, y)
  <2>1. \A x \in lo .. hi : Slot(buf, x) # Slot(buf, y)
    <3> SUFFICES ASSUME NEW x \in lo .. hi PROVE Slot(buf, x) # Slot(buf, y)
      OBVIOUS
    <3>1. x \in Int /\ y >= -N /\ y < x /\ x < y + N
      BY <1>3
    <3> QED BY <3>1, Ring
  <2>2. Slot(buf, y) \in DOMAIN buf
    BY <1>3, Ring
  <2> QED BY <1>1, <2>1, <2>2 DEF Row
<1> QED BY <1>1, <1>2, <1>3

\* The lines are there for the rows of pre_erosion from f, n of them, in an image of
\* g rows of pre_erosion, and so are the two rows that precede the ones to compute.
ErosionReady(p, s, n, f, g, e, lo) ==
  /\ n \in Nat /\ n >= 2 /\ f \in Nat /\ g \in Nat
  /\ iMCU_height(p) = 4 * n /\ s.next_iMCU_row * iMCU_height(p) = 4 * f
  /\ ysize_blocks(p) * 2 = g
  /\ Bounds(p, s, 4 * n, 4 * f, e, 4 * g, lo)
  /\ Bordered(p, s.input_buffer[p.ychan], 4 * n, 4 * f, e, 4 * g, lo)
  /\ DOMAIN s.pre_erosion = 0 .. 3 * n - 1
  /\ f # 0 => Row(s.pre_erosion, f - 1) = f - 1 /\ Row(s.pre_erosion, f) = f

LEMMA PreErosion ==
  ASSUME NEW p \in Images, NEW s, NEW n, NEW f, NEW g, NEW e, NEW lo,
         ErosionReady(p, s, n, f, g, e, lo), NEW t, t = ComputePreErosion(p, s)
  PROVE  /\ DOMAIN t = 0 .. 3 * n - 1
         /\ \A y \in f - 1 .. f + n :
              Row(t, y) = (IF y < 0 THEN 0 ELSE IF y > g - 1 THEN g - 1 ELSE y)
<1> USE DEF ErosionReady
<1> DEFINE last == f + n = g
           first == IF f = 0 THEN 0 ELSE f + 1
           hi == IF last THEN f + n - 1 ELSE f + n
           N == 3 * n
           buf == Eroded(p, s, first, hi)
           top == IF f = 0 THEN CopyRow(buf, -1, 0) ELSE buf
           z == 4 * g
<1>1. /\ e \in Nat /\ z \in Nat /\ lo \in {4 * f - 1, 4 * f}
      /\ s.next_iMCU_row = 0 <=> f = 0
      /\ s.next_iMCU_row + 1 = total_iMCU_rows(p) <=> last
      /\ e = 4 * f + 4 * n \/ e = 4 * f + 8 * n
      /\ e <= z
      /\ e = 4 * f + 8 * n \/ e = z
  BY DEF Bounds
<1>2. PreErosionRows(p, s) = first .. hi
  BY <1>1, PreErosionRowsAre
<1>3. ASSUME NEW y \in first .. hi PROVE PreErosionRight(p, s, y)
  <2> SUFFICES ASSUME NEW d \in -1 .. 4
               PROVE  Row(s.input_buffer[p.ychan], 4 * y + d) = Want(p, 4 * y + d)
    BY DEF PreErosionRight
  <2>1. 4 * y + d \in Int
    OBVIOUS
  <2>2. \/ 0 <= 4 * y + d /\ lo <= 4 * y + d /\ 4 * y + d < e
        \/ 4 * y + d = -1 /\ 4 * f = 0
        \/ 4 * y + d = z /\ 4 * f + 4 * n = z
    <3>1. n \in Nat /\ n >= 2 /\ f \in Nat /\ g \in Nat
      OBVIOUS
    <3> HIDE DEF ErosionReady
    <3> QED BY <1>1, <3>1
  <2> QED BY <2>1, <2>2 DEF Bordered
<1>4. t = IF last THEN CopyRow(top, g, g - 1) ELSE top
  <2>1. g - 1 + 1 = g
    OBVIOUS
  <2> HIDE DEF last, first, hi
  <2> QED BY <1>1, <1>2, <2>1 DEF ComputePreErosion, Eroded
<1>5. first \in Int /\ hi \in Int /\ first >= 0 /\ hi < first + N /\ N \in Nat \ {0}
  OBVIOUS
<1>6. /\ DOMAIN buf = 0 .. N - 1
      /\ \A y \in first .. hi : Row(buf, y) = y
      /\ \A y \in Int : y >= 0 /\ y < first /\ hi < y + N => Row(buf, y) = Row(s.pre_erosion, y)
  <2> HIDE DEF buf, first, hi, N
  <2>1. DOMAIN s.pre_erosion = 0 .. N - 1
    BY DEF N
  <2>2. ErosionRight(p, s, first, hi, N)
    BY <1>3, <1>5, <2>1 DEF ErosionRight
  <2>3. buf = Eroded(p, s, first, hi)
    BY DEF buf
  <2> QED BY ONLY <2>2, <2>3, NewPreErosion
<1> HIDE DEF buf
<1>7. \A y \in Int : y >= 0 /\ y >= f - 1 /\ y <= hi => Row(buf, y) = y
  <2> SUFFICES ASSUME NEW y \in Int, y >= 0, y >= f - 1, y <= hi PROVE Row(buf, y) = y
    OBVIOUS
  <2>1. CASE y >= first
    BY <1>5, <1>6, <2>1
  <2>2. CASE y < first
    <3>1. f # 0 /\ (y = f - 1 \/ y = f)
      BY <2>2
    <3>2. Row(s.pre_erosion, y) = y
      BY <3>1
    <3>3. hi < y + N
      BY <3>1
    <3> QED BY <1>6, <2>2, <3>2, <3>3
  <2> QED BY <1>5, <2>1, <2>2
<1>8. /\ DOMAIN top = 0 .. N - 1
      /\ \A y \in Int : y >= f - 1 /\ y <= hi => Row(top, y) = IF y < 0 THEN 0 ELSE y
  <2>1. CASE f = 0
    <3>1. top = CopyRow(buf, -1, 0)
      BY <2>1
    <3> HIDE DEF top
    <3>2. /\ DOMAIN top = 0 .. N - 1 /\ Row(top, -1) = Row(buf, 0)
          /\ \A y \in Int : y >= -N /\ -1 < y /\ y < -1 + N => Row(top, y) = Row(buf, y)
      <4> HIDE DEF N
      <4>1. -1 >= -N
        BY <1>5
      <4> QED BY <1>5, <1>6, <3>1, <4>1, CopyRowIs
    <3>3. Row(buf, 0) = 0
      BY <1>7, <2>1
    <3>4. ASSUME NEW y \in Int, y >= f - 1, y <= hi
          PROVE  Row(top, y) = IF y < 0 THEN 0 ELSE y
      <4>1. CASE y < 0
        <5>1. y = -1
          BY <2>1, <3>4, <4>1
        <5> QED BY <3>2, <3>3, <5>1
      <4>2. CASE y >= 0
        <5>1. y >= -N /\ -1 < y /\ y < -1 + N
          BY <2>1, <3>4, <4>2
        <5> QED BY <1>7, <3>2, <3>4, <4>2, <5>1
      <4> QED BY <4>1, <4>2
    <3> QED BY <3>2, <3>4
  <2>2. CASE f # 0
    <3>1. top = buf
      BY <2>2
    <3> HIDE DEF top
    <3> QED BY <1>6, <1>7, <2>2, <3>1
  <2> QED BY <2>1, <2>2
<1> HIDE DEF top
<1>9. CASE ~last
  <2>1. t = top /\ hi = f + n
    BY <1>4, <1>9
  <2>2. f + n < g
    <3>1. 4 * f + 4 * n <= 4 * g
      BY <1>1
    <3>2. f + n <= g
      BY <3>1
    <3> QED BY <1>9, <3>2
  <2> QED BY <1>8, <2>1, <2>2
<1>10. CASE last
  <2>1. t = CopyRow(top, g, g - 1) /\ hi = f + n - 1 /\ g = f + n
    BY <1>4, <1>10
  <2>2. /\ DOMAIN t = 0 .. N - 1 /\ Row(t, g) = Row(top, g - 1)
        /\ \A y \in Int : y >= -N /\ y < g /\ g < y + N => Row(t, y) = Row(top, y)
    <3> HIDE DEF N
    <3>1. g >= -N
      BY <1>5
    <3> QED BY <1>5, <1>8, <2>1, <3>1, CopyRowIs
  <2>3. Row(top, g - 1) = g - 1
    BY <1>8, <2>1
  <2>4. ASSUME NEW y \in f - 1 .. f + n
        PROVE  Row(t, y) = (IF y < 0 THEN 0 ELSE IF y > g - 1 THEN g - 1 ELSE y)
    <3>1. CASE y = g
      BY <2>2, <2>3, <3>1
    <3>2. CASE y # g
      <4>1. y \in Int /\ y >= -N /\ y < g /\ g < y + N /\ y <= hi /\ y >= f - 1
        BY <2>1, <2>4, <3>2
      <4> HIDE DEF N, hi
      <4>2. Row(t, y) = Row(top, y)
        BY <2>2, <4>1
      <4>3. Row(top, y) = IF y < 0 THEN 0 ELSE y
        BY <1>8, <4>1
      <4> QED BY <4>1, <4>2, <4>3
    <3> QED BY <3>1, <3>2
  <2> QED BY <2>2, <2>4
<1> QED BY <1>9, <1>10

\* After the adaptive quantization field of the iMCU row: the rows of the next one
\* are in the rings, and the field was computed from the lines around its blocks.
LEMMA Quantized ==
  ASSUME NEW p \in Images, NEW s, NEW k, Coding(p, s, k), RingsInv(p, s), ErosionInv(p, s),
         NEW sm, sm = ApplyInputSmoothing(p, s), NEW dn, dn = DownsampleInputBuffer(p, sm),
         NEW t, t = ComputeAdaptiveQuantField(p, dn)
  PROVE  /\ IsMaster(t) /\ t.next_iMCU_row = s.next_iMCU_row
         /\ t.next_input_row = s.next_input_row /\ t.right = s.right /\ t.bw = s.bw
         /\ t.use_adaptive_quantization = s.use_adaptive_quantization /\ SameTokens(s, t)
         /\ DOMAIN t.input_buffer = Comps(p)
         /\ \A c \in Comps(p) :
              /\ DOMAIN t.input_buffer[c] = 0 .. 3 * Unit(p, c) - 1
              /\ Holds(p, t.input_buffer[c],
                       s.next_iMCU_row * Unit(p, c) + Unit(p, c) - Above(p), k * Unit(p, c))
         /\ DOMAIN t.pre_erosion = 0 .. 6 * max_v_samp_factor(p) - 1
         /\ s.use_adaptive_quantization =>
              /\ QuantFieldRight(p, t)
              /\ s.next_iMCU_row + 1 # total_iMCU_rows(p) =>
                   LET y == (s.next_iMCU_row + 1) * 2 * max_v_samp_factor(p)
                   IN  Row(t.pre_erosion, y - 1) = y - 1 /\ Row(t.pre_erosion, y) = y
<1> DEFINE r == s.next_iMCU_row
           M == max_v_samp_factor(p)
           H == iMCU_height(p)
           T == total_iMCU_rows(p)
<1>1. IsMaster(s) /\ DOMAIN s.input_buffer = Comps(p) /\ r \in Nat
  BY DEF Coding, RingsInv
<1>2. SameCoding(s, sm) /\ sm.next_input_row = s.next_input_row /\ DOMAIN sm.input_buffer = Comps(p)
  BY <1>1, SmoothingFields
<1>3. SameCoding(sm, dn) /\ dn.next_input_row = sm.next_input_row /\ DOMAIN dn.input_buffer = Comps(p)
  BY <1>2, DownsampleFields DEF SameCoding
<1>4. /\ IsMaster(dn) /\ dn.next_iMCU_row = r /\ dn.right = s.right /\ dn.bw = s.bw
      /\ dn.next_input_row = s.next_input_row
      /\ dn.use_adaptive_quantization = s.use_adaptive_quantization
      /\ dn.pre_erosion = s.pre_erosion /\ SameTokens(s, dn)
  BY <1>2, <1>3 DEF SameCoding, SameTokens
<1>5. p.ychan \in Comps(p) /\ M \in 1 .. 4 /\ H = 8 * M
  BY Sampling, Heights
<1>6. /\ IsMaster(t)
      /\ t.next_iMCU_row = dn.next_iMCU_row /\ t.right = dn.right /\ t.bw = dn.bw
      /\ t.next_input_row = dn.next_input_row
      /\ t.use_adaptive_quantization = dn.use_adaptive_quantization
      /\ SameTokens(dn, t)
      /\ DOMAIN t.input_buffer = Comps(p)
      /\ ~dn.use_adaptive_quantization => t.pre_erosion = dn.pre_erosion
  BY <1>3, <1>4, <1>5, AdaptiveQuantFields
<1>7. \A c \in Comps(p) :
        t.input_buffer[c] = IF dn.use_adaptive_quantization /\ c = p.ychan
                            THEN CopyBorders(p, dn, dn.input_buffer[c]) ELSE dn.input_buffer[c]
  BY <1>3, <1>4, <1>5, AdaptiveQuantFields
<1>8. \A c \in Comps(p) :
        /\ DOMAIN dn.input_buffer[c] = 0 .. 3 * Unit(p, c) - 1
        /\ Holds(p, dn.input_buffer[c], r * Unit(p, c) + Unit(p, c) - Above(p), k * Unit(p, c))
  BY Downsampled
<1>9. SameTokens(s, t)
  BY <1>4, <1>6 DEF SameTokens
<1>10. DOMAIN s.pre_erosion = 0 .. 6 * M - 1
  BY DEF ErosionInv
<1>11. CASE ~s.use_adaptive_quantization
  BY <1>4, <1>6, <1>7, <1>8, <1>9, <1>10, <1>11
<1>12. CASE s.use_adaptive_quantization
  <2> DEFINE c == p.ychan
             a == r * H
             e == k * H
             z == T * H
             lo == a - Above(p)
             n == 2 * M
             f == r * n
             g == T * n
             b == t.input_buffer[c]
  <2>1. p.v[c] = M
    BY <1>12 DEF ErosionInv
  <2>2. Unit(p, c) = H /\ z = EndRow(p)
    BY <1>5, <2>1, Units
  <2>3. /\ H \in Nat \ {0} /\ H >= 8 /\ a \in Nat /\ e \in Nat /\ z \in Nat
        /\ r = 0 <=> a = 0
        /\ r + 1 = T <=> a + H = z
        /\ e = a + H \/ e = a + 2 * H
        /\ e <= z
        /\ e = a + 2 * H \/ e = z
        /\ (r + 1) * H = a + H
    BY <1>5, <2>2, ExtentsOf
  <2>4. Above(p) \in {0, 1}
    BY DEF Above
  <2>5. Bounds(p, dn, H, a, e, z, lo)
    <3> HIDE DEF H, a, e, z, T
    <3> QED BY <1>4, <2>2, <2>3, <2>4 DEF Bounds, T
  <2>6. dn.input_buffer[c] = sm.input_buffer[c]
    BY <1>5, <2>1, Downsampled
  <2>7. DOMAIN sm.input_buffer[c] = 0 .. 3 * H - 1 /\ Holds(p, sm.input_buffer[c], lo, e)
    BY <1>5, <2>2, Smoothed
  <2>8. b = CopyBorders(p, dn, dn.input_buffer[c])
    BY <1>4, <1>5, <1>7, <1>12
  <2>9. DOMAIN b = 0 .. 3 * H - 1 /\ Bordered(p, b, H, a, e, z, lo)
    <3> HIDE DEF H, a, e, z, lo, b
    <3> QED BY <2>5, <2>6, <2>7, <2>8, Borders
  <2>10. Holds(p, b, a + H - Above(p), e)
    <3> HIDE DEF H, a, e, z, b
    <3> QED BY <2>3, <2>4, <2>9 DEF Holds, Bordered
  <2>11. \A d \in Comps(p) :
           /\ DOMAIN t.input_buffer[d] = 0 .. 3 * Unit(p, d) - 1
           /\ Holds(p, t.input_buffer[d], r * Unit(p, d) + Unit(p, d) - Above(p), k * Unit(p, d))
    <3> SUFFICES ASSUME NEW d \in Comps(p)
                 PROVE  /\ DOMAIN t.input_buffer[d] = 0 .. 3 * Unit(p, d) - 1
                        /\ Holds(p, t.input_buffer[d], r * Unit(p, d) + Unit(p, d) - Above(p),
                                 k * Unit(p, d))
      OBVIOUS
    <3>1. CASE d = c
      BY <2>2, <2>9, <2>10, <3>1
    <3>2. CASE d # c
      BY <1>7, <1>8, <3>2
    <3> QED BY <3>1, <3>2
  <2>12. PICK s1 : ErodedFrom(p, dn, s1, t)
    BY <1>3, <1>4, <1>5, <1>12, AdaptiveQuantFields
  <2>13. s1.next_iMCU_row = r /\ s1.pre_erosion = s.pre_erosion /\ s1.input_buffer[c] = b
    BY <1>4, <2>12 DEF SameCoding, ErodedFrom
  <2>14. n \in Nat /\ n >= 2 /\ H = 4 * n /\ f \in Nat /\ g \in Nat /\ T \in Nat
         /\ a = 4 * f /\ z = 4 * g /\ ysize_blocks(p) * 2 = g /\ 3 * n = 6 * M
         /\ (r + 1) * 2 * M = f + n /\ (f = 0 <=> r = 0) /\ (r + 1 = T <=> f + n = g)
    <3>1. T \in Nat /\ ysize_blocks(p) * 2 = g
      BY Heights
    <3> HIDE DEF T, M, r
    <3>2. n \in Nat /\ n >= 2 /\ H = 4 * n /\ f \in Nat /\ g \in Nat /\ 3 * n = 6 * M
      BY <1>1, <1>5, <3>1
    <3>3. (r + 1) * 2 * M = f + n /\ a = 4 * f /\ z = 4 * g
      BY <1>1, <1>5, <3>1
    <3> HIDE DEF n, f, g, a, z, H
    <3>4. (f = 0 <=> r = 0) /\ (r + 1 = T <=> f + n = g)
      BY <2>3, <3>2, <3>3 DEF r, T
    <3> QED BY <3>1, <3>2, <3>3, <3>4
  <2>15. f # 0 => Row(s1.pre_erosion, f - 1) = f - 1 /\ Row(s1.pre_erosion, f) = f
    <3> SUFFICES ASSUME f # 0
                 PROVE  Row(s1.pre_erosion, f - 1) = f - 1 /\ Row(s1.pre_erosion, f) = f
      OBVIOUS
    <3>1. r \in 1 .. T - 1
      <4>1. r # 0
        BY <2>14
      <4>2. k \in Nat /\ (k = r + 1 \/ k = r + 2) /\ k <= T
        BY DEF Coding
      <4> HIDE DEF r, T
      <4> QED BY <1>1, <2>14, <4>1, <4>2
    <3>2. r * 2 * M = f
      <4> HIDE DEF r, M
      <4> QED BY <1>1, <1>5
    <3> QED BY <1>12, <2>13, <3>1, <3>2 DEF ErosionInv
  <2>16. Bounds(p, s1, H, 4 * f, e, z, lo)
    <3> HIDE DEF H, a, e, z, lo, f
    <3> QED BY <1>4, <2>5, <2>13, <2>14 DEF Bounds
  <2>17. s1.next_iMCU_row * iMCU_height(p) = 4 * f
    BY <2>13, <2>14
  <2>18. /\ DOMAIN t.pre_erosion = 0 .. 3 * n - 1
         /\ \A y \in f - 1 .. f + n :
              Row(t.pre_erosion, y) = (IF y < 0 THEN 0 ELSE IF y > g - 1 THEN g - 1 ELSE y)
    <3>1. Bordered(p, s1.input_buffer[p.ychan], H, 4 * f, e, z, lo)
      BY <2>9, <2>13, <2>14
    <3>2. DOMAIN s1.pre_erosion = 0 .. 3 * n - 1
      BY <1>10, <2>13, <2>14
    <3>3. H = iMCU_height(p) /\ t.pre_erosion = ComputePreErosion(p, s1)
      BY <2>12 DEF ErodedFrom
    <3> HIDE DEF H, e, z, lo, n, f, g
    <3>4. ErosionReady(p, s1, n, f, g, e, lo)
      BY <2>14, <2>15, <2>16, <2>17, <3>1, <3>2, <3>3 DEF ErosionReady
    <3> QED BY <3>3, <3>4, PreErosion
  <2>19. QuantFieldRight(p, t)
    <3>1. t.next_iMCU_row = r
      BY <1>4, <1>6
    <3>2. \A y \in a .. a + H - 1 : Row(b, y) = Want(p, y)
      <4> HIDE DEF H, a, e, z, b
      <4> QED BY <2>3, <2>4, <2>9 DEF Bordered
    <3>3. \A y \in r * (2 * max_v_samp_factor(p)) - 1
                    .. r * (2 * max_v_samp_factor(p)) + 2 * max_v_samp_factor(p) :
            Row(t.pre_erosion, y) = (IF y < 0 THEN 0 ELSE IF y > ysize_blocks(p) * 2 - 1
                                     THEN ysize_blocks(p) * 2 - 1 ELSE y)
      BY <2>14, <2>18
    <3>4. \A y \in r * iMCU_height(p) .. r * iMCU_height(p) + iMCU_height(p) - 1 :
            Row(t.input_buffer[p.ychan], y) = Want(p, y)
      BY <3>2
    <3> QED BY <3>1, <3>3, <3>4 DEF QuantFieldRight
  <2>20. r + 1 # T => LET y == (r + 1) * 2 * M
                      IN  Row(t.pre_erosion, y - 1) = y - 1 /\ Row(t.pre_erosion, y) = y
    <3> SUFFICES ASSUME r + 1 # T
                 PROVE  /\ Row(t.pre_erosion, (f + n) - 1) = (f + n) - 1
                        /\ Row(t.pre_erosion, f + n) = f + n
      BY <2>14
    <3>1. f + n < g
      <4>1. a + H <= z /\ f + n # g
        BY <2>3, <2>14
      <4> HIDE DEF a, H, z, f, n, g
      <4> QED BY <2>14, <4>1
    <3> HIDE DEF f, n, g
    <3> QED BY <2>14, <2>18, <3>1
  <2> QED BY <1>4, <1>6, <1>9, <2>11, <2>14, <2>18, <2>19, <2>20
<1> QED BY <1>11, <1>12

-----------------------------------------------------------------------------
(* An iMCU row, and the iMCU rows that follow the input.                   *)

\* The parts of the invariant that do not speak of the lines read.
RowsInv(p, s) ==
  /\ IsMaster(s) /\ s.right = TRUE
  /\ RingsInv(p, s) /\ ErosionInv(p, s) /\ TokensInv(p, s)

CodedRow(p, s, t) ==
  /\ RowsInv(p, t)
  /\ t.next_iMCU_row = s.next_iMCU_row + 1 /\ t.next_input_row = s.next_input_row
  /\ t.bw = IF WritesBits(p) THEN s.bw \o RowUnits(s.next_iMCU_row) ELSE s.bw

LEMMA CodeRow ==
  ASSUME NEW p \in Images, NEW s, NEW k, Coding(p, s, k), RowsInv(p, s),
         NEW density \in 2 .. 64, NEW t, t = ProcessiMCURow(p, s, density)
  PROVE  CodedRow(p, s, t)
<1> DEFINE r == s.next_iMCU_row
           sm == ApplyInputSmoothing(p, s)
           dn == DownsampleInputBuffer(p, sm)
           aq == ComputeAdaptiveQuantField(p, dn)
           en == EncodeiMCURow(p, aq, density)
           right == \A c \in Comps(p) :
                      \A y \in r * (DCTSIZE * p.v[c]) .. r * (DCTSIZE * p.v[c]) + DCTSIZE * p.v[c] - 1 :
                         RawDataRight(p, sm, c, y)
           field == s.use_adaptive_quantization => QuantFieldRight(p, aq)
<1>1. t = [en EXCEPT !.right = @ /\ r < total_iMCU_rows(p) /\ right /\ field,
                     !.next_iMCU_row = @ + 1]
  BY DEF ProcessiMCURow
<1>2. right
  BY RowsRight DEF RowsInv
<1>3. /\ IsMaster(aq) /\ aq.next_iMCU_row = r
      /\ aq.next_input_row = s.next_input_row /\ aq.right = s.right /\ aq.bw = s.bw
      /\ aq.use_adaptive_quantization = s.use_adaptive_quantization /\ SameTokens(s, aq)
      /\ DOMAIN aq.input_buffer = Comps(p)
      /\ DOMAIN aq.pre_erosion = 0 .. 6 * max_v_samp_factor(p) - 1
  BY Quantized DEF RowsInv
<1>4. \A c \in Comps(p) :
        /\ DOMAIN aq.input_buffer[c] = 0 .. 3 * Unit(p, c) - 1
        /\ Holds(p, aq.input_buffer[c], r * Unit(p, c) + Unit(p, c) - Above(p), k * Unit(p, c))
  BY Quantized DEF RowsInv
<1>5. s.use_adaptive_quantization =>
        /\ QuantFieldRight(p, aq)
        /\ r + 1 # total_iMCU_rows(p) =>
             LET y == (r + 1) * 2 * max_v_samp_factor(p)
             IN  Row(aq.pre_erosion, y - 1) = y - 1 /\ Row(aq.pre_erosion, y) = y
  BY Quantized DEF RowsInv
<1>6. /\ IsMaster(en)
      /\ en.next_iMCU_row = aq.next_iMCU_row /\ en.right = aq.right
      /\ en.pre_erosion = aq.pre_erosion /\ en.input_buffer = aq.input_buffer
      /\ en.next_input_row = aq.next_input_row
      /\ en.use_adaptive_quantization = aq.use_adaptive_quantization
      /\ en.bw = IF WritesBits(p) THEN aq.bw \o RowUnits(aq.next_iMCU_row) ELSE aq.bw
  <2>1. IsMaster(aq) /\ en = EncodeiMCURow(p, aq, density)
    BY <1>3
  <2> HIDE DEF sm, dn, aq, en
  <2>2. Encoded(p, aq, en)
    BY <2>1, EncodeFields
  <2> QED BY <2>2 DEF Encoded
<1>7. r \in Nat /\ r < total_iMCU_rows(p) /\ total_iMCU_rows(p) \in Nat /\ k \in Nat
      /\ s.next_input_row = k * iMCU_height(p)
  BY Heights DEF Coding
<1>8. field
  BY <1>5
<1>9. s.right = TRUE /\ ErosionInv(p, s) /\ TokensInv(p, s)
  BY DEF RowsInv
<1> HIDE DEF sm, dn, aq, right, field
<1>10. TokensInv(p, aq)
  BY <1>3, <1>9 DEF TokensInv, SameTokens
<1>11. en = EncodeiMCURow(p, aq, density)
  OBVIOUS
<1> HIDE DEF en
<1>12. /\ IsMaster(t) /\ t.right = (en.right /\ r < total_iMCU_rows(p) /\ right /\ field)
       /\ t.next_iMCU_row = en.next_iMCU_row + 1
       /\ t.next_input_row = en.next_input_row
       /\ t.use_adaptive_quantization = en.use_adaptive_quantization
       /\ t.pre_erosion = en.pre_erosion /\ t.input_buffer = en.input_buffer
       /\ t.bw = en.bw /\ SameTokens(en, t)
  BY <1>1, <1>6 DEF IsMaster, SameTokens
<1>13. t.right = TRUE
  BY <1>2, <1>3, <1>6, <1>7, <1>8, <1>9, <1>12
<1>14. TokensInv(p, t)
  BY <1>3, <1>6, <1>7, <1>10, <1>11, <1>12, TokensStep
<1>15. t.next_iMCU_row = r + 1 /\ t.next_input_row = s.next_input_row
       /\ t.bw = IF WritesBits(p) THEN s.bw \o RowUnits(r) ELSE s.bw
  BY <1>3, <1>6, <1>12
<1>16. RingsInv(p, t)
  <2>1. \A c \in Comps(p) : (r + 1) * Unit(p, c) = r * Unit(p, c) + Unit(p, c)
    BY ExtentsOf
  <2>2. \A c \in Comps(p) :
          /\ DOMAIN t.input_buffer[c] = 0 .. 3 * Unit(p, c) - 1
          /\ Holds(p, t.input_buffer[c], t.next_iMCU_row * Unit(p, c) - Above(p), k * Unit(p, c))
    <3> TAKE c \in Comps(p)
    <3>1. t.next_iMCU_row * Unit(p, c) - Above(p) = r * Unit(p, c) + Unit(p, c) - Above(p)
      <4> DEFINE a == r * Unit(p, c)
                 b == (r + 1) * Unit(p, c)
      <4>1. b = a + Unit(p, c) /\ a \in Nat /\ Unit(p, c) \in Nat
        BY ExtentsOf
      <4>2. t.next_iMCU_row * Unit(p, c) = b /\ Above(p) \in Nat
        BY <1>15 DEF Above
      <4> HIDE DEF a, b
      <4>3. b - Above(p) = a + Unit(p, c) - Above(p)
        BY <4>1, <4>2
      <4> QED BY <4>2, <4>3 DEF a
    <3>2. t.input_buffer = aq.input_buffer
      BY <1>6, <1>12
    <3> QED BY <1>4, <3>1, <3>2
  <2>3. DOMAIN t.input_buffer = Comps(p) /\ t.next_input_row = k * iMCU_height(p)
    BY <1>3, <1>6, <1>7, <1>12, <1>15
  <2> QED BY <1>7, <2>2, <2>3, RingsOf
<1>17. ErosionInv(p, t)
  <2>1. /\ DOMAIN t.pre_erosion = 0 .. 6 * max_v_samp_factor(p) - 1
        /\ t.pre_erosion = aq.pre_erosion
        /\ t.use_adaptive_quantization = s.use_adaptive_quantization
    BY <1>3, <1>6, <1>12
  <2>2. s.use_adaptive_quantization => /\ p.v[p.ychan] = max_v_samp_factor(p)
                                       /\ p.h[p.ychan] = max_h_samp_factor(p)
    BY <1>9 DEF ErosionInv
  <2>3. r + 1 \in 1 .. total_iMCU_rows(p) - 1 => r + 1 # total_iMCU_rows(p)
    BY <1>7
  <2> QED BY <1>5, <1>15, <2>1, <2>2, <2>3 DEF ErosionInv
<1> QED BY <1>12, <1>13, <1>14, <1>15, <1>16, <1>17 DEF CodedRow, RowsInv

LEMMA RowNumbers ==
  ASSUME NEW H \in {8, 16, 24, 32}, NEW n \in Nat, n >= 1
  PROVE  LET k == n \div H
         IN  /\ k \in Nat /\ k * H <= n /\ n < k * H + H
             /\ n % H = 0 => n = k * H /\ (n - 1) \div H = k - 1
             /\ n % H # 0 => (n - 1) \div H = k
             /\ n < H => k = 0
             /\ n = H => k = 1 /\ n % H = 0
             /\ n > H => k >= 1
             /\ n > H /\ n % H = 0 => k >= 2
<1>1. CASE H = 8
  BY <1>1
<1>2. CASE H = 16
  BY <1>2
<1>3. CASE H = 24
  BY <1>3
<1>4. CASE H = 32
  BY <1>4
<1> QED BY <1>1, <1>2, <1>3, <1>4

LEMMA WholeRows ==
  ASSUME NEW H \in {8, 16, 24, 32}, NEW T \in Nat
  PROVE  (T * H) % H = 0 /\ (T * H) \div H = T
<1>1. CASE H = 8
  BY <1>1
<1>2. CASE H = 16
  BY <1>2
<1>3. CASE H = 24
  BY <1>3
<1>4. CASE H = 32
  BY <1>4
<1> QED BY <1>1, <1>2, <1>3, <1>4

\* Lines have been read, and the iMCU rows that they complete are still to be coded.
Fed(p, s) ==
  LET n == s.next_input_row
      H == iMCU_height(p)
  IN  /\ p.mode # "coeffs" /\ n \in Nat /\ n >= 1
      /\ p.mode = "raw" => n % H = 0
      /\ s.next_iMCU_row = IF n <= H THEN 0 ELSE (n - 1) \div H - 1
      /\ n < p.height \/ n = total_iMCU_rows(p) * H

\* What the steps of the encoder keep of cinfo->master.
MasterInv(p, s) == RowsInv(p, s) /\ CountInv(p, s) /\ BitsInv(s)

CodedRows(p, s, t) == MasterInv(p, t) /\ t.next_input_row = s.next_input_row

LEMMA CodeRows ==
  ASSUME NEW p \in Images, NEW s, Fed(p, s), RowsInv(p, s), s.bw = <<>>,
         NEW density \in 2 .. 64, NEW t, t = ProcessiMCURows(p, s, density)
  PROVE  CodedRows(p, s, t)
<1> SUFFICES RowsInv(p, t) /\ CountInv(p, t) /\ BitsInv(t) /\ t.next_input_row = s.next_input_row
  BY DEF CodedRows, MasterInv
<1> DEFINE n == s.next_input_row
           r == s.next_iMCU_row
           H == iMCU_height(p)
           T == total_iMCU_rows(p)
           k == n \div H
           u == ProcessiMCURow(p, s, density)
<1>1. /\ H \in {8, 16, 24, 32} /\ T \in Nat \ {0} /\ p.height <= T * H /\ T * H \in Nat
      /\ p.height \in Nat
  <2>1. H = 8 * max_v_samp_factor(p) /\ max_v_samp_factor(p) \in 1 .. 4
    BY Heights, Sampling
  <2>2. H \in {8, 16, 24, 32}
    BY <2>1
  <2> QED BY <2>2, Heights, Sampling
<1>2. /\ n \in Nat /\ n >= 1 /\ (n < p.height \/ n = T * H) /\ p.mode # "coeffs"
      /\ p.mode = "raw" => n % H = 0
      /\ r = IF n <= H THEN 0 ELSE (n - 1) \div H - 1
  BY DEF Fed
<1>3. /\ k \in Nat /\ k * H <= n /\ n < k * H + H /\ k * H \in Nat
      /\ n % H = 0 => n = k * H /\ (n - 1) \div H = k - 1
      /\ n % H # 0 => (n - 1) \div H = k
      /\ n < H => k = 0
      /\ n = H => k = 1 /\ n % H = 0
      /\ n > H => k >= 1
      /\ n > H /\ n % H = 0 => k >= 2
  <2>1. n \in Nat /\ n >= 1
    BY <1>2
  <2> HIDE DEF n, H
  <2>2. k \in Nat /\ k * H \in Nat
    BY <1>1, <2>1, RowNumbers
  <2> QED BY <1>1, <2>1, <2>2, RowNumbers
<1>4. IsMaster(s)
  BY DEF RowsInv
<1>5. t = IF n >= p.height
          THEN ProcessiMCURow(p, IF n % H = 0 /\ n > H THEN u ELSE s, density)
          ELSE IF n % H = 0 /\ n > H THEN u ELSE s
  BY DEF ProcessiMCURows
<1>6. n % H = 0 /\ n > H => r = k - 2 /\ Coding(p, s, k)
  <2> SUFFICES ASSUME n % H = 0, n > H PROVE r = k - 2 /\ Coding(p, s, k)
    OBVIOUS
  <2>1. r = k - 2 /\ k >= 2 /\ n = k * H
    <3> HIDE DEF k, n, H, r
    <3> QED BY <1>1, <1>2, <1>3
  <2>2. k * H <= T * H
    <3> HIDE DEF n, k
    <3> QED BY <1>1, <1>2, <2>1
  <2>3. k <= T
    <3> HIDE DEF k, H, T
    <3>1. CASE k >= T + 1
      <4>1. (T + 1) * H <= k * H
        BY <1>1, <1>3, <3>1, Multiples
      <4>2. (T + 1) * H = T * H + H
        BY <1>1
      <4> QED BY <1>1, <1>3, <2>2, <4>1, <4>2
    <3> QED BY <1>1, <1>3, <3>1
  <2> QED BY <1>2, <1>3, <1>4, <2>1, <2>3 DEF Coding
<1>7. CASE n < p.height
  <2>1. CASE n % H = 0 /\ n > H
    <3>1. t = u /\ Coding(p, s, k) /\ r = k - 2
      <4> HIDE DEF k, u, n, H, r
      <4> QED BY <1>1, <1>2, <1>5, <1>6, <1>7, <2>1
    <3>2. /\ RowsInv(p, t) /\ t.next_iMCU_row = r + 1 /\ t.next_input_row = n
          /\ t.bw = IF WritesBits(p) THEN s.bw \o RowUnits(r) ELSE s.bw
      <4>1. CodedRow(p, s, t)
        BY <3>1, CodeRow
      <4> QED BY <4>1 DEF CodedRow
    <3>3. BitsInv(t)
      <4>1. RowUnits(t.next_iMCU_row - 1) = RowUnits(r) /\ <<>> \o RowUnits(r) = RowUnits(r)
        <5>1. r \in Int /\ (r + 1) - 1 = r
          BY <3>1 DEF Coding
        <5> QED BY <3>2, <5>1 DEF RowUnits
      <4>2. t.bw \in {<<>>, RowUnits(r)}
        BY <3>2, <4>1
      <4> QED BY <4>1, <4>2 DEF BitsInv
    <3>4. CountInv(p, t)
      <4>1. t.next_iMCU_row = k - 1 /\ n >= H /\ k - 1 \in Nat
        <5> HIDE DEF n, k, H, r
        <5> QED BY <1>1, <1>2, <1>3, <2>1, <3>1, <3>2
      <4> QED BY <1>1, <1>2, <1>7, <3>2, <4>1 DEF CountInv
    <3> QED BY <3>2, <3>3, <3>4
  <2>2. CASE ~(n % H = 0 /\ n > H)
    <3>1. t = s
      <4> HIDE DEF k, u, n, H, r
      <4> QED BY <1>1, <1>2, <1>5, <1>7, <2>2
    <3>2. BitsInv(t)
      BY <3>1 DEF BitsInv
    <3>3. r = (IF n < H THEN 0 ELSE k - 1) /\ r \in Nat
      <4> HIDE DEF n, k, H, r
      <4>1. CASE n < H
        BY <1>1, <1>2, <4>1
      <4>2. CASE n = H
        BY <1>1, <1>2, <1>3, <4>2
      <4>3. CASE n > H
        BY <1>1, <1>2, <1>3, <2>2, <4>3
      <4> QED BY <1>1, <1>2, <4>1, <4>2, <4>3
    <3>4. CountInv(p, t)
      BY <1>1, <1>2, <1>7, <3>1, <3>3 DEF CountInv
    <3> QED BY <3>1, <3>2, <3>4
  <2> QED BY <2>1, <2>2
<1>8. CASE n = T * H
  <2>1. n % H = 0 /\ k = T /\ n >= p.height
    <3> HIDE DEF H, T
    <3> QED BY <1>1, <1>8, WholeRows
  <2>2. CASE n > H
    <3>1. t = ProcessiMCURow(p, u, density) /\ Coding(p, s, T) /\ r = T - 2
      <4> HIDE DEF k, u, n, H, r, T
      <4> QED BY <1>5, <1>6, <2>1, <2>2
    <3>2. /\ RowsInv(p, u) /\ u.next_iMCU_row = r + 1 /\ u.next_input_row = n
          /\ u.bw = IF WritesBits(p) THEN s.bw \o RowUnits(r) ELSE s.bw
      <4>1. CodedRow(p, s, u)
        BY <3>1, CodeRow
      <4> QED BY <4>1 DEF CodedRow
    <3>3. Coding(p, u, T)
      BY <1>1, <1>8, <3>1, <3>2 DEF Coding, RowsInv
    <3>4. /\ RowsInv(p, t) /\ t.next_iMCU_row = u.next_iMCU_row + 1
          /\ t.next_input_row = u.next_input_row
          /\ t.bw = IF WritesBits(p) THEN u.bw \o RowUnits(u.next_iMCU_row) ELSE u.bw
      <4> HIDE DEF u
      <4>1. CodedRow(p, u, t)
        BY <3>1, <3>2, <3>3, CodeRow
      <4> QED BY <4>1 DEF CodedRow
    <3>5. r \in Nat /\ u.next_iMCU_row = T - 1 /\ t.next_iMCU_row = T
      <4> HIDE DEF r, u, T
      <4>1. r \in Nat
        BY <3>1 DEF Coding, r
      <4> QED BY <1>1, <3>1, <3>2, <3>4, <4>1
    <3>6. BitsInv(t)
      <4>1. T - 2 = r /\ u.next_iMCU_row = T - 1
        BY <3>1, <3>5
      <4>2. <<>> \o RowUnits(r) = RowUnits(r)
        BY DEF RowUnits
      <4>3. u.bw = IF WritesBits(p) THEN RowUnits(r) ELSE <<>>
        BY <3>2, <4>2
      <4>4. t.bw = IF WritesBits(p) THEN RowUnits(T - 2) \o RowUnits(T - 1) ELSE <<>>
        <5> HIDE DEF u, r, T
        <5> QED BY <3>4, <4>1, <4>3
      <4> QED BY <3>5, <4>4 DEF BitsInv
    <3>7. CountInv(p, t)
      <4>1. t.next_input_row = n
        BY <3>2, <3>4
      <4> QED BY <1>1, <1>2, <1>8, <2>1, <3>5, <4>1 DEF CountInv
    <3> QED BY <3>2, <3>4, <3>6, <3>7
  <2>3. CASE n <= H
    <3>1. T = 1 /\ n = H /\ r = 0
      <4>1. CASE T >= 2
        <5>1. 2 * H <= T * H
          <6> HIDE DEF T, H
          <6> QED BY <1>1, <4>1, Multiples
        <5> HIDE DEF n, T, H
        <5> QED BY <1>1, <1>8, <2>3, <5>1
      <4>2. CASE T = 1
        <5> HIDE DEF n, T, H, r
        <5> QED BY <1>1, <1>2, <1>8, <2>3, <4>2
      <4> HIDE DEF T
      <4> QED BY <1>1, <4>1, <4>2
    <3>2. t = u
      <4>1. n >= p.height /\ ~(n > H)
        <5> HIDE DEF n, H
        <5> QED BY <1>1, <2>1, <3>1
      <4> QED BY <1>5, <4>1
    <3>3. Coding(p, s, T)
      BY <1>1, <1>2, <1>4, <1>8, <3>1 DEF Coding
    <3>4. /\ RowsInv(p, t) /\ t.next_iMCU_row = r + 1 /\ t.next_input_row = n
          /\ t.bw = IF WritesBits(p) THEN s.bw \o RowUnits(r) ELSE s.bw
      <4>1. CodedRow(p, s, t)
        BY <3>2, <3>3, CodeRow
      <4> QED BY <4>1 DEF CodedRow
    <3>5. BitsInv(t)
      <4>1. RowUnits(t.next_iMCU_row - 1) = RowUnits(r) /\ <<>> \o RowUnits(r) = RowUnits(r)
        BY <3>1, <3>4 DEF RowUnits
      <4>2. t.bw \in {<<>>, RowUnits(r)}
        BY <3>4, <4>1
      <4> QED BY <4>1, <4>2 DEF BitsInv
    <3>6. CountInv(p, t)
      <4>1. t.next_iMCU_row = T
        BY <3>1, <3>4
      <4>2. t.next_input_row = n
        BY <3>4
      <4> QED BY <1>1, <1>2, <1>8, <2>1, <4>1, <4>2 DEF CountInv
    <3> QED BY <3>4, <3>5, <3>6
  <2> HIDE DEF n, H
  <2> QED BY <1>1, <1>2, <2>2, <2>3
<1> QED BY <1>2, <1>7, <1>8

-----------------------------------------------------------------------------
(* Reading lines.                                                          *)

LEMMA SameRows ==
  ASSUME NEW p, NEW s, NEW t, SameCoding(s, t), RowsInv(p, s), RingsInv(p, t)
  PROVE  RowsInv(p, t) /\ t.bw = s.bw
<1>1. ErosionInv(p, t)
  BY DEF SameCoding, RowsInv, ErosionInv
<1>2. TokensInv(p, t)
  BY DEF SameCoding, SameTokens, RowsInv, TokensInv
<1> QED BY <1>1, <1>2 DEF SameCoding, RowsInv

\* The rings of an image that is given in lines.
Lined(p, s, lo, e) ==
  /\ DOMAIN s.input_buffer = Comps(p)
  /\ \A c \in Comps(p) : /\ DOMAIN s.input_buffer[c] = 0 .. 3 * iMCU_height(p) - 1
                         /\ Holds(p, s.input_buffer[c], lo, e)

LEMMA LinedRings ==
  ASSUME NEW p, NEW s, p.mode = "pixels"
  PROVE  RingsInv(p, s)
           <=> Lined(p, s, s.next_iMCU_row * iMCU_height(p) - Above(p), s.next_input_row)
<1>1. \A c : Unit(p, c) = iMCU_height(p) /\ RowsIn(p, s, c) = s.next_input_row
  BY DEF Unit, RowsIn, iMCU_height
<1> QED BY <1>1 DEF RingsInv, Lined, Holds, Above

\* A line that is read is the next one of the image.
LEMMA FeedLine ==
  ASSUME NEW p \in Images, p.mode = "pixels", NEW s, RowsInv(p, s), CountInv(p, s),
         s.next_input_row < p.height,
         NEW q, q = ReadInputRow(p, s, s.next_input_row), NEW t, t = PadInputBuffer(p, q)
  PROVE  /\ RowsInv(p, t) /\ Fed(p, t) /\ t.bw = s.bw
         /\ t.next_input_row = IF s.next_input_row + 1 = p.height THEN EndRow(p)
                               ELSE s.next_input_row + 1
<1> DEFINE n == s.next_input_row
           r == s.next_iMCU_row
           H == iMCU_height(p)
           T == total_iMCU_rows(p)
           k == n \div H
           z == EndRow(p)
           a == r * H
           lo == a - Above(p)
<1>1. /\ H \in {8, 16, 24, 32} /\ T \in Nat \ {0} /\ p.height \in Nat \ {0}
      /\ z \in Nat /\ z = T * H /\ p.height <= z /\ (T - 1) * H < p.height
      /\ ysize_blocks(p) * DCTSIZE = z
  <2>1. H = 8 * max_v_samp_factor(p) /\ max_v_samp_factor(p) \in 1 .. 4
    BY Heights, Sampling
  <2>2. H \in {8, 16, 24, 32}
    BY <2>1
  <2> QED BY <2>2, Heights, Sampling, WantIs DEF EndRow
<1>2. /\ n \in Nat /\ r \in Nat /\ n < p.height
      /\ r = IF n < H THEN 0 ELSE k - 1
  BY DEF CountInv
<1>3. IsMaster(s) /\ Lined(p, s, lo, n)
  BY LinedRings DEF RowsInv
<1>4. Above(p) \in {0, 1}
  BY DEF Above
<1>5. /\ k \in Nat /\ k * H \in Nat /\ k * H <= n /\ n < k * H + H /\ (n < H => k = 0)
      /\ (n >= H => k >= 1)
  <2> HIDE DEF n, H
  <2>1. CASE H = 8
    BY <1>2, <2>1
  <2>2. CASE H = 16
    BY <1>2, <2>2
  <2>3. CASE H = 24
    BY <1>2, <2>3
  <2>4. CASE H = 32
    BY <1>2, <2>4
  <2> QED BY <1>1, <2>1, <2>2, <2>3, <2>4
<1>6. a \in Nat /\ a <= n /\ n < a + 2 * H
  <2>1. CASE n < H
    <3> HIDE DEF n, H, k, r
    <3> QED BY <1>1, <1>2, <2>1
  <2>2. CASE ~(n < H)
    <3>1. r = k - 1
      BY <1>2, <2>2
    <3>2. (k - 1) * H = k * H - H
      <4> HIDE DEF k, H
      <4> QED BY <1>1, <1>5
    <3>3. a = k * H - H /\ a \in Nat
      <4>1. a = k * H - H
        BY <3>1, <3>2
      <4>2. r * H \in Nat
        <5> HIDE DEF r, H
        <5> QED BY <1>1, <1>2
      <4> QED BY <4>1, <4>2
    <3> DEFINE e == k * H
    <3>4. e \in Nat /\ e <= n /\ n < e + H /\ a = e - H /\ a \in Nat
      BY <1>5, <3>3
    <3> HIDE DEF n, H, k, a, e
    <3> QED BY <1>1, <1>2, <3>4
  <2> QED BY <2>1, <2>2
<1>7. /\ SameCoding(s, q) /\ q.next_input_row = n + 1 /\ DOMAIN q.input_buffer = Comps(p)
      /\ \A c \in Comps(p) :
           q.input_buffer[c] = [s.input_buffer[c] EXCEPT ![Slot(s.input_buffer[c], n)] = n]
  BY <1>3, ReadInputRowFields
<1>8. Want(p, n) = n
  <2> HIDE DEF n, z
  <2>1. n \in 0 .. z - 1
    BY <1>1, <1>2
  <2> QED BY <1>2, <2>1, WantIs DEF z
<1>9. Lined(p, q, lo, n + 1)
  <2> SUFFICES ASSUME NEW c \in Comps(p)
               PROVE  /\ DOMAIN q.input_buffer[c] = 0 .. 3 * H - 1
                      /\ Holds(p, q.input_buffer[c], lo, n + 1)
    BY <1>7 DEF Lined
  <2> DEFINE buf == s.input_buffer[c]
             w == q.input_buffer[c]
             N == 3 * H
  <2>1. /\ DOMAIN buf = 0 .. N - 1 /\ Holds(p, buf, lo, n)
        /\ w = [buf EXCEPT ![Slot(buf, n)] = Want(p, n)]
    BY <1>3, <1>7, <1>8 DEF Lined
  <2>2. N \in Nat \ {0} /\ lo \in Int /\ n < lo + N
    <3> HIDE DEF a, H, n
    <3> QED BY <1>1, <1>2, <1>4, <1>6
  <2> HIDE DEF buf, w, N, lo, n
  <2>3. DOMAIN w = 0 .. N - 1 /\ Holds(p, w, lo, n + 1)
    BY <1>2, <2>1, <2>2, ReadWindow
  <2> QED BY <2>3 DEF w, N
<1>10. IsMaster(q) /\ q.next_iMCU_row = r
  BY <1>7 DEF SameCoding
<1>11. CASE n + 1 # p.height
  <2>1. t = q
    BY <1>7, <1>11 DEF PadInputBuffer
  <2>2. RingsInv(p, t)
    BY <1>7, <1>9, <1>10, <2>1, LinedRings
  <2>3. n + 1 \in Nat /\ n + 1 >= 1 /\ n + 1 < p.height /\ n + 1 > n
        /\ r = IF n + 1 <= H THEN 0 ELSE k - 1
    <3> HIDE DEF n, H, k, r
    <3> QED BY <1>1, <1>2, <1>11
  <2>4. Fed(p, t)
    <3>1. (n + 1) - 1 = n
      <4> HIDE DEF n
      <4> QED BY <1>2
    <3>2. t.next_input_row = n + 1 /\ t.next_iMCU_row = r /\ p.mode # "raw" /\ p.mode # "coeffs"
      BY <1>7, <1>10, <2>1
    <3> HIDE DEF n, H, r
    <3> QED BY <2>3, <3>1, <3>2 DEF Fed, H, k
  <2>5. RowsInv(p, t) /\ t.bw = s.bw
    BY <1>7, <2>1, <2>2, SameRows
  <2> QED BY <1>7, <1>11, <2>1, <2>4, <2>5
<1>12. CASE n + 1 = p.height
  <2>1. /\ SameCoding(q, t) /\ t.next_input_row = z /\ DOMAIN t.input_buffer = Comps(p)
        /\ \A c \in Comps(p) :
             t.input_buffer[c] =
                [u \in DOMAIN q.input_buffer[c] |->
                   IF \E y \in p.height .. z - 1 : Slot(q.input_buffer[c], y) = u
                   THEN Row(q.input_buffer[c], p.height - 1)
                   ELSE q.input_buffer[c][u]]
    <3>1. q.next_input_row = p.height
      BY <1>7, <1>12
    <3> QED BY <1>1, <1>10, <3>1, PadInputBufferFields
  <2>2. k = T - 1 /\ z <= n + H
    <3> DEFINE x == k * H
               y == (T - 1) * H
    <3>1. x \in Nat /\ y \in Nat /\ x <= n /\ n < x + H /\ y <= n /\ n < z /\ z = y + H
      <4>1. z = (T - 1) * H + H /\ (T - 1) * H \in Nat
        <5> HIDE DEF T, H, z
        <5> QED BY <1>1
      <4> HIDE DEF n, z, H, k
      <4> QED BY <1>1, <1>2, <1>5, <1>12, <4>1
    <3>2. ~(k >= T)
      <4> SUFFICES ASSUME k >= T PROVE FALSE
        OBVIOUS
      <4>1. T * H <= k * H
        <5> HIDE DEF T, H, k
        <5> QED BY <1>1, <1>5, Multiples
      <4>2. z <= x
        BY <1>1, <4>1
      <4> HIDE DEF n, z, x
      <4> QED BY <1>1, <1>2, <3>1, <4>2
    <3>3. ~(k <= T - 2)
      <4> SUFFICES ASSUME k <= T - 2 PROVE FALSE
        OBVIOUS
      <4>1. (k + 1) * H <= (T - 1) * H
        <5> HIDE DEF T, H, k
        <5> QED BY <1>1, <1>5, Multiples
      <4>2. (k + 1) * H = k * H + H
        <5> HIDE DEF H, k
        <5> QED BY <1>1, <1>5
      <4>3. x + H <= y
        BY <4>1, <4>2
      <4> HIDE DEF n, y, x, H
      <4> QED BY <1>1, <1>2, <3>1, <4>3
    <3> HIDE DEF k, T, n, z, H, y, x
    <3> QED BY <1>1, <1>2, <1>5, <3>1, <3>2, <3>3
  <2>3. Lined(p, t, lo, z)
    <3> SUFFICES ASSUME NEW c \in Comps(p)
                 PROVE  /\ DOMAIN t.input_buffer[c] = 0 .. 3 * H - 1
                        /\ Holds(p, t.input_buffer[c], lo, z)
      BY <2>1 DEF Lined
    <3> DEFINE buf == q.input_buffer[c]
               w == t.input_buffer[c]
               N == 3 * H
               h == p.height
    <3>1. /\ DOMAIN buf = 0 .. N - 1 /\ Holds(p, buf, lo, h)
          /\ w = [u \in DOMAIN buf |-> IF \E y \in h .. z - 1 : Slot(buf, y) = u
                                       THEN Row(buf, h - 1) ELSE buf[u]]
      BY <1>9, <1>12, <2>1 DEF Lined
    <3>2. /\ N \in Nat \ {0} /\ lo \in Int /\ lo < h /\ z <= lo + N
          /\ h \in Nat /\ 1 <= h /\ h <= z
      <4> HIDE DEF a, H, n, z
      <4> QED BY <1>1, <1>2, <1>4, <1>6, <1>12, <2>2
    <3>3. p.mode # "raw" /\ z = EndRow(p) /\ z \in Nat /\ h = p.height
      BY <1>1
    <3>4. w = Padding(buf, h, z)
      BY <3>1 DEF Padding
    <3> HIDE DEF buf, w, N, lo, h, z
    <3>5. DOMAIN w = 0 .. N - 1 /\ Holds(p, w, lo, z)
      <4>1. PadReady(p, N, buf, lo, h, z)
        BY <3>1, <3>2, <3>3 DEF PadReady
      <4> QED BY <3>4, <4>1, PadWindow
    <3> QED BY <3>5 DEF w, N
  <2>4. t.next_iMCU_row = r /\ SameCoding(s, t)
    BY <1>7, <1>10, <2>1 DEF SameCoding, SameTokens
  <2>5. RingsInv(p, t)
    BY <2>1, <2>3, <2>4, LinedRings
  <2>6. RowsInv(p, t) /\ t.bw = s.bw
    BY <2>4, <2>5, SameRows
  <2>7. r = IF z <= H THEN 0 ELSE (z - 1) \div H - 1
    <3>1. CASE z <= H
      <4> HIDE DEF z, H, n, k, r
      <4> QED BY <1>1, <1>2, <1>12, <3>1
    <3>2. CASE z > H
      <4>1. z % H = 0 /\ z \div H = T
        <5> HIDE DEF H, T, z
        <5> QED BY <1>1, WholeRows
      <4>2. (z - 1) \div H = T - 1
        <5> HIDE DEF H, T, z
        <5> QED BY <1>1, <3>2, <4>1, RowNumbers
      <4>3. ~(n < H)
        <5> SUFFICES ASSUME n < H PROVE FALSE
          OBVIOUS
        <5>1. T = 1
          <6> HIDE DEF n, k, T, H
          <6> QED BY <1>1, <1>5, <2>2
        <5>2. z = H
          <6> HIDE DEF z, T, H
          <6> QED BY <1>1, <5>1
        <5> HIDE DEF z, H
        <5> QED BY <1>1, <3>2, <5>2
      <4>4. r = T - 2
        <5> HIDE DEF r, k, T, n, H
        <5> QED BY <1>1, <1>2, <2>2, <4>3
      <4> HIDE DEF r, T, z, H
      <4> QED BY <1>1, <3>2, <4>2, <4>4
    <3> HIDE DEF z, H, r
    <3> QED BY <1>1, <3>1, <3>2
  <2>8. z \in Nat /\ z >= 1 /\ z > n
    <3> HIDE DEF z, n
    <3> QED BY <1>1, <1>2
  <2>9. Fed(p, t)
    <3>1. t.next_input_row = z /\ t.next_iMCU_row = r /\ p.mode # "raw" /\ p.mode # "coeffs"
          /\ z = total_iMCU_rows(p) * iMCU_height(p)
      BY <2>1, <2>4 DEF EndRow
    <3> HIDE DEF z, r
    <3> QED BY <2>7, <2>8, <3>1 DEF Fed, H
  <2> QED BY <1>12, <2>1, <2>6, <2>9
<1> QED BY <1>11, <1>12

\* The rows of an iMCU row of raw data are the next ones of the image.
LEMMA FeedRows ==
  ASSUME NEW p \in Images, p.mode = "raw", NEW s, RowsInv(p, s), CountInv(p, s),
         s.next_input_row < p.height, NEW t, t = ReadRawRows(p, s)
  PROVE  /\ RowsInv(p, t) /\ Fed(p, t) /\ t.bw = s.bw
         /\ t.next_input_row = s.next_input_row + iMCU_height(p)
<1> DEFINE n == s.next_input_row
           r == s.next_iMCU_row
           H == iMCU_height(p)
           T == total_iMCU_rows(p)
           j == n \div H
<1>1. /\ H \in {8, 16, 24, 32} /\ T \in Nat \ {0} /\ p.height \in Nat \ {0}
      /\ p.height <= T * H /\ (T - 1) * H < p.height /\ T * H \in Nat
  <2>1. H = 8 * max_v_samp_factor(p) /\ max_v_samp_factor(p) \in 1 .. 4
    BY Heights, Sampling
  <2>2. H \in {8, 16, 24, 32}
    BY <2>1
  <2> QED BY <2>2, Heights, Sampling
<1>2. /\ n \in Nat /\ r \in Nat /\ n < p.height /\ n % H = 0
      /\ r = IF n < H THEN 0 ELSE j - 1
  BY DEF CountInv
<1>3. j \in Nat /\ n = j * H /\ (n < H <=> j = 0)
  <2> HIDE DEF n, H
  <2>1. CASE H = 8
    BY <1>2, <2>1
  <2>2. CASE H = 16
    BY <1>2, <2>2
  <2>3. CASE H = 24
    BY <1>2, <2>3
  <2>4. CASE H = 32
    BY <1>2, <2>4
  <2> QED BY <1>1, <2>1, <2>2, <2>3, <2>4
<1>4. r = (IF j = 0 THEN 0 ELSE j - 1) /\ j <= r + 1
  <2> HIDE DEF n, H, j, r
  <2> QED BY <1>1, <1>2, <1>3
<1>5. j + 1 <= T
  <2> HIDE DEF n, j, T, H
  <2> SUFFICES ASSUME T <= j PROVE FALSE
    BY <1>1, <1>3
  <2>1. T * H <= j * H
    BY <1>1, <1>3, Multiples
  <2> QED BY <1>1, <1>2, <1>3, <2>1
<1>6. IsMaster(s) /\ RingsInv(p, s)
  BY DEF RowsInv
<1>7. /\ SameCoding(s, t) /\ t.next_input_row = n + H /\ DOMAIN t.input_buffer = Comps(p)
      /\ \A c \in Comps(p) :
           LET x == j * (DCTSIZE * p.v[c])
           IN  t.input_buffer[c] = Filling(s.input_buffer[c], x, DCTSIZE * p.v[c])
  BY <1>6, ReadRawRowsFields DEF Filling
<1>8. t.next_input_row = (j + 1) * H /\ t.next_iMCU_row = r
  <2>1. (j + 1) * H = j * H + H
    <3> HIDE DEF j, H
    <3> QED BY <1>1, <1>3
  <2>2. j * H + H = n + H
    <3> HIDE DEF j, n
    <3> QED BY <1>3
  <2> QED BY <1>7, <2>1, <2>2 DEF SameCoding
<1>9. ASSUME NEW c \in Comps(p)
      PROVE  /\ DOMAIN t.input_buffer[c] = 0 .. 3 * Unit(p, c) - 1
             /\ Holds(p, t.input_buffer[c], r * Unit(p, c) - Above(p), (j + 1) * Unit(p, c))
  <2> DEFINE U == Unit(p, c)
             buf == s.input_buffer[c]
             w == t.input_buffer[c]
             a == r * U
             x == j * U
             y == (j + 1) * U
             z == EndRow(p)
             lo == a - Above(p)
  <2>1. U \in 8 .. 32 /\ T * U <= z /\ U = DCTSIZE * p.v[c] /\ z \in Nat
    BY Units, WantIs
  <2>2. w = Filling(buf, x, U)
    BY <1>7, <2>1
  <2>3. DOMAIN buf = 0 .. 3 * U - 1 /\ Holds(p, buf, lo, x)
    <3>1. p.mode # "coeffs" /\ s.next_input_row = j * iMCU_height(p)
      BY <1>3
    <3> HIDE DEF j
    <3> QED BY <1>3, <1>6, <3>1, WindowOf
  <2>4. a \in Nat /\ x \in Nat /\ y = x + U /\ x <= a + U /\ y <= z
    <3>1. r \in Nat /\ j \in Nat /\ U \in Nat
      BY <1>2, <1>3, <2>1
    <3> HIDE DEF r, j, U, T, z
    <3>2. a \in Nat /\ x \in Nat /\ y = x + U
      BY <3>1
    <3>3. j * U <= (r + 1) * U
      BY <1>4, <3>1, Multiples
    <3>4. (r + 1) * U = a + U
      BY <3>1
    <3>5. (j + 1) * U <= T * U
      BY <1>1, <1>3, <1>5, <2>1, Multiples
    <3>6. T * U \in Nat
      BY <1>1, <2>1
    <3> HIDE DEF y
    <3> QED BY <2>1, <3>2, <3>3, <3>4, <3>5, <3>6 DEF y
  <2>5. FillReady(p, 3 * U, buf, lo, x, U)
    <3>1. Above(p) \in {0, 1}
      BY DEF Above
    <3>2. lo \in Int /\ x + U <= lo + 3 * U /\ 3 * U \in Nat \ {0} /\ U <= 3 * U /\ U \in Nat
      <4> HIDE DEF a, x, U
      <4> QED BY <2>1, <2>4, <3>1
    <3> HIDE DEF a, x, U, lo, z, y, buf
    <3> QED BY <2>3, <2>4, <3>2 DEF FillReady, z
  <2>6. DOMAIN w = 0 .. 3 * U - 1 /\ Holds(p, w, lo, x + U)
    <3> HIDE DEF w, U, lo, x, buf
    <3> QED BY <2>2, <2>5, RawWindow
  <2> QED BY <2>4, <2>6
<1>10. RingsInv(p, t)
  <2>1. j + 1 \in Nat
    BY <1>3
  <2> DEFINE k == j + 1
  <2> HIDE DEF k
  <2>2. k \in Nat /\ t.next_input_row = k * iMCU_height(p)
    BY <1>8, <2>1 DEF k
  <2>3. \A c \in Comps(p) :
          /\ DOMAIN t.input_buffer[c] = 0 .. 3 * Unit(p, c) - 1
          /\ Holds(p, t.input_buffer[c], t.next_iMCU_row * Unit(p, c) - Above(p), k * Unit(p, c))
    BY <1>8, <1>9 DEF k
  <2> QED BY <1>7, <2>2, <2>3, RingsOf
<1>11. Fed(p, t)
  <2> DEFINE e == (j + 1) * H
  <2>1. e \in Nat /\ e >= 1 /\ e = n + H
    <3> HIDE DEF n, H
    <3>1. e = n + H
      BY <1>7, <1>8
    <3> QED BY <1>1, <1>2, <3>1
  <2>2. e % H = 0 /\ e \div H = j + 1
    <3> HIDE DEF j, H
    <3> QED BY <1>1, <1>3, WholeRows
  <2>3. (e - 1) \div H = j
    <3> HIDE DEF e, H, j
    <3> QED BY <1>1, <1>3, <2>1, <2>2, RowNumbers
  <2>4. e <= H <=> j = 0
    <3> HIDE DEF e, H, j, n
    <3> QED BY <1>1, <1>2, <1>3, <2>1
  <2>5. r = IF e <= H THEN 0 ELSE (e - 1) \div H - 1
    <3> HIDE DEF r, j, e, H
    <3> QED BY <1>4, <2>3, <2>4
  <2>6. e < p.height \/ e = T * H
    <3>1. CASE j + 1 = T
      BY <3>1
    <3>2. CASE j + 1 # T
      <4>1. (j + 1) * H <= (T - 1) * H
        <5> HIDE DEF j, H, T
        <5> QED BY <1>1, <1>3, <1>5, <3>2, Multiples
      <4>2. (T - 1) * H \in Int
        <5> HIDE DEF H, T
        <5> QED BY <1>1
      <4> HIDE DEF e
      <4> QED BY <1>1, <2>1, <4>1, <4>2 DEF e
    <3> QED BY <3>1, <3>2
  <2>7. t.next_input_row = e /\ t.next_iMCU_row = r /\ p.mode # "coeffs"
    BY <1>8
  <2> HIDE DEF e, r
  <2> QED BY <2>1, <2>2, <2>5, <2>6, <2>7 DEF Fed
<1>12. RowsInv(p, t) /\ t.bw = s.bw
  BY <1>7, <1>10, SameRows
<1> QED BY <1>7, <1>11, <1>12

-----------------------------------------------------------------------------
(* The steps.                                                              *)

Inv ==
  /\ img \in Images /\ MasterInv(img, m) /\ LinesInv
  /\ DOMAIN call = {"pc", "line", "left"}

\* Only the bits that are pending, or what the properties of the rows do not see.
SameMaster(s, t) ==
  /\ SameTokens(s, t)
  /\ t.next_iMCU_row = s.next_iMCU_row /\ t.next_input_row = s.next_input_row
  /\ t.right = s.right /\ t.bw \in {<<>>, s.bw}
  /\ t.pre_erosion = s.pre_erosion /\ t.input_buffer = s.input_buffer
  /\ t.use_adaptive_quantization = s.use_adaptive_quantization

LEMMA MasterKept ==
  ASSUME NEW p, NEW s, NEW t, MasterInv(p, s), IsMaster(t), SameMaster(s, t)
  PROVE  MasterInv(p, t)
<1>1. CountInv(p, t)
  BY DEF MasterInv, CountInv, SameMaster
<1>2. BitsInv(t)
  BY DEF MasterInv, BitsInv, SameMaster
<1>3. RingsInv(p, t)
  BY DEF MasterInv, RowsInv, RingsInv, RowsIn, SameMaster
<1>4. ErosionInv(p, t)
  BY DEF MasterInv, RowsInv, ErosionInv, SameMaster
<1>5. TokensInv(p, t)
  BY DEF MasterInv, RowsInv, TokensInv, SameMaster, SameTokens
<1> QED BY <1>1, <1>2, <1>3, <1>4, <1>5 DEF MasterInv, RowsInv, SameMaster

LEMMA Emptied ==
  ASSUME NEW p, NEW s, NEW ok \in BOOLEAN, MasterInv(p, s), EmptyBitWriterBuffer(s, ok)
  PROVE  /\ MasterInv(p, m') /\ m'.next_input_row = s.next_input_row
         /\ m'.bw = (IF ok THEN <<>> ELSE s.bw)
         /\ failed' \in BOOLEAN /\ (ok => ~failed')
<1>1. IsMaster(s)
  BY DEF MasterInv, RowsInv
<1>2. \E x : m' = IF ok THEN [s EXCEPT !.bw = <<>>, !.output_pos = 0]
                 ELSE [s EXCEPT !.output_pos = x]
  BY DEF EmptyBitWriterBuffer
<1>3. failed' = (~ok /\ dest.kind = "stdio")
  BY DEF EmptyBitWriterBuffer
<1>4. IsMaster(m') /\ SameMaster(s, m') /\ m'.bw = (IF ok THEN <<>> ELSE s.bw)
  BY <1>1, <1>2 DEF IsMaster, SameMaster, SameTokens
<1>5. MasterInv(p, m')
  BY <1>4, MasterKept
<1> QED BY <1>3, <1>4, <1>5 DEF SameMaster

\* The state that AllocateBuffers makes.
NewMaster(p, aq, start, t) ==
  /\ IsMaster(t) /\ t.right = TRUE /\ t.bw = <<>>
  /\ t.next_iMCU_row = 0 /\ t.next_input_row = start
  /\ t.use_adaptive_quantization = aq
  /\ t.input_buffer = [c \in Comps(p) |-> InputRing(p, c)]
  /\ t.pre_erosion = NewRing(6 * max_v_samp_factor(p))
  /\ t.cur_token_array = 0 /\ t.allocated = FALSE /\ t.num_tokens = 0
  /\ t.ta_num_tokens = 0 /\ t.total_num_tokens = 0

LEMMA Allocated ==
  ASSUME NEW p \in Images, NEW aq, NEW start, NEW t, NewMaster(p, aq, start, t),
         aq => p.v[p.ychan] = max_v_samp_factor(p) /\ p.h[p.ychan] = max_h_samp_factor(p),
         start = 0 \/ (p.mode = "coeffs" /\ start = p.height)
  PROVE  MasterInv(p, t) /\ t.bw = <<>> /\ t.next_input_row = start
<1>1. /\ IsMaster(t) /\ t.right = TRUE /\ t.bw = <<>>
      /\ t.next_iMCU_row = 0 /\ t.next_input_row = start
      /\ t.use_adaptive_quantization = aq
      /\ t.input_buffer = [c \in Comps(p) |-> InputRing(p, c)]
      /\ t.pre_erosion = NewRing(6 * max_v_samp_factor(p))
      /\ t.cur_token_array = 0 /\ t.allocated = FALSE /\ t.num_tokens = 0
      /\ t.ta_num_tokens = 0 /\ t.total_num_tokens = 0
  BY DEF NewMaster
<1>2. /\ p.height \in Nat \ {0} /\ iMCU_height(p) \in 8 .. 32
      /\ max_v_samp_factor(p) \in 1 .. 4 /\ \A c \in Comps(p) : p.v[c] \in 1 .. 4
  BY Sampling, Heights
<1>3. \A c \in Comps(p) : DOMAIN InputRing(p, c) = 0 .. 3 * Unit(p, c) - 1
  BY <1>2 DEF InputRing, NewRing, Unit, DCTSIZE
<1>4. ASSUME p.mode # "coeffs", NEW c \in Comps(p) PROVE RowsIn(p, t, c) = 0
  <2>1. t.next_input_row = 0 /\ 0 \div iMCU_height(p) = 0 /\ Unit(p, c) \in Nat
    <3>1. Unit(p, c) \in 8 .. 32
      BY Units
    <3>2. 0 \div iMCU_height(p) = 0
      BY <1>2
    <3> QED BY <1>1, <1>4, <3>1, <3>2
  <2> QED BY <2>1 DEF RowsIn
<1>5. RingsInv(p, t)
  BY <1>1, <1>3, <1>4 DEF RingsInv
<1>6. ErosionInv(p, t)
  BY <1>1 DEF ErosionInv, NewRing
<1>7. TokensInv(p, t)
  <2>1. /\ t.ta_num_tokens \in Nat /\ t.num_tokens \in Nat /\ t.total_num_tokens \in Nat
        /\ t.cur_token_array \in Nat /\ t.ta_num_tokens <= t.num_tokens
    BY <1>1
  <2>2. t.allocated \in BOOLEAN /\ ~t.allocated
    BY <1>1
  <2> QED BY <1>1, <2>1, <2>2, Zenon DEF TokensInv
<1>8. CountInv(p, t)
  <2>1. 0 % iMCU_height(p) = 0
    BY <1>2
  <2> QED BY <1>1, <1>2, <2>1 DEF CountInv
<1>9. BitsInv(t)
  BY <1>1 DEF BitsInv
<1> QED BY <1>1, <1>5, <1>6, <1>7, <1>8, <1>9 DEF MasterInv, RowsInv

LEMMA IdleIs ==
  Idle.pc = "idle" /\ DOMAIN Idle = {"pc", "line", "left"}
BY DEF Idle

LEMMA Begins == Init => Inv
<1> SUFFICES ASSUME Init PROVE Inv
  OBVIOUS
<1>1. img \in Images
  BY ImagesAssumption DEF Init, AnImage
<1>2. NewMaster(img, FALSE, 0, m)
  <2>1. m = AllocateBuffers(img, FALSE)
    BY DEF Init
  <2> QED BY <2>1 DEF AllocateBuffers, NewMaster, IsMaster
<1>3. MasterInv(img, m) /\ m.bw = <<>> /\ m.next_input_row = 0
  <2> DEFINE aq == FALSE
             start == 0
  <2>1. ~aq /\ start = 0 /\ NewMaster(img, aq, start, m)
    BY <1>2
  <2> HIDE DEF aq, start
  <2> QED BY <1>1, <2>1, Allocated
<1>4. next_scanline = 0 /\ call = Idle /\ global_state = "kEncStart"
  BY DEF Init
<1>5. img.height \in Nat
  BY <1>1, Sampling
<1>6. LinesInv
  BY <1>3, <1>4, <1>5, IdleIs DEF LinesInv
<1> QED BY <1>1, <1>3, <1>4, <1>6, IdleIs DEF Inv

\* Steps outside the loops: no call is under way after them.
Headed(g) == g \in {"kEncHeader", "kEncReadImage"}

LEMMA OutsideCalls ==
  ASSUME Inv, img' = img, MasterInv(img, m'), m'.bw \in {<<>>, m.bw},
         m'.next_input_row = m.next_input_row, next_scanline' = next_scanline, call' = Idle,
         Headed(global_state') => Headed(global_state)
  PROVE  Inv'
<1>1. LinesInv'
  BY IdleIs DEF Inv, LinesInv, Headed
<1> QED BY <1>1, IdleIs DEF Inv

LEMMA SetDestStep ==
  ASSUME Inv, NEW d, NEW var, SetDest(d, var)
  PROVE  Inv'
BY OutsideCalls DEF SetDest, Ready, Inv

LEMMA SetQualityStep ==
  ASSUME Inv, NEW two_chroma, SetQuality(two_chroma)
  PROVE  Inv'
BY OutsideCalls DEF SetQuality, Ready, Inv

LEMMA StartCompressStep ==
  ASSUME Inv, NEW p \in Images, StartCompress(p)
  PROVE  Inv'
<1> DEFINE aq == use_adaptive_quantization(p, tables)
           start == IF p.mode = "coeffs" THEN p.height ELSE 0
<1>1. /\ img' = p /\ next_scanline' = start /\ call' = call /\ call = Idle
      /\ global_state' = IF p.mode = "coeffs" THEN "kEncWriteCoeffs" ELSE "kEncHeader"
  BY DEF StartCompress, Ready
<1>2. \E used : m' = [AllocateBuffers(p, aq) EXCEPT !.used = used, !.next_input_row = start]
  BY DEF StartCompress
<1>3. aq => p.v[p.ychan] = max_v_samp_factor(p) /\ p.h[p.ychan] = max_h_samp_factor(p)
  BY DEF use_adaptive_quantization
<1>4. start = 0 \/ (p.mode = "coeffs" /\ start = p.height)
  OBVIOUS
<1>5. start \in Nat /\ start <= p.height
  BY Sampling
<1> HIDE DEF aq, start
<1>6. MasterInv(p, m') /\ m'.bw = <<>> /\ m'.next_input_row = start
  <2>1. NewMaster(p, aq, start, m')
    BY <1>2 DEF AllocateBuffers, NewMaster, IsMaster
  <2> QED BY <1>3, <1>4, <2>1, Allocated
<1>7. LinesInv'
  BY <1>1, <1>5, <1>6, IdleIs DEF LinesInv
<1> QED BY <1>1, <1>6, <1>7, IdleIs DEF Inv

LEMMA WriteTablesStep ==
  ASSUME Inv, WriteTables
  PROVE  Inv'
BY OutsideCalls DEF WriteTables, Ready, Inv

LEMMA WriteMarkerStep ==
  ASSUME Inv, WriteMarker
  PROVE  Inv'
<1>1. IsMaster(m)
  BY DEF Inv, MasterInv, RowsInv
<1>2. /\ img' = img /\ next_scanline' = next_scanline /\ call' = Idle
      /\ global_state' = global_state /\ m' = [m EXCEPT !.markers = @ + 1]
  BY DEF WriteMarker, Ready
<1>3. IsMaster(m') /\ SameMaster(m, m')
  BY <1>1, <1>2 DEF IsMaster, SameMaster, SameTokens
<1>4. MasterInv(img, m')
  BY <1>3, MasterKept DEF Inv
<1> QED BY <1>2, <1>3, <1>4, OutsideCalls DEF SameMaster

LEMMA FinishCompressStep ==
  ASSUME Inv, FinishCompress
  PROVE  Inv'
<1>1. IsMaster(m)
  BY DEF Inv, MasterInv, RowsInv
<1>2. img' = img /\ next_scanline' = next_scanline /\ call' = Idle
  BY DEF FinishCompress, Ready
<1>3. global_state' \in {global_state, "kEncStart"} /\ \E x : m' \in {m, [m EXCEPT !.used = x]}
  <2>1. CASE next_scanline < img.height /\ UNCHANGED <<global_state, m>>
    BY <2>1
  <2>2. CASE ~(next_scanline < img.height /\ UNCHANGED <<global_state, m>>)
    BY <2>2 DEF FinishCompress
  <2> QED BY <2>1, <2>2
<1>4. IsMaster(m') /\ SameMaster(m, m')
  BY <1>1, <1>3 DEF IsMaster, SameMaster, SameTokens
<1>5. MasterInv(img, m')
  BY <1>4, MasterKept DEF Inv
<1>6. Headed(global_state') => Headed(global_state)
  BY <1>3 DEF Headed
<1> QED BY <1>2, <1>4, <1>5, <1>6, OutsideCalls DEF SameMaster

LEMMA AbortCompressStep ==
  ASSUME Inv, AbortCompress
  PROVE  Inv'
BY OutsideCalls DEF AbortCompress, Headed, Inv

LEMMA BeginWriteStep ==
  ASSUME Inv, NEW n \in LineCounts, BeginWrite(n)
  PROVE  Inv'
<1>1. /\ Headed(global_state) /\ global_state' = "kEncReadImage" /\ img' = img /\ m' = m
      /\ next_scanline' = next_scanline
  BY DEF BeginWrite, Ready, Headed
<1>2. PICK ok \in BOOLEAN :
        /\ failed' = ~ok
        /\ call' = IF ~ok THEN Idle
                   ELSE [pc |-> IF img.mode = "raw" THEN "raw" ELSE "lag",
                         line |-> next_scanline,
                         left |-> IF img.mode = "raw" THEN n ELSE Lines(n)]
  BY DEF BeginWrite, WriteOutput
<1>3. CASE call' = Idle
  BY <1>1, <1>3, OutsideCalls DEF Inv
<1>4. CASE call' # Idle
  <2>1. ok /\ ~failed'
    BY <1>2, <1>4
  <2>2. /\ DOMAIN call' = {"pc", "line", "left"}
        /\ call'.pc = IF img.mode = "raw" THEN "raw" ELSE "lag"
        /\ call'.line = next_scanline /\ call'.left = IF img.mode = "raw" THEN n ELSE Lines(n)
    BY <1>2, <2>1
  <2>3. img.mode \in {"pixels", "raw"} /\ img.height \in Nat /\ n \in Nat
    <3>1. img \in Images /\ img.mode # "coeffs"
      BY <1>1 DEF Inv, LinesInv, Headed
    <3>2. img \in Image
      BY <3>1, ImagesAssumption
    <3> QED BY <3>1, <3>2, CountsAssumption DEF Image
  <2>4. img.mode # "raw" => Lines(n) \in Nat /\ next_scanline + Lines(n) <= img.height
    BY <2>3 DEF Inv, LinesInv, Lines
  <2>5. LinesInv'
    BY <1>1, <2>1, <2>2, <2>3, <2>4 DEF Inv, LinesInv
  <2> QED BY <1>1, <2>2, <2>5 DEF Inv
<1> QED BY <1>3, <1>4

LEMMA CatchUpStep ==
  ASSUME Inv, CatchUp
  PROVE  Inv'
<1> DEFINE n == m.next_input_row
           lag == input_lag
<1>1. /\ call.pc = "lag" /\ ~failed /\ call # Idle /\ global_state = "kEncReadImage"
      /\ img.mode = "pixels" /\ call.line = next_scanline /\ call.left \in Nat
      /\ next_scanline + call.left <= img.height
      /\ next_scanline \in Nat /\ next_scanline <= n /\ next_scanline <= img.height
      /\ (m.bw # <<>> => next_scanline < n /\ next_scanline < img.height)
  BY IdleIs DEF CatchUp, Inv, LinesInv
<1>2. global_state' = global_state /\ img' = img
  BY DEF CatchUp
<1>3. n \in Nat /\ img.height \in Nat /\ MasterInv(img, m) /\ img \in Images
  BY Sampling DEF Inv, MasterInv, CountInv
<1>4. /\ lag \in Nat
      /\ (next_scanline + lag = n /\ n <= img.height)
           \/ (next_scanline + lag = img.height /\ img.height <= n)
  <2>1. Min({img.height, n}) = IF img.height <= n THEN img.height ELSE n
    BY <1>3, MinOfTwo
  <2> QED BY <1>1, <1>3, <2>1 DEF input_lag
<1>5. CASE lag > call.left
  <2>1. call' = Idle /\ next_scanline' = next_scanline /\ m' = m
    BY <1>1, <1>4, <1>5 DEF CatchUp
  <2> QED BY <1>2, <1>3, <2>1, OutsideCalls
<1>6. CASE lag = 0
  <2>1. next_scanline' = next_scanline /\ m' = m /\ failed' = failed
    BY <1>1, <1>6 DEF CatchUp
  <2>2. call' = IF call.left = 0 THEN Idle ELSE [call EXCEPT !.pc = "loop"]
    BY <1>1, <1>6 DEF CatchUp
  <2>3. CASE call.left = 0
    BY <1>2, <1>3, <2>1, <2>2, <2>3, OutsideCalls
  <2>4. CASE call.left # 0
    <3>1. /\ DOMAIN call' = {"pc", "line", "left"} /\ call'.pc = "loop"
          /\ call'.line = call.line /\ call'.left = call.left
      BY <2>2, <2>4 DEF Inv
    <3>2. call.left >= 1 /\ next_scanline = n /\ n + call.left <= img.height /\ m.bw = <<>>
      <4> HIDE DEF lag, n
      <4> QED BY <1>1, <1>3, <1>4, <1>6, <2>4
    <3>3. LinesInv'
      BY <1>1, <1>2, <2>1, <3>1, <3>2 DEF LinesInv
    <3> QED BY <1>2, <1>3, <2>1, <3>1, <3>3 DEF Inv
  <2> QED BY <2>3, <2>4
<1>7. CASE lag \in 1 .. call.left
  <2>1. PICK ok \in BOOLEAN :
          /\ EmptyBitWriterBuffer(m, ok)
          /\ next_scanline' = IF ok THEN next_scanline + lag ELSE next_scanline
          /\ call' = IF ~ok \/ lag = call.left THEN Idle
                     ELSE [pc |-> "loop", line |-> call.line + lag, left |-> call.left - lag]
    BY <1>1, <1>7 DEF CatchUp, LagCounted
  <2>2. /\ MasterInv(img, m') /\ m'.next_input_row = n
        /\ m'.bw = (IF ok THEN <<>> ELSE m.bw)
        /\ failed' \in BOOLEAN /\ (ok => ~failed')
    BY <1>3, <2>1, Emptied
  <2>3. CASE ~ok
    BY <1>2, <2>1, <2>2, <2>3, OutsideCalls
  <2>4. CASE ok /\ lag = call.left
    <3>1. call' = Idle /\ next_scanline' = next_scanline + lag /\ m'.bw = <<>>
      BY <2>1, <2>2, <2>4
    <3>2. /\ next_scanline + lag \in Nat /\ next_scanline + lag <= n
          /\ next_scanline + lag <= img.height
      <4> HIDE DEF lag, n
      <4> QED BY <1>1, <1>3, <1>4
    <3>3. LinesInv'
      <4> HIDE DEF lag
      <4> QED BY <1>1, <1>2, <2>2, <3>1, <3>2, IdleIs DEF LinesInv
    <3> QED BY <1>2, <1>3, <2>2, <3>1, <3>3, IdleIs DEF Inv
  <2>5. CASE ok /\ lag # call.left
    <3>1. /\ next_scanline' = next_scanline + lag /\ m'.bw = <<>> /\ failed' = FALSE
          /\ DOMAIN call' = {"pc", "line", "left"} /\ call'.pc = "loop"
          /\ call'.line = next_scanline + lag /\ call'.left = call.left - lag
      BY <1>1, <2>1, <2>2, <2>5
    <3>2. /\ next_scanline + lag = n /\ call.left - lag \in Nat /\ call.left - lag >= 1
          /\ n + (call.left - lag) <= img.height
      <4> HIDE DEF lag, n
      <4> QED BY <1>1, <1>3, <1>4, <1>7, <2>5
    <3>3. LinesInv'
      <4> HIDE DEF lag
      <4> QED BY <1>1, <1>2, <1>3, <2>2, <3>1, <3>2 DEF LinesInv
    <3> QED BY <1>2, <1>3, <2>2, <3>1, <3>3 DEF Inv
  <2> QED BY <2>3, <2>4, <2>5
<1> QED BY <1>1, <1>4, <1>5, <1>6, <1>7

LEMMA DensityIs ==
  ASSUME NEW density \in TokensPerBlock
  PROVE  density \in 2 .. 64
BY CountsAssumption DEF TokensPerBlock

LEMMA WriteLineStep ==
  ASSUME Inv, WriteLine
  PROVE  Inv'
<1> DEFINE n == m.next_input_row
<1>1. /\ call.pc = "loop" /\ ~failed /\ call # Idle /\ global_state = "kEncReadImage"
      /\ img.mode = "pixels" /\ m.bw = <<>> /\ call.left \in Nat /\ call.left >= 1
      /\ call.line = n /\ next_scanline = n /\ n + call.left <= img.height
  BY IdleIs DEF WriteLine, Inv, LinesInv
<1>2. global_state' = global_state /\ img' = img
  BY DEF WriteLine
<1>3. /\ n \in Nat /\ img.height \in Nat /\ MasterInv(img, m) /\ img \in Images
      /\ EndRow(img) \in Nat /\ img.height <= EndRow(img)
  BY Sampling, WantIs DEF Inv, MasterInv, CountInv
<1>4. PICK density \in TokensPerBlock, ok \in BOOLEAN :
        LET read == PadInputBuffer(img, ReadInputRow(img, m, n))
        IN  /\ EmptyBitWriterBuffer(ProcessiMCURows(img, read, density), ok)
            /\ next_scanline' = IF ok THEN next_scanline + 1 ELSE next_scanline
            /\ call' = IF ~ok \/ call.left = 1 THEN Idle
                       ELSE [call EXCEPT !.line = @ + 1, !.left = @ - 1]
  BY <1>1 DEF WriteLine
<1> DEFINE q == ReadInputRow(img, m, n)
           read == PadInputBuffer(img, q)
           s == ProcessiMCURows(img, read, density)
<1>5. density \in 2 .. 64
  BY DensityIs
<1>6. n < img.height
  <2> HIDE DEF n
  <2> QED BY <1>1, <1>3
<1>7. /\ RowsInv(img, read) /\ Fed(img, read) /\ read.bw = <<>>
      /\ read.next_input_row = IF n + 1 = img.height THEN EndRow(img) ELSE n + 1
  <2>1. RowsInv(img, m) /\ CountInv(img, m)
    BY <1>3 DEF MasterInv
  <2> QED BY <1>1, <1>3, <1>6, <2>1, FeedLine
<1> HIDE DEF q, read
<1>8. MasterInv(img, s) /\ s.next_input_row = read.next_input_row
  <2>1. img \in Images /\ Fed(img, read) /\ RowsInv(img, read) /\ read.bw = <<>>
    BY <1>3, <1>7
  <2>2. CodedRows(img, read, s)
    BY <1>5, <2>1, CodeRows
  <2> QED BY <2>2 DEF CodedRows
<1> HIDE DEF s
<1>9. /\ MasterInv(img, m') /\ m'.next_input_row = read.next_input_row
      /\ m'.bw = (IF ok THEN <<>> ELSE s.bw)
      /\ failed' \in BOOLEAN /\ (ok => ~failed')
  <2>1. EmptyBitWriterBuffer(s, ok)
    BY <1>4 DEF s, read, q
  <2> QED BY <1>8, <2>1, Emptied
<1>10. m'.next_input_row \in Nat /\ m'.next_input_row >= n + 1
  <2> HIDE DEF n
  <2> QED BY <1>3, <1>7, <1>9
<1>11. CASE ~ok
  <2>1. call' = Idle /\ next_scanline' = next_scanline
    BY <1>4, <1>11
  <2>2. LinesInv'
    <3> HIDE DEF n
    <3> QED BY <1>1, <1>2, <1>3, <1>6, <1>9, <1>10, <2>1, IdleIs DEF LinesInv
  <2> QED BY <1>2, <1>3, <1>9, <2>1, <2>2, IdleIs DEF Inv
<1>12. CASE ok /\ call.left = 1
  <2>1. call' = Idle /\ next_scanline' = n + 1 /\ m'.bw = <<>>
    BY <1>1, <1>4, <1>9, <1>12
  <2>2. LinesInv'
    <3> HIDE DEF n
    <3> QED BY <1>1, <1>2, <1>3, <1>6, <1>10, <2>1, IdleIs DEF LinesInv
  <2> QED BY <1>2, <1>3, <1>9, <2>1, <2>2, IdleIs DEF Inv
<1>13. CASE ok /\ call.left # 1
  <2>1. /\ next_scanline' = n + 1 /\ m'.bw = <<>> /\ failed' = FALSE
        /\ DOMAIN call' = {"pc", "line", "left"} /\ call'.pc = "loop"
        /\ call'.line = n + 1 /\ call'.left = call.left - 1
    BY <1>1, <1>4, <1>9, <1>13 DEF Inv
  <2>2. /\ m'.next_input_row = n + 1 /\ call.left - 1 \in Nat /\ call.left - 1 >= 1
        /\ n + 1 + (call.left - 1) <= img.height
    <3> HIDE DEF n
    <3> QED BY <1>1, <1>3, <1>7, <1>9, <1>13
  <2>3. LinesInv'
    <3> HIDE DEF n
    <3> QED BY <1>1, <1>2, <1>3, <1>6, <2>1, <2>2 DEF LinesInv
  <2> QED BY <1>2, <1>3, <1>9, <2>1, <2>3 DEF Inv
<1> QED BY <1>11, <1>12, <1>13

LEMMA WriteRawRowsStep ==
  ASSUME Inv, WriteRawRows
  PROVE  Inv'
<1> DEFINE n == m.next_input_row
           H == iMCU_height(img)
<1>1. /\ img.mode = "raw" /\ next_scanline \in Nat /\ next_scanline <= n
      /\ (m.bw # <<>> => next_scanline < n /\ next_scanline < img.height)
      /\ global_state = "kEncReadImage"
  BY IdleIs DEF WriteRawRows, Inv, LinesInv
<1>2. global_state' = global_state /\ img' = img /\ call' = Idle
  BY DEF WriteRawRows
<1>3. /\ n \in Nat /\ img.height \in Nat /\ MasterInv(img, m) /\ img \in Images
      /\ H \in 8 .. 32
  BY Sampling, Heights DEF Inv, MasterInv, CountInv
<1>4. CASE next_scanline' = next_scanline /\ m' = m
  BY <1>2, <1>3, <1>4, OutsideCalls
<1>5. CASE ~(next_scanline' = next_scanline /\ m' = m)
  <2>1. /\ next_scanline < img.height
        /\ \E density \in TokensPerBlock, ok \in BOOLEAN :
             /\ EmptyBitWriterBuffer(
                  IF next_scanline < n THEN m
                  ELSE ProcessiMCURows(img, ReadRawRows(img, m), density), ok)
             /\ next_scanline' = IF ~ok THEN next_scanline
                                ELSE IF next_scanline < n THEN n ELSE next_scanline + H
    BY <1>5 DEF WriteRawRows
  <2>2. PICK density \in TokensPerBlock, ok \in BOOLEAN :
             /\ EmptyBitWriterBuffer(
                  IF next_scanline < n THEN m
                  ELSE ProcessiMCURows(img, ReadRawRows(img, m), density), ok)
             /\ next_scanline' = IF ~ok THEN next_scanline
                                ELSE IF next_scanline < n THEN n ELSE next_scanline + H
    BY <2>1
  <2> DEFINE read == ReadRawRows(img, m)
             s == IF next_scanline < n THEN m ELSE ProcessiMCURows(img, read, density)
             e == IF next_scanline < n THEN n ELSE n + H
  <2>3. MasterInv(img, s) /\ s.next_input_row = e
    <3>1. CASE next_scanline < n
      BY <1>3, <3>1
    <3>2. CASE ~(next_scanline < n)
      <4>1. next_scanline = n /\ n < img.height /\ m.bw = <<>>
        <5> HIDE DEF n
        <5> QED BY <1>1, <1>3, <2>1, <3>2
      <4>2. RowsInv(img, m) /\ CountInv(img, m) /\ density \in 2 .. 64
        BY <1>3, DensityIs DEF MasterInv
      <4>3. RowsInv(img, read) /\ Fed(img, read) /\ read.bw = <<>>
            /\ read.next_input_row = n + H
        BY <1>1, <1>3, <4>1, <4>2, FeedRows
      <4> DEFINE w == ProcessiMCURows(img, read, density)
      <4> HIDE DEF read
      <4>4. MasterInv(img, w) /\ w.next_input_row = n + H
        <5>1. CodedRows(img, read, w)
          BY <1>3, <4>2, <4>3, CodeRows
        <5> QED BY <4>3, <5>1 DEF CodedRows
      <4>5. s = w /\ e = n + H
        BY <3>2
      <4> HIDE DEF s, w, e
      <4> QED BY <4>4, <4>5
    <3> QED BY <3>1, <3>2
  <2>4. EmptyBitWriterBuffer(s, ok)
    BY <2>2
  <2> HIDE DEF s, read
  <2>5. /\ MasterInv(img, m') /\ m'.next_input_row = e
        /\ m'.bw = (IF ok THEN <<>> ELSE s.bw)
    BY <2>3, <2>4, Emptied
  <2>6. e \in Nat /\ next_scanline < e
    <3> HIDE DEF n, H
    <3> QED BY <1>1, <1>3
  <2>7. next_scanline' \in Nat /\ next_scanline' <= e
        /\ (ok \/ next_scanline' = next_scanline)
    <3> HIDE DEF n, H
    <3> QED BY <1>1, <1>3, <2>2
  <2>8. LinesInv'
    <3> HIDE DEF e
    <3> QED BY <1>1, <1>2, <2>1, <2>5, <2>6, <2>7, IdleIs DEF LinesInv
  <2> QED BY <1>2, <1>3, <2>5, <2>8, IdleIs DEF Inv
<1> QED BY <1>4, <1>5

LEMMA Step == Inv /\ [Next]_vars => Inv'
<1> SUFFICES ASSUME Inv, [Next]_vars PROVE Inv'
  OBVIOUS
<1>1. ASSUME NEW d \in Dests, NEW var \in MemVars, SetDest(d, var) PROVE Inv'
  BY <1>1, SetDestStep
<1>2. ASSUME NEW two_chroma \in BOOLEAN, SetQuality(two_chroma) PROVE Inv'
  BY <1>2, SetQualityStep
<1>3. ASSUME NEW p \in IF budget.images = MaxImages THEN Images ELSE LaterImages, StartCompress(p)
      PROVE  Inv'
  <2>1. p \in Images
    BY <1>3, ImagesAssumption
  <2> QED BY <1>3, <2>1, StartCompressStep
<1>4. CASE WriteTables
  BY <1>4, WriteTablesStep
<1>5. CASE WriteMarker
  BY <1>5, WriteMarkerStep
<1>6. ASSUME NEW n \in LineCounts, BeginWrite(n) PROVE Inv'
  BY <1>6, BeginWriteStep
<1>7. CASE CatchUp
  BY <1>7, CatchUpStep
<1>8. CASE WriteLine
  BY <1>8, WriteLineStep
<1>9. CASE WriteRawRows
  BY <1>9, WriteRawRowsStep
<1>10. CASE FinishCompress
  BY <1>10, FinishCompressStep
<1>11. CASE AbortCompress
  BY <1>11, AbortCompressStep
<1>12. CASE UNCHANGED vars
  BY <1>12 DEF vars, Inv, LinesInv
<1> QED BY <1>1, <1>2, <1>3, <1>4, <1>5, <1>6, <1>7, <1>8, <1>9, <1>10, <1>11, <1>12 DEF Next

-----------------------------------------------------------------------------
(* The theorems.                                                           *)

LEMMA Always == Spec => []Inv
BY Begins, Step, PTL DEF Spec

\* The counters of the lines and of the iMCU rows, the windows of the rings, the
\* token arrays and the pending bits of every encoder fit together, for images of
\* every size and sampling and whatever the destination refuses.
THEOREM EncoderInvariant == Spec => []EncoderInv
<1>1. Inv => EncoderInv
  BY DEF Inv, MasterInv, RowsInv, EncoderInv
<1> QED BY <1>1, Always, PTL

\* Every iMCU row is coded once, in order, from the samples of its own lines and of
\* the lines around it: the ring of three iMCU rows of RowBuffer is enough for
\* smoothing, downsampling (in place too) and adaptive quantization.
THEOREM RowsAreRight == Spec => []RowsCodedFromTheirInput
<1>1. Inv => RowsCodedFromTheirInput
  BY DEF Inv, MasterInv, RowsInv, RowsCodedFromTheirInput
<1> QED BY <1>1, Always, PTL

\* No more iMCU rows are coded than the image has.
LEMMA RowsAreCounted ==
  ASSUME NEW p \in Images, NEW s, CountInv(p, s)
  PROVE  s.next_iMCU_row \in Nat /\ s.next_iMCU_row <= total_iMCU_rows(p)
<1> DEFINE n == s.next_input_row
           r == s.next_iMCU_row
           H == iMCU_height(p)
           T == total_iMCU_rows(p)
<1> SUFFICES r \in Nat /\ r <= T
  OBVIOUS
<1>1. T \in Nat
  BY Heights
<1>2. /\ H \in {8, 16, 24, 32} /\ p.height \in Nat /\ p.height <= T * H /\ T * H \in Nat
  <2>1. H = 8 * max_v_samp_factor(p) /\ max_v_samp_factor(p) \in 1 .. 4
    BY Heights, Sampling
  <2>2. H \in {8, 16, 24, 32}
    BY <2>1
  <2> QED BY <2>2, Heights, Sampling
<1>3. /\ n \in Nat /\ r \in Nat
      /\ r = 0 \/ r = T \/ (n < p.height /\ n >= H /\ r = n \div H - 1)
  <2>1. n \in Nat /\ r \in Nat
    BY DEF CountInv
  <2>2. CASE n < p.height
    BY <1>2, <2>1, <2>2 DEF CountInv
  <2>3. CASE n >= p.height
    BY <1>2, <2>1, <2>3 DEF CountInv
  <2> QED BY <1>2, <2>1, <2>2, <2>3
<1>4. CASE n < p.height /\ n >= H /\ r = n \div H - 1
  <2> DEFINE k == n \div H
  <2>1. k \in Nat /\ k * H <= n /\ n >= 1
    <3> HIDE DEF n, H
    <3>1. n >= 1
      BY <1>2, <1>3, <1>4
    <3> QED BY <1>2, <1>3, <3>1, RowNumbers
  <2>2. ~(k >= T)
    <3> SUFFICES ASSUME k >= T PROVE FALSE
      OBVIOUS
    <3>1. T * H <= k * H /\ k * H \in Nat
      <4> HIDE DEF T, H, k
      <4> QED BY <1>1, <1>2, <2>1, Multiples
    <3> HIDE DEF n, k, T
    <3> QED BY <1>2, <1>3, <1>4, <2>1, <3>1
  <2>3. r = k - 1
    BY <1>4
  <2> HIDE DEF r, k, T
  <2> QED BY <1>1, <1>3, <2>1, <2>2, <2>3
<1> HIDE DEF r, T
<1> QED BY <1>1, <1>3, <1>4

\* The bit writer's buffer and the token arrays, both filled without a check, are
\* large enough.
THEOREM BuffersAreLargeEnough == Spec => []BuffersSuffice
<1>1. ASSUME Inv PROVE BuffersSuffice
  <2> DEFINE B == blocks_per_iMCU_row(img)
             r == m.next_iMCU_row
             T == total_iMCU_rows(img)
             D == DivCeil(img.height, DCTSIZE)
  <2>1. img \in Images /\ TokensInv(img, m) /\ CountInv(img, m) /\ BitsInv(m)
    BY <1>1 DEF Inv, MasterInv, RowsInv
  <2>2. Len(m.bw) \in {0, 2, 4}
    <3>1. \A a, b : Len(<<a, b>>) = 2
      OBVIOUS
    <3>2. \A a, b, c, d : Len(<<a, b>> \o <<c, d>>) = 4
      OBVIOUS
    <3>3. \A x, y : Len(RowUnits(x)) = 2 /\ Len(RowUnits(x) \o RowUnits(y)) = 4
      BY <3>1, <3>2 DEF RowUnits
    <3>4. Len(<<>>) = 0
      OBVIOUS
    <3>5. CASE m.bw = <<>>
      BY <3>4, <3>5
    <3>6. CASE m.bw = RowUnits(r - 1)
      BY <3>3, <3>6
    <3>7. CASE m.bw = RowUnits(r - 2) \o RowUnits(r - 1)
      BY <3>3, <3>7
    <3> QED BY <2>1, <3>5, <3>6, <3>7 DEF BitsInv
  <2>3. (Len(m.bw) \div 2) * B * MaxBytesOfBlock <= B * (DCTSIZE * DCTSIZE * 16 + 8) + 2^16
    <3>1. B \in Nat
      BY <2>1, Blocks
    <3>2. 2^16 \in Nat
      OBVIOUS
    <3> HIDE DEF B
    <3>3. CASE Len(m.bw) = 0
      BY <3>1, <3>2, <3>3 DEF MaxBytesOfBlock, DCTSIZE
    <3>4. CASE Len(m.bw) = 2
      BY <3>1, <3>2, <3>4 DEF MaxBytesOfBlock, DCTSIZE
    <3>5. CASE Len(m.bw) = 4
      BY <3>1, <3>2, <3>5 DEF MaxBytesOfBlock, DCTSIZE
    <3> QED BY <2>2, <3>3, <3>4, <3>5
  <2>4. m.ta_num_tokens <= m.num_tokens
    BY <2>1 DEF TokensInv
  <2>5. T \in Nat /\ D \in Nat /\ T <= D /\ img.scans \in Nat
    <3>1. img.scans \in Nat /\ img.height \in Nat
      BY <2>1, ImagesAssumption DEF Image
    <3>2. D \in Nat
      BY <3>1 DEF DivCeil, DCTSIZE
    <3> QED BY <2>1, <3>1, <3>2, Heights
  <2>6. r \in Nat /\ r <= T
    BY <2>1, RowsAreCounted
  <2>7. m.cur_token_array < Max({1, img.scans * D})
    <3> DEFINE x == img.scans * D
    <3> SUFFICES m.cur_token_array < Max({1, x})
      OBVIOUS
    <3>1. x \in Nat
      <4> HIDE DEF D
      <4> QED BY <2>5
    <3>2. Max({1, x}) \in Nat /\ 1 <= Max({1, x}) /\ x <= Max({1, x})
      <4> HIDE DEF x
      <4>1. Max({1, x}) = IF 1 >= x THEN 1 ELSE x
        BY <3>1, MaxOfTwo
      <4> QED BY <3>1, <4>1
    <3>3. CASE m.allocated
      <4>1. img.scans = 1 /\ m.cur_token_array \in Nat /\ m.cur_token_array < r
        BY <2>1, <3>3 DEF TokensInv, IsStreamingSupported
      <4>2. x = D
        <5> HIDE DEF D
        <5> QED BY <2>5, <4>1
      <4> HIDE DEF x, D, r, T
      <4> QED BY <2>5, <2>6, <3>2, <4>1, <4>2
    <3>4. CASE ~m.allocated
      <4>1. m.cur_token_array = 0
        BY <2>1, <3>4 DEF TokensInv
      <4> HIDE DEF x
      <4> QED BY <3>2, <4>1
    <3> QED BY <3>3, <3>4
  <2> QED BY <2>3, <2>4, <2>7 DEF BuffersSuffice
<1> QED BY <1>1, Always, PTL

-----------------------------------------------------------------------------
(* The buffers of the memory destination.                                  *)

IsHeap(h) == DOMAIN h = {"live", "fresh", "temp", "output", "outsize", "kept"}

Owned(h) == IsHeap(h) /\ HeapInv(h)

LEMMA GrowKeeps ==
  ASSUME NEW h, Owned(h), NEW d, NEW j \in Nat, NEW g, g = Grow(h, d, j)
  PROVE  Owned(g)
<1>1. CASE d.kind # "mem" \/ j = 0
  BY <1>1 DEF Grow
<1>2. CASE ~(d.kind # "mem" \/ j = 0)
  <2> DEFINE new == h.fresh + j - 1
             size == d.size * 2^(j - 1)
  <2>1. g = [h EXCEPT !.live = (@ \ {h.temp}) \cup {new}, !.fresh = @ + j,
                      !.temp = new, !.output = new, !.outsize = size]
    BY <1>2 DEF Grow
  <2>2. new \in Nat /\ new >= h.fresh /\ new < h.fresh + j
    BY <1>2 DEF Owned, HeapInv
  <2> HIDE DEF new, size
  <2>3. /\ IsHeap(g) /\ g.live = (h.live \ {h.temp}) \cup {new} /\ g.fresh = h.fresh + j
        /\ g.temp = new /\ g.output = new /\ g.kept = h.kept
    BY <2>1 DEF Owned, HeapInv, IsHeap
  <2>4. g.fresh \in Nat \ {0} /\ g.live \subseteq 1 .. g.fresh - 1
    BY <2>2, <2>3 DEF Owned, HeapInv
  <2>5. g.kept \subseteq g.live \ {g.temp}
    BY <2>2, <2>3 DEF Owned, HeapInv
  <2> QED BY <2>3, <2>4, <2>5 DEF Owned, HeapInv
<1> QED BY <1>1, <1>2

\* Neither the whole of a stream nor the bits of an iMCU row frees a result.
LEMMA OutputKeeps ==
  ASSUME Owned(heap), NEW d, NEW units, NEW last, NEW ok, WriteOutput(d, units, last, ok)
  PROVE  Owned(heap')
<1>1. PICK j \in 0 .. Len(units) :
        heap' = LET h == Grow(heap, d, j)
                IN  IF ok /\ last /\ d.kind = "mem" THEN [h EXCEPT !.outsize = Len(dest'.buf)]
                    ELSE h
  BY DEF WriteOutput
<1> DEFINE h == Grow(heap, d, j)
<1>2. Owned(h)
  <2>1. j \in Nat
    OBVIOUS
  <2> QED BY <2>1, GrowKeeps
<1> HIDE DEF h
<1>3. heap' = h \/ heap' = [h EXCEPT !.outsize = Len(dest'.buf)]
  BY <1>1 DEF h
<1> QED BY <1>2, <1>3 DEF Owned, HeapInv, IsHeap

LEMMA BitsKeep ==
  ASSUME Owned(heap), NEW s, NEW ok, EmptyBitWriterBuffer(s, ok)
  PROVE  Owned(heap')
<1> DEFINE n == Len(SubSeq(s.bw, s.output_pos + 1, Len(s.bw)))
<1>1. \E j \in 0 .. n : heap' = Grow(heap, dest, j)
  BY DEF EmptyBitWriterBuffer
<1>2. \A j \in 0 .. n : j \in Nat
  OBVIOUS
<1> QED BY <1>1, <1>2, GrowKeeps

LEMMA SetDestKeeps ==
  ASSUME Owned(heap), NEW d, NEW var \in {"fresh", "same"}, SetDest(d, var)
  PROVE  Owned(heap')
<1>1. CASE heap' = heap
  BY <1>1
<1>2. CASE heap' # heap
  <2>1. heap' = [live |-> heap.live \cup {heap.fresh}, fresh |-> heap.fresh + 1,
                 kept |-> heap.kept \cup ({heap.output} \ {NULL}),
                 output |-> heap.fresh, outsize |-> d.size, temp |-> heap.fresh]
    BY <1>2 DEF SetDest, TempBuffer
  <2>2. /\ IsHeap(heap') /\ heap'.live = heap.live \cup {heap.fresh}
        /\ heap'.fresh = heap.fresh + 1
        /\ heap'.kept = heap.kept \cup ({heap.output} \ {NULL})
        /\ heap'.output = heap.fresh /\ heap'.temp = heap.fresh
    BY <2>1 DEF IsHeap
  <2>3. heap'.fresh \in Nat \ {0} /\ heap'.live \subseteq 1 .. heap'.fresh - 1
    BY <2>2 DEF Owned, HeapInv
  <2>4. heap'.kept \subseteq heap'.live \ {heap'.temp}
    BY <2>2 DEF Owned, HeapInv
  <2> QED BY <2>2, <2>3, <2>4 DEF Owned, HeapInv
<1> QED BY <1>1, <1>2

LEMMA HeapStep ==
  ASSUME MemVars \subseteq {"fresh", "same"}, Owned(heap), [Next]_vars
  PROVE  Owned(heap')
<1>1. ASSUME NEW d \in Dests, NEW var \in MemVars, SetDest(d, var) PROVE Owned(heap')
  BY <1>1, SetDestKeeps
<1>2. ASSUME NEW two_chroma \in BOOLEAN, SetQuality(two_chroma) PROVE Owned(heap')
  BY <1>2 DEF SetQuality
<1>3. ASSUME NEW p, StartCompress(p) PROVE Owned(heap')
  <2>1. heap' = heap \/ \E ok \in BOOLEAN :
          WriteOutput(init_destination(dest), <<Seg("SOI", 0)>>, FALSE, ok)
    BY <1>3 DEF StartCompress
  <2> QED BY <2>1, OutputKeeps
<1>4. CASE WriteTables
  <2>1. \E units : \E ok \in BOOLEAN : WriteOutput(init_destination(dest), units, TRUE, ok)
    BY <1>4 DEF WriteTables
  <2> QED BY <2>1, OutputKeeps
<1>5. CASE WriteMarker
  <2>1. \E ok \in BOOLEAN : WriteOutput(dest, <<Seg("APP", m.markers)>>, FALSE, ok)
    BY <1>5 DEF WriteMarker
  <2> QED BY <2>1, OutputKeeps
<1>6. ASSUME NEW n \in LineCounts, BeginWrite(n) PROVE Owned(heap')
  <2>1. \E units : \E ok \in BOOLEAN : WriteOutput(dest, units, FALSE, ok)
    BY <1>6 DEF BeginWrite
  <2> QED BY <2>1, OutputKeeps
<1>7. CASE CatchUp
  <2>1. heap' = heap \/ \E ok \in BOOLEAN : EmptyBitWriterBuffer(m, ok)
    BY <1>7 DEF CatchUp
  <2> QED BY <2>1, BitsKeep
<1>8. CASE WriteLine
  <2>1. \E s : \E ok \in BOOLEAN : EmptyBitWriterBuffer(s, ok)
    BY <1>8 DEF WriteLine
  <2> QED BY <2>1, BitsKeep
<1>9. CASE WriteRawRows
  <2>1. heap' = heap \/ \E s : \E ok \in BOOLEAN : EmptyBitWriterBuffer(s, ok)
    BY <1>9 DEF WriteRawRows
  <2> QED BY <2>1, BitsKeep
<1>10. CASE FinishCompress
  <2>1. heap' = heap \/ \E units : \E ok \in BOOLEAN : WriteOutput(dest, units, TRUE, ok)
    BY <1>10 DEF FinishCompress
  <2> QED BY <2>1, OutputKeeps
<1>11. CASE AbortCompress
  BY <1>11 DEF AbortCompress
<1>12. CASE UNCHANGED vars
  BY <1>12 DEF vars
<1> QED BY <1>1, <1>2, <1>3, <1>4, <1>5, <1>6, <1>7, <1>8, <1>9, <1>10, <1>11, <1>12 DEF Next

\* The memory destination frees no buffer that the application has as a result, as
\* long as each image starts with a NULL *outbuffer or with the buffer of the last
\* result: jpegli_mem_dest then owns the buffer that it will free.
THEOREM ResultsStay ==
  ASSUME MemVars \subseteq {"fresh", "same"}
  PROVE  Spec => []NoResultFreed
<1>1. Init => Owned(heap)
  BY DEF Init, Owned, HeapInv, IsHeap
<1>2. Owned(heap) /\ [Next]_vars => Owned(heap)'
  BY HeapStep
<1>3. Owned(heap) => NoResultFreed
  BY DEF Owned, HeapInv, NoResultFreed
<1> QED BY <1>1, <1>2, <1>3, PTL DEF Spec
=============================================================================
