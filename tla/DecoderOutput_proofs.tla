------------------------ MODULE DecoderOutput_proofs ------------------------
(***************************************************************************)
(* Proofs about DecoderOutput, for every height, sampling factors, scale   *)
(* and mode that its assumptions allow.                                    *)
(***************************************************************************)
EXTENDS DecoderOutput, TLAPS

-----------------------------------------------------------------------------
(* The largest and the smallest of a set.                                  *)

LEMMA MaxOfTwo ==
  ASSUME NEW a \in Int, NEW b \in Int
  PROVE  Max({a, b}) = IF a >= b THEN a ELSE b
BY DEF Max

LEMMA MinOfTwo ==
  ASSUME NEW a \in Int, NEW b \in Int
  PROVE  Min({a, b}) = IF a <= b THEN a ELSE b
BY DEF Min

LEMMA MaxOfOne ==
  ASSUME NEW a \in Int
  PROVE  Max({a}) = a
BY DEF Max

LEMMA MaxOfFew ==
  ASSUME NEW S \in SUBSET (0 .. 4), S # {}
  PROVE  Max(S) \in S /\ \A y \in S : y <= Max(S)
<1>1. \E x \in S : \A y \in S : x >= y
  <2> SUFFICES ASSUME ~ \E x \in S : \A y \in S : x >= y PROVE FALSE
    OBVIOUS
  <2>4. 4 \notin S OBVIOUS
  <2>3. 3 \notin S BY <2>4
  <2>2. 2 \notin S BY <2>3, <2>4
  <2>1. 1 \notin S BY <2>2, <2>3, <2>4
  <2>0. 0 \notin S BY <2>1, <2>2, <2>3, <2>4
  <2>5. \A x \in 0 .. 4 : x = 0 \/ x = 1 \/ x = 2 \/ x = 3 \/ x = 4 OBVIOUS
  <2> QED BY <2>0, <2>1, <2>2, <2>3, <2>4, <2>5, Zenon
<1> QED BY <1>1 DEF Max

LEMMA MaxOfSome ==
  ASSUME NEW S \in SUBSET (1 .. 16), S # {}
  PROVE  Max(S) \in S
<1>1. \E x \in S : \A y \in S : x >= y
  <2> SUFFICES ASSUME ~ \E x \in S : \A y \in S : x >= y PROVE FALSE
    OBVIOUS
  <2>1. S \cap (13 .. 16) = {}
    <3>4. 16 \notin S OBVIOUS
    <3>3. 15 \notin S BY <3>4
    <3>2. 14 \notin S BY <3>3, <3>4
    <3>1. 13 \notin S BY <3>2, <3>3, <3>4
    <3> QED BY <3>1, <3>2, <3>3, <3>4
  <2>2. S \cap (9 .. 12) = {}
    <3>4. 12 \notin S BY <2>1
    <3>3. 11 \notin S BY <2>1, <3>4
    <3>2. 10 \notin S BY <2>1, <3>3, <3>4
    <3>1. 9 \notin S BY <2>1, <3>2, <3>3, <3>4
    <3> QED BY <3>1, <3>2, <3>3, <3>4
  <2>3. S \cap (5 .. 8) = {}
    <3>4. 8 \notin S BY <2>1, <2>2
    <3>3. 7 \notin S BY <2>1, <2>2, <3>4
    <3>2. 6 \notin S BY <2>1, <2>2, <3>3, <3>4
    <3>1. 5 \notin S BY <2>1, <2>2, <3>2, <3>3, <3>4
    <3> QED BY <3>1, <3>2, <3>3, <3>4
  <2>4. S \cap (1 .. 4) = {}
    <3>4. 4 \notin S BY <2>1, <2>2, <2>3
    <3>3. 3 \notin S BY <2>1, <2>2, <2>3, <3>4
    <3>2. 2 \notin S BY <2>1, <2>2, <2>3, <3>3, <3>4
    <3>1. 1 \notin S BY <2>1, <2>2, <2>3, <3>2, <3>3, <3>4
    <3> QED BY <3>1, <3>2, <3>3, <3>4
  <2>5. \A x \in 1 .. 16 : \/ x \in 1 .. 4 \/ x \in 5 .. 8
                           \/ x \in 9 .. 12 \/ x \in 13 .. 16
    OBVIOUS
  <2> QED BY <2>1, <2>2, <2>3, <2>4, <2>5, Zenon
<1> QED BY <1>1 DEF Max

-----------------------------------------------------------------------------
(* Geometry: the sample rows of a component in an iMCU row, and those a    *)
(* line of the output is made of.                                          *)

LEMMA ImageSize == image_height \in Nat \ {0}
BY OutputAssumption

LEMMA Scale == scale_num \in Nat \ {0} /\ scale_denom \in Nat \ {0}
BY OutputAssumption

LEMMA Bounds == LineCounts \subseteq Nat \ {0} /\ MaxScans \in Nat \ {0}
BY OutputAssumption

LEMMA Factors1To4 ==
  /\ Components # {} /\ DOMAIN h_samp_factor = Components
  /\ \A c \in Components : h_samp_factor[c] \in 1 .. 4 /\ v_samp_factor[c] \in 1 .. 4
BY OutputAssumption DEF Components

\* Rounding up.
LEMMA Ceil ==
  ASSUME NEW n \in Nat, NEW d \in Nat \ {0}
  PROVE  LET g == (n + d - 1) \div d
         IN  g \in Nat /\ (g - 1) * d < n /\ n <= g * d
<1> DEFINE k == n + d - 1
           g == k \div d
<1>1. k \in Nat
  OBVIOUS
<1> HIDE DEF k
<1>2. g \in Nat /\ g * d <= k /\ k < (g + 1) * d
  BY <1>1
<1> HIDE DEF g
<1>3. (g + 1) * d = g * d + d /\ (g - 1) * d = g * d - d /\ g * d \in Int
  BY <1>2
<1>4. g \in Nat /\ (g - 1) * d < n /\ n <= g * d
  <2> DEFINE x == g * d
  <2>1. x \in Int /\ x <= k /\ k < x + d
    BY <1>2, <1>3
  <2>2. (g - 1) * d = x - d
    BY <1>3
  <2> HIDE DEF x
  <2>3. x - d < n /\ n <= x
    BY <2>1 DEF k
  <2> QED BY <1>2, <2>2, <2>3 DEF x
<1> QED BY <1>4 DEF g, k

LEMMA Sampling ==
  /\ max_v_samp_factor \in 1 .. 4 /\ max_h_samp_factor \in 1 .. 4 /\ Components # {}
  /\ \A c \in Components : /\ v_samp_factor[c] \in 1 .. max_v_samp_factor
                           /\ h_samp_factor[c] \in 1 .. 4
<1>1. ASSUME NEW f, DOMAIN f = Components, \A c \in Components : f[c] \in 1 .. 4
      PROVE  Max(Range(f)) \in 1 .. 4 /\ \A c \in Components : f[c] <= Max(Range(f))
  <2>1. Range(f) \in SUBSET (0 .. 4) /\ Range(f) # {} /\ Range(f) \subseteq 1 .. 4
    BY <1>1, Factors1To4 DEF Range
  <2>2. \A c \in Components : f[c] \in Range(f)
    BY <1>1 DEF Range
  <2>3. Max(Range(f)) \in Range(f) /\ \A y \in Range(f) : y <= Max(Range(f))
    BY ONLY <2>1, MaxOfFew
  <2> QED BY <2>1, <2>2, <2>3
<1>2. /\ Components # {} /\ DOMAIN v_samp_factor = Components
      /\ DOMAIN h_samp_factor = Components
      /\ \A c \in Components : h_samp_factor[c] \in 1 .. 4 /\ v_samp_factor[c] \in 1 .. 4
  BY Factors1To4 DEF Components
<1> QED BY <1>1, <1>2 DEF max_v_samp_factor, max_h_samp_factor

LEMMA ScaledSize == min_scaled_dct_size \in 1 .. 16
<1> DEFINE S == {d \in 1 .. 16 : scale_num * DCTSIZE > scale_denom * (d - 1)}
<1>1. 1 \in S
  BY Scale DEF DCTSIZE
<1>2. Max(S) \in S
  <2> HIDE DEF S
  <2>1. S \in SUBSET (1 .. 16)
    BY DEF S
  <2> QED BY <1>1, <2>1, MaxOfSome
<1> QED BY <1>2 DEF min_scaled_dct_size, DCTSIZE

\* How often the rows of a component are repeated, and how many of them make an
\* iMCU row: upsampling and IDCT scaling together give all components the same
\* height.
LEMMA Factors ==
  ASSUME NEW c \in Components
  PROVE  /\ v_factor(c) \in 1 .. 4 /\ max_v_samp_factor % v_factor(c) = 0
         /\ scaled_dct_size(c) \in Nat \ {0} /\ cheight(c) \in Nat \ {0}
         /\ imcu_height = v_factor(c) * cheight(c)
         /\ v_factor(c) * scaled_dct_size(c) * v_samp_factor[c]
              = max_v_samp_factor * min_scaled_dct_size
         /\ v_factor(c) * scaled_dct_size(c)
              = (max_v_samp_factor \div v_samp_factor[c]) * min_scaled_dct_size
<1> DEFINE q == max_v_samp_factor \div v_samp_factor[c]
           v == v_samp_factor[c]
           D == Doublings(c)
           m == min_scaled_dct_size
<1>1. v \in 1 .. 4 /\ max_v_samp_factor \in 1 .. 4 /\ v <= max_v_samp_factor
  BY Sampling
<1>2. max_v_samp_factor % v = 0
  BY IntegralSubsampling
<1>3. q \in 1 .. 4 /\ max_v_samp_factor = v * q
  <2>1. \A a, b \in 1 .. 4 :
          b <= a /\ a % b = 0 => a \div b \in 1 .. 4 /\ a = b * (a \div b)
    OBVIOUS
  <2> HIDE DEF v
  <2> QED BY <1>1, <1>2, <2>1 DEF v
<1>4. 2^0 = 1 /\ 2^1 = 2 /\ 2^2 = 4
  OBVIOUS
<1>5. D \in 0 .. 2 /\ q % 2^D = 0
  <2>1. CASE ~scaled
    BY <2>1, <1>3, <1>4 DEF Doublings
  <2>2. CASE scaled
    <3> DEFINE S == {n \in 0 .. 2 :
                       /\ (max_v_samp_factor \div v_samp_factor[c]) % 2^n = 0
                       /\ (max_h_samp_factor \div h_samp_factor[c]) % 2^n = 0
                       /\ n > 0 => min_scaled_dct_size * 2^(n - 1) < DCTSIZE}
    <3>1. (max_h_samp_factor \div h_samp_factor[c]) % 1 = 0
      BY Sampling
    <3>2. 0 \in S
      BY <1>3, <1>4, <3>1
    <3>3. Max(S) \in S
      <4> HIDE DEF S
      <4>1. S \in SUBSET (0 .. 4)
        BY DEF S
      <4> QED BY <3>2, <4>1, MaxOfFew
    <3>4. D = Max(S)
      BY <2>2 DEF Doublings
    <3> HIDE DEF D
    <3> QED BY <3>3, <3>4
  <2> QED BY <2>1, <2>2
<1>6. m \in 1 .. 16
  BY ScaledSize
<1>7. v_factor(c) = q \div 2^D /\ scaled_dct_size(c) = m * 2^D
      /\ cheight(c) = v * scaled_dct_size(c) /\ imcu_height = max_v_samp_factor * m
  BY DEF v_factor, scaled_dct_size, cheight, imcu_height
<1> HIDE DEF q, v, D, m
<1>8. 2^D \in {1, 2, 4} /\ q % 2^D = 0
  <2>1. D = 0 \/ D = 1 \/ D = 2
    BY <1>5
  <2> QED BY <1>4, <1>5, <2>1, Zenon
<1> DEFINE f == 2^D
           w == q \div f
<1>9. w \in 1 .. 4 /\ q = w * f /\ max_v_samp_factor = v * w * f
  <2> HIDE DEF f
  <2> QED BY <1>1, <1>3, <1>8 DEF f
<1> HIDE DEF f, w
<1>10. f \in 1 .. 4 /\ v_factor(c) = w /\ scaled_dct_size(c) = m * f
  BY <1>7, <1>8 DEF f, w
<1>11. scaled_dct_size(c) \in Nat \ {0}
  BY <1>6, <1>10
<1>12. cheight(c) \in Nat \ {0}
  BY <1>1, <1>7, <1>11
<1>13. max_v_samp_factor % w = 0
  <2>1. max_v_samp_factor = w * (v * f) /\ v * f \in Nat
    BY <1>1, <1>9, <1>10
  <2>2. \A a \in Nat : \A b \in 1 .. 4 : (b * a) % b = 0
    OBVIOUS
  <2> QED BY <1>9, <2>1, <2>2
<1>14. w * (m * f) = q * m
  BY <1>6, <1>9, <1>10
<1>15. w * (m * f) * v = max_v_samp_factor * m
  BY <1>1, <1>6, <1>9, <1>10
<1>16. imcu_height = w * cheight(c)
  BY <1>1, <1>6, <1>7, <1>9, <1>10
<1> QED BY <1>9, <1>10, <1>11, <1>12, <1>13, <1>14, <1>15, <1>16 DEF q, v, m

LEMMA Multiples ==
  ASSUME NEW a \in Int, NEW b \in Int, NEW k \in Nat, a <= b
  PROVE  a * k <= b * k
OBVIOUS

LEMMA Products == \A a, b \in Nat : a * b \in Nat
OBVIOUS

\* The image has rows, each component has blocks in every iMCU row, and the last
\* iMCU row need not be full.
LEMMA Heights ==
  /\ total_iMCU_rows \in Nat \ {0} /\ output_height \in Nat
  /\ \A c \in Components :
       /\ height_in_blocks(c) \in Nat
       /\ (total_iMCU_rows - 1) * v_samp_factor[c] < height_in_blocks(c)
       /\ height_in_blocks(c) <= total_iMCU_rows * v_samp_factor[c]
<1> DEFINE h == image_height
           M == max_v_samp_factor
<1>1. h \in Nat \ {0} /\ M \in 1 .. 4
  <2>1. h \in Nat \ {0}
    BY ImageSize
  <2>2. M \in 1 .. 4
    BY Sampling
  <2> QED BY <2>1, <2>2
<1>2. total_iMCU_rows = (h + M * 8 - 1) \div (M * 8)
  BY DEF total_iMCU_rows, DivCeil, DCTSIZE
<1>3. output_height \in Nat
  <2>1. output_height = h \/ output_height = (h * min_scaled_dct_size + 8 - 1) \div 8
    BY DEF output_height, DivCeil, DCTSIZE
  <2>2. h * min_scaled_dct_size \in Nat
    BY <1>1, ScaledSize
  <2>4. (h * min_scaled_dct_size + 8 - 1) \div 8 \in Nat
    BY <2>2, Ceil
  <2>5. h \in Nat
    BY <1>1
  <2> QED BY <2>1, <2>4, <2>5, Zenon
<1> HIDE DEF h, M
<1>4. total_iMCU_rows \in Nat \ {0}
  BY <1>1, <1>2
<1>5. ASSUME NEW c \in Components
      PROVE  /\ height_in_blocks(c) \in Nat
             /\ (total_iMCU_rows - 1) * v_samp_factor[c] < height_in_blocks(c)
             /\ height_in_blocks(c) <= total_iMCU_rows * v_samp_factor[c]
  <2> DEFINE v == v_samp_factor[c]
             q == M \div v
             T == total_iMCU_rows
  <2>1. v \in 1 .. 4 /\ v <= M /\ M % v = 0
    BY Sampling, IntegralSubsampling DEF M
  <2>2. q \in 1 .. 4 /\ M = v * q
    <3>1. \A a, b \in 1 .. 4 :
            b <= a /\ a % b = 0 => a \div b \in 1 .. 4 /\ a = b * (a \div b)
      OBVIOUS
    <3> HIDE DEF v
    <3> QED BY <1>1, <2>1, <3>1 DEF v
  <2> DEFINE g == (h + q - 1) \div q
  <2>3. height_in_blocks(c) = (g + 7) \div 8
    BY DEF height_in_blocks, DivCeil, DCTSIZE, M, h
  <2> HIDE DEF v, q, T
  <2>4. T \in Nat /\ T = (h + M * 8 - 1) \div (M * 8)
    BY <1>2, <1>4 DEF T
  <2>5. (T - 1) * (M * 8) < h /\ h <= T * (M * 8)
    <3> DEFINE N == M * 8
    <3>1. N \in Nat \ {0} /\ T = (h + N - 1) \div N
      BY <1>1, <2>4
    <3> HIDE DEF N
    <3>2. (T - 1) * N < h /\ h <= T * N
      BY <1>1, <3>1, Ceil
    <3> QED BY <3>2 DEF N
  <2>6. g \in Nat /\ (g - 1) * q < h /\ h <= g * q
    <3>1. q \in Nat \ {0} /\ h \in Nat
      BY <1>1, <2>2
    <3> HIDE DEF q
    <3> QED BY <3>1, Ceil
  <2> HIDE DEF g
  <2>7. (T - 1) * v * 8 < g /\ g <= T * v * 8
    <3> DEFINE A == (T - 1) * v * 8
               B == T * v * 8
    <3>1. A \in Int /\ B \in Int /\ A * q < h /\ h <= B * q
      BY <1>1, <2>1, <2>2, <2>4, <2>5
    <3> HIDE DEF A, B
    <3>2. A < g
      <4>1. g <= A => g * q <= A * q
        BY <3>1, <2>2, <2>6, Multiples
      <4>2. g * q \in Int /\ A * q \in Int
        BY <3>1, <2>2, <2>6
      <4> QED BY <1>1, <3>1, <2>6, <4>1, <4>2
    <3>3. g - 1 < B
      <4>1. B <= g - 1 => B * q <= (g - 1) * q
        BY <3>1, <2>2, <2>6, Multiples
      <4>2. (g - 1) * q \in Int /\ B * q \in Int
        BY <3>1, <2>2, <2>6
      <4> QED BY <1>1, <3>1, <2>6, <4>1, <4>2
    <3> QED BY <3>1, <3>2, <3>3, <2>6 DEF A, B
  <2>8. (T - 1) * v < (g + 7) \div 8 /\ (g + 7) \div 8 <= T * v
    <3> DEFINE A == (T - 1) * v
               B == T * v
    <3>1. A \in Int /\ B \in Int /\ A * 8 < g /\ g <= B * 8
      BY <2>1, <2>4, <2>7
    <3> HIDE DEF A, B
    <3>2. A < (g + 7) \div 8 /\ (g + 7) \div 8 <= B
      BY <3>1, <2>6
    <3> QED BY <3>2 DEF A, B
  <2> QED BY <2>3, <2>6, <2>8 DEF T, v
<1> QED BY <1>3, <1>4, <1>5

\* The rows of an iMCU row: all of them, except in the last one.
LEMMA RowsOfOne ==
  ASSUME NEW c \in Components, NEW imcu \in Rows, NEW r \in RowsOf(c, imcu)
  PROVE  /\ r \in Nat /\ imcu * cheight(c) <= r /\ r < (imcu + 1) * cheight(c)
         /\ r \div cheight(c) = imcu
<1> DEFINE v == v_samp_factor[c]
           s == scaled_dct_size(c)
           a == (imcu + 1) * v
           b == height_in_blocks(c)
<1>1. v \in 1 .. 4 /\ s \in Nat \ {0} /\ cheight(c) = v * s /\ imcu \in Nat
      /\ cheight(c) \in Nat \ {0} /\ b \in Nat
  BY Sampling, Factors, Heights DEF Rows, cheight
<1>2. r \in imcu * cheight(c) .. Min({a, b}) * s - 1
  BY DEF RowsOf
<1> HIDE DEF v, s, b
<1>3. a \in Nat /\ a * s = (imcu + 1) * cheight(c)
  BY <1>1
<1> HIDE DEF a
<1>4. Min({a, b}) \in Nat /\ Min({a, b}) <= a
  BY <1>1, <1>3, MinOfTwo
<1> DEFINE e == Min({a, b})
<1> HIDE DEF e
<1>5. e \in Nat /\ e * s <= a * s
  BY <1>1, <1>3, <1>4, Multiples DEF e
<1>6. imcu * cheight(c) \in Nat /\ e * s \in Nat /\ (imcu + 1) * cheight(c) \in Nat
  BY <1>1, <1>5
<1>7. r \in Nat /\ imcu * cheight(c) <= r /\ r < (imcu + 1) * cheight(c)
  BY <1>2, <1>3, <1>5, <1>6 DEF e
<1>8. r \div cheight(c) = imcu
  BY <1>1, <1>7
<1> QED BY <1>7, <1>8

LEMMA RowIsIn ==
  ASSUME NEW c \in Components, NEW imcu \in Rows, NEW r \in Nat,
         imcu * cheight(c) <= r, r < (imcu + 1) * cheight(c),
         imcu < total_iMCU_rows - 1 \/ r < raw_height_(c)
  PROVE  r \in RowsOf(c, imcu)
<1> DEFINE v == v_samp_factor[c]
           s == scaled_dct_size(c)
           a == (imcu + 1) * v
           b == height_in_blocks(c)
           T == total_iMCU_rows
<1>1. v \in 1 .. 4 /\ s \in Nat \ {0} /\ cheight(c) = v * s /\ imcu \in Nat
      /\ cheight(c) \in Nat \ {0} /\ b \in Nat /\ T \in Nat /\ (T - 1) * v < b
      /\ raw_height_(c) = b * s
  BY Sampling, Factors, Heights DEF Rows, cheight, raw_height_
<1>2. RowsOf(c, imcu) = imcu * cheight(c) .. Min({a, b}) * s - 1
  BY DEF RowsOf
<1>3. imcu < T - 1 \/ r < b * s
  BY <1>1
<1> HIDE DEF v, s, b, T
<1>4. a \in Nat /\ a * s = (imcu + 1) * cheight(c)
  BY <1>1
<1>5. imcu < T - 1 => a <= b
  <2> SUFFICES ASSUME imcu < T - 1 PROVE a <= b
    OBVIOUS
  <2>1. imcu + 1 <= T - 1
    BY <1>1
  <2>2. (imcu + 1) * v <= (T - 1) * v
    BY <1>1, <2>1, Multiples
  <2> QED BY <1>1, <1>4, <2>2
<1> HIDE DEF a
<1>6. Min({a, b}) = IF a <= b THEN a ELSE b
  BY <1>1, <1>4, MinOfTwo
<1>7. r < Min({a, b}) * s
  <2>1. CASE a <= b
    BY <1>4, <1>6, <2>1
  <2>2. CASE ~(a <= b)
    BY <1>3, <1>5, <1>6, <2>2
  <2> QED BY <2>1, <2>2
<1>8. imcu * cheight(c) \in Nat /\ Min({a, b}) * s \in Nat
  BY <1>1, <1>4, <1>6
<1> QED BY <1>2, <1>7, <1>8

\* The row of samples in the middle of those that line y is made of.
MidRow(c, y) == ((y \div max_v_samp_factor) * max_v_samp_factor) \div v_factor(c)
                  + (y % max_v_samp_factor) \div v_factor(c)

LEMMA MidRowIs ==
  ASSUME NEW c \in Components, NEW y \in Nat
  PROVE  /\ MidRow(c, y) = y \div v_factor(c)
         /\ y < output_height => y \div v_factor(c) < raw_height_(c)
<1> DEFINE f == v_factor(c)
           M == max_v_samp_factor
<1>1. f \in 1 .. 4 /\ M \in 1 .. 4 /\ M % f = 0
  BY Sampling, Factors
<1>2. MidRow(c, y) = y \div f
  <2>1. MidRow(c, y) = ((y \div M) * M) \div f + (y % M) \div f
    BY DEF MidRow
  <2> HIDE DEF f, M
  <2>2. M = 1 \/ M = 2 \/ M = 3 \/ M = 4
    BY <1>1
  <2>3. CASE M = 1
    <3>1. f = 1
      BY <1>1, <2>3
    <3> QED BY <2>1, <2>3, <3>1
  <2>4. CASE M = 2
    <3>1. f = 1 \/ f = 2
      BY <1>1, <2>4
    <3>2. CASE f = 1
      BY <2>1, <2>4, <3>2
    <3>3. CASE f = 2
      BY <2>1, <2>4, <3>3
    <3> QED BY <3>1, <3>2, <3>3
  <2>5. CASE M = 3
    <3>1. f = 1 \/ f = 3
      BY <1>1, <2>5
    <3>2. CASE f = 1
      BY <2>1, <2>5, <3>2
    <3>3. CASE f = 3
      BY <2>1, <2>5, <3>3
    <3> QED BY <3>1, <3>2, <3>3
  <2>6. CASE M = 4
    <3>1. f = 1 \/ f = 2 \/ f = 4
      BY <1>1, <2>6
    <3>2. CASE f = 1
      BY <2>1, <2>6, <3>2
    <3>3. CASE f = 2
      BY <2>1, <2>6, <3>3
    <3>4. CASE f = 4
      BY <2>1, <2>6, <3>4
    <3> QED BY <3>1, <3>2, <3>3, <3>4
  <2> QED BY <2>2, <2>3, <2>4, <2>5, <2>6
<1>3. ASSUME y < output_height
      PROVE  y \div f < raw_height_(c)
  <2> DEFINE h == image_height
             m == min_scaled_dct_size
             q == M \div v_samp_factor[c]
             s == scaled_dct_size(c)
             b == height_in_blocks(c)
             g == (h + q - 1) \div q
  <2>1. h \in Nat \ {0} /\ m \in 1 .. 16
    BY ImageSize, ScaledSize
  <2>2. b = (g + 7) \div 8 /\ raw_height_(c) = b * s
    BY DEF height_in_blocks, raw_height_, DivCeil, DCTSIZE
  <2>3. f * s = q * m /\ s \in Nat \ {0} /\ b \in Nat
    BY Factors, Heights
  <2>4. q \in 1 .. 4
    <3>1. \A i, j \in 1 .. 4 : j <= i => i \div j \in 1 .. 4
      OBVIOUS
    <3> QED BY <3>1, Sampling
  <2>5. y * 8 < h * m
    <3>1. CASE scaled
      <4>1. output_height = (h * m + 7) \div 8
        BY <3>1 DEF output_height, DivCeil, DCTSIZE
      <4>2. h * m \in Nat
        <5>1. h \in Nat /\ m \in Nat
          BY <2>1
        <5> QED BY <5>1, Products
      <4>3. \A n \in Nat : y < (n + 7) \div 8 => y * 8 < n
        OBVIOUS
      <4>4. y < (h * m + 7) \div 8
        BY <1>3, <4>1, Zenon
      <4> HIDE DEF h, m
      <4> QED BY <4>2, <4>3, <4>4
    <3>2. CASE ~scaled
      BY <1>3, <2>1, <3>2 DEF output_height, min_scaled_dct_size, DCTSIZE
    <3> QED BY <3>1, <3>2
  <2> HIDE DEF f, q, s, b, h, m, M
  <2>6. h <= g * q /\ g \in Nat
    <3>1. q \in Nat \ {0} /\ h \in Nat
      BY <2>1, <2>4
    <3> QED BY <3>1, Ceil
  <2> HIDE DEF g
  <2>7. g <= b * 8
    BY <2>2, <2>6
  <2>8. h <= b * 8 * q
    <3>1. g * q <= b * 8 * q
      BY <2>3, <2>4, <2>6, <2>7, Multiples
    <3> QED BY <2>1, <2>3, <2>4, <2>6, <3>1
  <2>9. y < f * (b * s)
    <3>1. h * m <= b * 8 * q * m
      BY <2>1, <2>3, <2>4, <2>8, Multiples
    <3>2. b * 8 * q * m = 8 * (f * (b * s))
      <4>1. b * 8 * q * m = b * 8 * (q * m)
        BY <2>1, <2>3, <2>4
      <4>2. b * 8 * (f * s) = 8 * (f * (b * s))
        BY <1>1, <2>3
      <4> QED BY <2>3, <4>1, <4>2
    <3>3. f * (b * s) \in Nat /\ h * m \in Nat
      <4>1. f \in Nat /\ h \in Nat /\ m \in Nat /\ b \in Nat /\ s \in Nat
        BY <1>1, <2>1, <2>3
      <4> QED BY <4>1, Products
    <3> DEFINE n == f * (b * s)
               k == h * m
    <3>4. n \in Nat /\ k \in Nat /\ k <= 8 * n /\ y * 8 < k
      BY <2>5, <3>1, <3>2, <3>3
    <3> HIDE DEF n, k
    <3> QED BY <3>4 DEF n
  <2>10. \A n \in Nat : y < f * n => y \div f < n
    BY <1>1
  <2> QED BY <2>2, <2>3, <2>9, <2>10
<1> QED BY <1>2, <1>3

LEMMA NeighboursUsed ==
  ASSUME NEW c \in Components, NEW y \in Nat, NEW r \in RowsUsed(c, y)
  PROVE  LET mid == y \div v_factor(c)
         IN  /\ r \in Nat /\ mid - context <= r /\ r <= mid + context
             /\ mid < raw_height_(c) => r < raw_height_(c)
<1> DEFINE mid == y \div v_factor(c)
           F == do_fancy_upsampling /\ v_factor(c) = 2
           W == raw_height_(c)
<1>1. RowsUsed(c, y) = {mid} \cup IF F THEN {Max({0, mid - 1}),
                                           IF mid + 1 = W THEN mid ELSE mid + 1}
                                  ELSE {}
  <2>1. MidRow(c, y) = mid
    BY MidRowIs
  <2> HIDE DEF mid
  <2> QED BY <2>1 DEF RowsUsed, MidRow
<1>2. mid \in Nat
  BY Factors
<1>3. F => context = 1
  BY DEF context, need_context_rows_
<1>4. context \in {0, 1}
  BY DEF context
<1>5. W \in Nat
  BY Factors, Heights, Products DEF raw_height_
<1> HIDE DEF mid, F, W
<1>6. Max({0, mid - 1}) = IF 0 >= mid - 1 THEN 0 ELSE mid - 1
  BY <1>2, MaxOfTwo
<1>7. CASE F
  <2>1. r = mid \/ r = Max({0, mid - 1}) \/ r = IF mid + 1 = W THEN mid ELSE mid + 1
    BY <1>1, <1>7
  <2>2. r \in Nat /\ mid - 1 <= r /\ r <= mid + 1 /\ (mid < W => r < W)
    BY <1>2, <1>5, <1>6, <2>1
  <2> QED BY <1>3, <1>7, <2>2 DEF mid, W
<1>8. CASE ~F
  <2>1. r = mid
    BY <1>1, <1>8
  <2>2. mid - context <= mid /\ mid <= mid + context
    BY <1>2, <1>4
  <2> QED BY <1>2, <2>1, <2>2 DEF mid, W
<1> QED BY <1>7, <1>8

\* Every row that ProcessOutput reads for the lines it can output belongs to one
\* of the last iMCU rows it has rendered: the last one, or the last three where
\* the rows above and below are needed.
LEMMA UsedRowsAreKept ==
  ASSUME output_iMCU_row \in 0 .. total_iMCU_rows, CanOutput,
         NEW y \in Nat, y < yend,
         (output_iMCU_row - 1 - context) * imcu_height <= y,
         NEW c \in Components, NEW r \in RowsUsed(c, y)
  PROVE  \E imcu \in Kept : imcu \in Rows /\ r \in RowsOf(c, imcu)
<1> DEFINE k == output_iMCU_row
           T == total_iMCU_rows
           f == v_factor(c)
           ch == cheight(c)
           W == raw_height_(c)
           x == context
           mid == y \div f
           imcu == r \div ch
<1>1. /\ T \in Nat \ {0} /\ k \in Nat /\ k <= T /\ x \in {0, 1}
      /\ f \in 1 .. 4 /\ ch \in Nat \ {0} /\ imcu_height = f * ch
  BY Heights, Factors DEF context
<1>2. r \in Nat /\ mid - x <= r /\ r <= mid + x /\ (mid < W => r < W)
  BY NeighboursUsed
<1>3. W \in Nat /\ W <= T * ch
  <2> DEFINE b == height_in_blocks(c)
             s == scaled_dct_size(c)
             v == v_samp_factor[c]
  <2>1. b \in Nat /\ s \in Nat /\ v \in Nat /\ b <= T * v /\ W = b * s /\ ch = v * s
    BY Heights, Factors, Sampling DEF raw_height_, cheight
  <2> HIDE DEF b, s, v, W, ch, T
  <2>2. b * s <= T * v * s
    BY <1>1, <2>1, Multiples
  <2>3. T * v * s = T * (v * s)
    BY <1>1, <2>1
  <2> QED BY <2>1, <2>2, <2>3, Products
<1>4. /\ k = T => r < W
      /\ k # T => mid < (k - x) * ch
  <2>1. CASE k = T
    <3>1. y < output_height
      BY <2>1 DEF yend, AllDecoded
    <3> QED BY <1>2, <2>1, <3>1, MidRowIs
  <2>2. CASE k # T
    <3>1. y < (k - x) * (f * ch)
      BY <1>1, <2>2 DEF yend, AllDecoded
    <3> HIDE DEF k, f, ch, x
    <3>2. (k - x) * (f * ch) = f * ((k - x) * ch) /\ (k - x) * ch \in Int
      BY <1>1
    <3>3. \A n \in Int : y < f * n => y \div f < n
      BY <1>1
    <3> QED BY <2>2, <3>1, <3>2, <3>3
  <2> QED BY <2>1, <2>2
<1>5. (k - 1 - x) * ch <= mid
  <2>1. (k - 1 - x) * (f * ch) <= y
    BY <1>1
  <2> HIDE DEF k, f, ch, x
  <2>2. (k - 1 - x) * (f * ch) = f * ((k - 1 - x) * ch) /\ (k - 1 - x) * ch \in Int
    BY <1>1
  <2>3. \A n \in Int : f * n <= y => n <= y \div f
    BY <1>1
  <2> QED BY <2>1, <2>2, <2>3
<1>6. mid \in Nat
  BY <1>1
<1> HIDE DEF k, T, f, ch, x, W, mid
<1>7. r < k * ch
  <2>1. CASE k = T
    BY <1>1, <1>2, <1>3, <1>4, <2>1, Products
  <2>2. CASE k # T
    <3>1. (k - x) * ch = k * ch - x * ch /\ k * ch \in Int /\ x * ch >= x
      BY <1>1
    <3> QED BY <1>1, <1>2, <1>4, <1>6, <2>2, <3>1
  <2> QED BY <2>1, <2>2
<1>8. (k - 1 - 2 * x) * ch <= r
  <2>1. (k - 1 - 2 * x) * ch = (k - 1 - x) * ch - x * ch /\ x * ch >= x
        /\ (k - 1 - x) * ch \in Int /\ x * ch \in Int
    BY <1>1
  <2> QED BY <1>1, <1>2, <1>5, <1>6, <2>1
<1>9. imcu \in Nat /\ imcu * ch <= r /\ r < (imcu + 1) * ch
  BY <1>1, <1>2
<1> HIDE DEF imcu
<1>10. imcu < k
  <2>1. k <= imcu => k * ch <= imcu * ch
    BY <1>1, <1>9, Multiples
  <2> QED BY <1>1, <1>2, <1>7, <1>9, <2>1, Products
<1>11. k - 1 - 2 * x <= imcu
  <2> DEFINE n == k - 1 - 2 * x
  <2>1. n \in Int
    BY <1>1
  <2> HIDE DEF n
  <2>2. imcu + 1 <= n => (imcu + 1) * ch <= n * ch
    BY <1>1, <1>9, <2>1, Multiples
  <2>3. n * ch \in Int /\ (imcu + 1) * ch \in Int /\ n * ch <= r
    BY <1>1, <1>8, <1>9, <2>1 DEF n
  <2> QED BY <1>2, <1>9, <2>1, <2>2, <2>3 DEF n
<1>12. imcu \in Rows /\ imcu \in Kept
  <2>1. imcu \in 0 .. T - 1 /\ imcu \in 0 .. k - 1
        /\ imcu >= k - (IF need_context_rows_ THEN 3 ELSE 1)
    BY <1>1, <1>9, <1>10, <1>11 DEF x, context
  <2> QED BY <2>1 DEF Rows, Kept, T, k
<1>13. imcu < T - 1 \/ r < W
  BY <1>1, <1>4, <1>9, <1>10
<1>14. r \in RowsOf(c, imcu)
  BY <1>2, <1>9, <1>12, <1>13, RowIsIn DEF ch, W, T
<1> QED BY <1>12, <1>14

LEMMA SameSlot ==
  ASSUME NEW r \in Nat, NEW t \in Nat, NEW n \in Nat \ {0},
         r % n = t % n, r <= t, t < r + n
  PROVE  r = t
<1> DEFINE a == r \div n
           b == t \div n
           z == r % n
<1>1. a \in Nat /\ b \in Nat /\ z \in 0 .. n - 1 /\ r = n * a + z /\ t = n * b + z
  OBVIOUS
<1> HIDE DEF a, b, z
<1>2. ~(b >= a + 1)
  <2> SUFFICES ASSUME b >= a + 1 PROVE FALSE
    OBVIOUS
  <2>1. (a + 1) * n <= b * n
    BY <1>1, Multiples
  <2>2. (a + 1) * n = n * a + n /\ b * n = n * b /\ n * a \in Nat /\ n * b \in Nat
    BY <1>1
  <2> QED BY <1>1, <2>1, <2>2
<1>3. ~(a >= b + 1)
  <2> SUFFICES ASSUME a >= b + 1 PROVE FALSE
    OBVIOUS
  <2>1. (b + 1) * n <= a * n
    BY <1>1, Multiples
  <2>2. (b + 1) * n = n * b + n /\ a * n = n * a /\ n * a \in Nat /\ n * b \in Nat
    BY <1>1
  <2> QED BY <1>1, <2>1, <2>2
<1> QED BY <1>1, <1>2, <1>3

LEMMA RingSizes ==
  ASSUME NEW c \in Components
  PROVE  /\ RingSize(c) \in Nat \ {0} /\ cheight(c) \in Nat \ {0}
         /\ RingSize(c) = IF need_context_rows_ THEN 3 * cheight(c) ELSE cheight(c)
BY Factors DEF RingSize

\* Rendering an iMCU row fills its rows of the ring, and none of the rows that
\* the next lines still need.
LEMMA RingStep ==
  ASSUME output_iMCU_row \in Rows, DecodeCurrentiMCURow,
         UNCHANGED <<decoded, output_scan_number>>,
         coef_arrays[Slot(output_iMCU_row)] = Of(output_iMCU_row), RingInv
  PROVE  RingInv'
<1> DEFINE k == output_iMCU_row
<1>1. k \in Nat /\ output_iMCU_row' = k + 1 /\ total_iMCU_rows \in Nat
  BY Heights DEF DecodeCurrentiMCURow, Rows
<1> SUFFICES ASSUME NEW c \in Components, NEW imcu \in Kept', NEW r \in RowsOf(c, imcu)
             PROVE  /\ RenderedRow(c, r)'.row = r
                    /\ RenderedRow(c, r)'.coefs \subseteq Of(imcu)
                    /\ {d \in Of(imcu) : d[1] <= output_scan_number}
                         \subseteq RenderedRow(c, r)'.coefs
  BY DEF RingInv, Of
<1> DEFINE R == RingSize(c)
           ch == cheight(c)
           i == r % R
           rows == {t \in RowsOf(c, k) : t % R = i}
<1>2. R \in Nat \ {0} /\ ch \in Nat \ {0} /\ R >= ch
      /\ R = IF need_context_rows_ THEN 3 * ch ELSE ch
  BY RingSizes
<1>3. imcu \in 0 .. k /\ imcu >= k + 1 - (IF need_context_rows_ THEN 3 ELSE 1)
      /\ imcu \in Rows
  <2>1. imcu \in 0 .. (k + 1) - 1 /\ imcu >= k + 1 - (IF need_context_rows_ THEN 3 ELSE 1)
    BY <1>1 DEF Kept
  <2> QED BY <1>1, <2>1 DEF Rows
<1>4. r \in Nat /\ imcu * ch <= r /\ r < (imcu + 1) * ch
  BY <1>3, RowsOfOne
<1>5. \A t \in RowsOf(c, k) : t \in Nat /\ k * ch <= t /\ t < (k + 1) * ch
  BY RowsOfOne
<1>6. i \in 0 .. R - 1
  BY <1>2, <1>4
<1>7. RenderedRow(c, r)' = IF rows = {} THEN raw_output_[c][i]
                           ELSE [row |-> Max(rows), coefs |-> coef_arrays[Slot(k)]]
  <2> HIDE DEF i
  <2> QED BY <1>6 DEF RenderedRow, DecodeCurrentiMCURow, i
<1>8. CASE imcu = k
  <2>1. rows = {r}
    <3>1. ASSUME NEW t \in RowsOf(c, k), t % R = i
          PROVE  t = r
      <4>1. t \in Nat /\ k * ch <= t /\ t < (k + 1) * ch
        BY <1>5, <3>1
      <4>2. (k + 1) * ch = k * ch + ch /\ k * ch \in Nat
        BY <1>1, <1>2
      <4>3. t < r + R /\ r < t + R
        BY <1>2, <1>4, <1>8, <4>1, <4>2
      <4>4. CASE t <= r
        BY <1>2, <1>4, <3>1, <4>1, <4>3, <4>4, SameSlot
      <4>5. CASE r <= t
        BY <1>2, <1>4, <3>1, <4>1, <4>3, <4>5, SameSlot
      <4> QED BY <1>4, <4>1, <4>4, <4>5
    <3>2. r \in rows
      BY <1>8
    <3> HIDE DEF i, R
    <3> QED BY <3>1, <3>2
  <2>2. Max({r}) = r
    BY <1>4, MaxOfOne
  <2>3. RenderedRow(c, r)' = [row |-> r, coefs |-> Of(imcu)]
    <3> HIDE DEF rows
    <3>1. rows # {}
      BY <2>1
    <3> QED BY <1>7, <1>8, <2>1, <2>2, <3>1
  <2> QED BY <2>3
<1>9. CASE imcu # k
  <2>1. imcu < k /\ need_context_rows_ /\ imcu >= k - 2
    BY <1>1, <1>3, <1>9
  <2>2. rows = {}
    <3> SUFFICES ASSUME NEW t \in RowsOf(c, k), t % R = i
                 PROVE  FALSE
      OBVIOUS
    <3>1. t \in Nat /\ k * ch <= t /\ t < (k + 1) * ch
      BY <1>5
    <3>2. (imcu + 1) * ch <= k * ch
      BY <1>1, <1>2, <1>3, <2>1, Multiples
    <3>3. (k - 2) * ch <= imcu * ch
      BY <1>1, <1>2, <1>3, <2>1, Multiples
    <3>4. (k - 2) * ch = k * ch - 2 * ch /\ (k + 1) * ch = k * ch + ch /\ k * ch \in Nat
          /\ imcu * ch \in Nat /\ (imcu + 1) * ch \in Nat
      BY <1>1, <1>2, <1>3
    <3>5. r < t /\ t < r + 3 * ch
      BY <1>2, <1>4, <3>1, <3>2, <3>3, <3>4
    <3>6. r = t
      BY <1>2, <1>4, <2>1, <3>1, <3>5, SameSlot
    <3> QED BY <1>4, <3>5, <3>6
  <2>3. imcu \in Kept
    BY <1>1, <1>3, <2>1 DEF Kept
  <2>4. RenderedRow(c, r)' = RenderedRow(c, r)
    <3> HIDE DEF rows
    <3> QED BY <1>7, <2>2 DEF RenderedRow
  <2> QED BY <2>3, <2>4 DEF RingInv
<1> QED BY <1>8, <1>9

-----------------------------------------------------------------------------
(* The invariant: one lemma per action.                                    *)

LEMMA RingKept ==
  ASSUME RingInv, UNCHANGED <<raw_output_, decoded, output_scan_number, output_iMCU_row>>
  PROVE  RingInv'
BY DEF RingInv, Kept, RenderedRow, Of

LEMMA LookedKept ==
  ASSUME LookedInv, UNCHANGED <<inputVars, output_scan_number, output_iMCU_row, looked>>
  PROVE  LookedInv'
BY DEF LookedInv, Passed, inputVars

\* Steps that only enter or leave a call.
LEMMA QuietStep ==
  ASSUME OutputInv,
         UNCHANGED <<params, inputVars, streaming_mode_, coef_arrays, decoded, outputVars>>,
         \A st \in {"header", "start", "reading"} : stage' = st => stage = st,
         stage = "done" => stage' = "done",
         pc' = "output_pass" => pc = "output_pass",
         CallInv', LinesInv'
  PROVE  OutputInv'
<1> USE DEF OutputInv, inputVars, outputVars
<1>1. ProgressInv'
  BY DEF ProgressInv
<1>2. LookedInv'
  BY LookedKept
<1>3. CoefInv'
  BY DEF CoefInv, StreamingInv, StreamingMode, Of
<1>4. RingInv'
  BY RingKept
<1>5. LineStartInv'
  BY DEF LineStartInv
<1> QED BY <1>1, <1>2, <1>3, <1>4, <1>5

LEMMA QuietActions ==
  ASSUME OutputInv,
         \/ Suspend \/ ReadScanlines \/ ReadScanlinesEnd \/ ReadRawData \/ FinishOutput
         \/ FinishOutputEnd \/ CallConsumeInput \/ FinishDecompress \/ Done
         \/ UNCHANGED vars
  PROVE  OutputInv'
<1> USE DEF OutputInv
<1>1. CASE Suspend
  <2>1. CallInv'
    BY <1>1 DEF Suspend, CallInv, inputVars
  <2>2. LinesInv'
    <3>1. CASE pc = "read_scanlines"
      <4>1. received' = received + num_output_rows /\ pc' = "app"
            /\ UNCHANGED <<output_scanline, max_lines, num_output_rows, params, stage>>
        BY <1>1, <3>1 DEF Suspend, outputVars
      <4>2. received' \in Nat
        BY <4>1 DEF LinesInv
      <4> QED BY <3>1, <4>1, <4>2 DEF LinesInv
    <3>2. CASE pc # "read_scanlines"
      <4>1. received' = received /\ pc' = "app"
            /\ UNCHANGED <<output_scanline, max_lines, num_output_rows, params, stage>>
        BY <1>1, <3>2 DEF Suspend, outputVars
      <4> QED BY <3>2, <4>1 DEF LinesInv
    <3> QED BY <3>1, <3>2
  <2> QED BY <1>1, <2>1, <2>2, QuietStep DEF Suspend, CallInv, WantsInput
<1>2. CASE ReadScanlines
  <2>1. CallInv'
    BY <1>2 DEF ReadScanlines, CallInv, inputVars
  <2>2. LinesInv'
    <3>1. \A n \in LineCounts : Request(n) \in Nat
      <4> SUFFICES ASSUME NEW n \in LineCounts PROVE Request(n) \in Nat
        OBVIOUS
      <4>1. n \in Nat /\ output_height - output_scanline \in Nat
        <5>1. n \in Nat
          BY Bounds
        <5>2. output_height \in Nat /\ output_scanline \in Nat
              /\ output_scanline < output_height
          BY <1>2, Heights DEF ReadScanlines, LinesInv
        <5> QED BY <5>1, <5>2
      <4> HIDE DEF OutputInv
      <4> QED BY <4>1, MinOfTwo DEF Request
    <3>2. max_lines' \in Nat /\ num_output_rows' \in Nat
      BY <1>2, <3>1 DEF ReadScanlines, LinesInv
    <3> QED BY <1>2, <3>2 DEF ReadScanlines, LinesInv, CallInv, outputVars
  <2> QED BY <1>2, <2>1, <2>2, QuietStep DEF ReadScanlines
<1>3. CASE ReadScanlinesEnd
  <2>1. CallInv'
    BY <1>3 DEF ReadScanlinesEnd, CallInv, inputVars
  <2>2. LinesInv'
    BY <1>3 DEF ReadScanlinesEnd, LinesInv, CallInv, outputVars
  <2> QED BY <1>3, <2>1, <2>2, QuietStep DEF ReadScanlinesEnd
<1>4. CASE ReadRawData
  <2>1. CallInv'
    BY <1>4 DEF ReadRawData, CallInv, inputVars
  <2>2. LinesInv'
    BY <1>4 DEF ReadRawData, LinesInv, CallInv, outputVars
  <2> QED BY <1>4, <2>1, <2>2, QuietStep DEF ReadRawData
<1>5. CASE FinishOutput
  <2>1. CallInv'
    BY <1>5 DEF FinishOutput, CallInv, inputVars
  <2>2. LinesInv'
    BY <1>5 DEF FinishOutput, LinesInv, CallInv, outputVars
  <2> QED BY <1>5, <2>1, <2>2, QuietStep DEF FinishOutput
<1>6. CASE FinishOutputEnd
  <2>1. CallInv'
    BY <1>6 DEF FinishOutputEnd, CallInv, inputVars
  <2>2. LinesInv'
    BY <1>6 DEF FinishOutputEnd, LinesInv, CallInv, outputVars
  <2> QED BY <1>6, <2>1, <2>2, QuietStep DEF FinishOutputEnd, CallInv
<1>7. CASE CallConsumeInput
  <2>1. CallInv'
    BY <1>7 DEF CallConsumeInput, CallInv, inputVars
  <2>2. LinesInv'
    BY <1>7 DEF CallConsumeInput, LinesInv, CallInv, outputVars
  <2> QED BY <1>7, <2>1, <2>2, QuietStep DEF CallConsumeInput
<1>8. CASE FinishDecompress
  <2>1. CallInv'
    BY <1>8 DEF FinishDecompress, CallInv, inputVars
  <2>2. LinesInv'
    BY <1>8 DEF FinishDecompress, LinesInv, CallInv, outputVars
  <2> QED BY <1>8, <2>1, <2>2, QuietStep DEF FinishDecompress
<1>9. CASE UNCHANGED vars
  <2>1. CallInv' /\ LinesInv'
    BY <1>9 DEF CallInv, LinesInv, vars, callVars, inputVars, outputVars
  <2> QED BY <1>9, <2>1, QuietStep DEF vars, callVars
<1> QED BY <1>1, <1>2, <1>3, <1>4, <1>5, <1>6, <1>7, <1>8, <1>9 DEF Done

LEMMA InitInv == Init => OutputInv
<1> SUFFICES ASSUME Init PROVE OutputInv
  OBVIOUS
<1> USE DEF Init, Input!Init
<1>1. CallInv
  BY DEF CallInv
<1>2. ProgressInv
  BY Heights DEF ProgressInv
<1>3. LinesInv
  BY DEF LinesInv
<1>4. LookedInv
  BY DEF LookedInv
<1>5. CoefInv
  BY DEF CoefInv, Of
<1>6. RingInv
  BY DEF RingInv, Kept
<1>7. LineStartInv
  BY DEF LineStartInv
<1> QED BY <1>1, <1>2, <1>3, <1>4, <1>5, <1>6, <1>7 DEF OutputInv

LEMMA WantsInputPc ==
  ASSUME WantsInput
  PROVE  pc \in {"read_header", "consume_input", "start_decompress", "read_scanlines",
                 "output_pass", "read_raw_data", "read_coefficients",
                 "finish_decompress", "finish_output"}
BY DEF WantsInput

\* What decoding a row of a scan, or a part of it, does.
LEMMA DecodeScanStep ==
  ASSUME ProgressInv, DecodeScan
  PROVE  /\ global_state = "kDecProcessScan" /\ input_iMCU_row \in Rows
         /\ UNCHANGED <<input_scan_number, found_eoi_>>
         /\ input_iMCU_row' \in 0 .. total_iMCU_rows
         /\ input_iMCU_row' >= input_iMCU_row
         /\ \/ global_state' = "kDecProcessScan" /\ input_iMCU_row' < total_iMCU_rows
            \/ global_state' = "kDecProcessMarkers"
         /\ \E new \in SUBSET {<<input_scan_number, input_iMCU_row>>} : AddCoefs(new)
<1> USE DEF ProgressInv
<1>1. total_iMCU_rows \in Nat
  BY Heights
<1>2. CASE Input!RowCompleted /\ AddCoefs({<<input_scan_number, ScanRowOf>>})
  BY <1>1, <1>2 DEF Input!RowCompleted, ScanRowOf, Rows
<1>3. CASE Input!ScanCompleted /\ AddCoefs({<<input_scan_number, ScanRowOf>>})
  BY <1>1, <1>3 DEF Input!ScanCompleted, ScanRowOf, Rows
<1>4. CASE /\ Input!IncompleteScan
           /\ \E part \in {{}, {<<input_scan_number, ScanRowOf>>}} : AddCoefs(part)
  BY <1>1, <1>4 DEF Input!IncompleteScan, ScanRowOf, Rows
<1> QED BY <1>2, <1>3, <1>4 DEF DecodeScan

LEMMA DecodeScanPreserves ==
  ASSUME OutputInv, ConsumeInput, DecodeScan
  PROVE  OutputInv'
<1> USE DEF OutputInv
<1> DEFINE x == <<input_scan_number, input_iMCU_row>>
<1>1. PICK new \in SUBSET {x} : AddCoefs(new)
  BY DecodeScanStep
<1>2. /\ global_state = "kDecProcessScan" /\ input_iMCU_row \in Rows
      /\ UNCHANGED <<input_scan_number, found_eoi_>>
      /\ input_iMCU_row' \in 0 .. total_iMCU_rows
      /\ input_iMCU_row' >= input_iMCU_row
      /\ \/ global_state' = "kDecProcessScan" /\ input_iMCU_row' < total_iMCU_rows
         \/ global_state' = "kDecProcessMarkers"
  BY DecodeScanStep
<1>3. pc # "app" /\ pc # "read_header" /\ ~found_eoi_ /\ stage # "header" /\ stage # "done"
  BY <1>2, WantsInputPc DEF ConsumeInput, CallInv, ProgressInv
<1>4. /\ pc' = IF pc = "consume_input" THEN "app" ELSE pc
      /\ stage' = stage
      /\ UNCHANGED <<params, streaming_mode_, outputVars, max_lines, num_output_rows,
                     received>>
  BY <1>3 DEF ConsumeInput
<1>5. UNCHANGED <<output_scan_number, output_iMCU_row, output_scanline, raw_output_,
                  looked>>
  BY <1>4 DEF outputVars
<1>6. /\ decoded' = decoded \cup new
      /\ coef_arrays' = [coef_arrays EXCEPT ![Slot(input_iMCU_row)] = @ \cup new]
  BY <1>1 DEF AddCoefs
<1>7. CallInv'
  BY <1>2, <1>3, <1>4 DEF CallInv
<1>8. ProgressInv'
  BY <1>2, <1>3, <1>4, <1>5 DEF ProgressInv
<1>9. LinesInv'
  BY <1>3, <1>4, <1>5 DEF LinesInv, CallInv
<1>10. LookedInv'
  <2>1. \A r \in looked : Passed(r)'
    <3> SUFFICES ASSUME NEW r \in looked PROVE Passed(r)'
      OBVIOUS
    <3>1. Passed(r) /\ r \in Int
      BY DEF LookedInv, Rows
    <3>2. input_iMCU_row \in Int /\ input_iMCU_row' \in Int
      BY <1>2 DEF Rows
    <3> QED BY <1>2, <1>5, <3>1, <3>2 DEF Passed
  <2> QED BY <1>5, <2>1 DEF LookedInv
<1>11. x \in Nat \X Rows /\ x[2] = input_iMCU_row /\ x[1] = input_scan_number
  BY <1>2 DEF ProgressInv
<1>12. CoefInv'
  <2>1. decoded' \subseteq Nat \X Rows /\ DOMAIN coef_arrays' = Rows
        /\ streaming_mode_' \in BOOLEAN
    BY <1>4, <1>6, <1>11 DEF CoefInv
  <2>2. ASSUME streaming_mode_
        PROVE  StreamingInv'
    <3>1. StreamingInv
      BY <2>2 DEF CoefInv
    <3>2. input_iMCU_row = output_iMCU_row
      <4>1. ~InputIsAhead
        BY DEF ConsumeInput
      <4>2. input_iMCU_row >= output_iMCU_row /\ input_iMCU_row <= output_iMCU_row
        BY <1>2, <2>2, <3>1, <4>1 DEF InputIsAhead, StreamingInv, ProgressInv
      <4> QED BY <4>2 DEF ProgressInv
    <3>3. coef_arrays'[0] = coef_arrays[0] \cup new
      BY <1>6, <2>2, Heights DEF Slot, CoefInv, Rows
    <3>4. Of(output_iMCU_row)' = Of(output_iMCU_row) \cup new
      BY <1>5, <1>6, <1>11, <3>2 DEF Of
    <3>5. \A d \in decoded' : d[2] <= output_iMCU_row'
      BY <1>5, <1>6, <1>11, <3>1, <3>2 DEF StreamingInv, ProgressInv
    <3>6. global_state' = "kDecProcessScan" => input_iMCU_row' >= output_iMCU_row'
      BY <1>2, <1>5, <3>2
    <3> QED BY <1>2, <1>4, <1>5, <3>1, <3>3, <3>4, <3>5, <3>6 DEF StreamingInv, StreamingMode
  <2>3. ASSUME ~streaming_mode_, NEW row \in Rows
        PROVE  coef_arrays'[row] = Of(row)'
    <3>1. coef_arrays[row] = Of(row) /\ DOMAIN coef_arrays = Rows
      BY <2>3 DEF CoefInv
    <3>2. Slot(input_iMCU_row) = input_iMCU_row
      BY <2>3 DEF Slot
    <3>3. CASE row = input_iMCU_row
      <4>1. coef_arrays'[row] = coef_arrays[row] \cup new
        BY <1>2, <1>6, <3>1, <3>2, <3>3
      <4>2. Of(row)' = Of(row) \cup new
        BY <1>6, <1>11, <3>3 DEF Of
      <4> QED BY <3>1, <4>1, <4>2
    <3>4. CASE row # input_iMCU_row
      <4>1. coef_arrays'[row] = coef_arrays[row]
        BY <1>6, <3>1, <3>2, <3>4
      <4>2. Of(row)' = Of(row)
        BY <1>6, <1>11, <3>4 DEF Of
      <4> QED BY <3>1, <4>1, <4>2
    <3> QED BY <3>3, <3>4
  <2> QED BY <1>4, <2>1, <2>2, <2>3 DEF CoefInv
<1>13. RingInv'
  <2> SUFFICES ASSUME NEW c \in Components, NEW imcu \in Kept, NEW r \in RowsOf(c, imcu)
               PROVE  /\ RenderedRow(c, r).row = r
                      /\ RenderedRow(c, r).coefs \subseteq Of(imcu)'
                      /\ {d \in Of(imcu)' : d[1] <= output_scan_number}
                           \subseteq RenderedRow(c, r).coefs
    BY <1>5 DEF RingInv, Kept, RenderedRow, Of
  <2>1. imcu \in looked /\ Passed(imcu)
    BY DEF LookedInv, Kept
  <2>2. ASSUME x \in new, x[2] = imcu
        PROVE  x[1] > output_scan_number
    BY <1>3, <1>11, <2>1, <2>2 DEF Passed, ProgressInv
  <2>3. Of(imcu) \subseteq Of(imcu)'
    BY <1>6 DEF Of
  <2>4. ASSUME NEW d \in Of(imcu)', d[1] <= output_scan_number
        PROVE  d \in Of(imcu)
    <3>1. d \in decoded \/ d = x
      BY <1>6 DEF Of
    <3>2. CASE d \in decoded
      BY <3>2 DEF Of
    <3>3. CASE d \notin decoded
      <4>1. d = x /\ x \in new /\ x[2] = imcu
        BY <1>6, <3>1, <3>3 DEF Of
      <4> QED BY <1>11, <2>2, <2>4, <4>1 DEF ProgressInv
    <3> QED BY <3>2, <3>3
  <2> HIDE DEF OutputInv
  <2>5. RingInv
    BY DEF OutputInv
  <2> QED BY <2>3, <2>4, <2>5 DEF RingInv
<1>14. LineStartInv'
  BY <1>3, <1>4, <1>5 DEF LineStartInv
<1>15. params' \in Modes
  BY <1>4
<1> QED BY <1>7, <1>8, <1>9, <1>10, <1>12, <1>13, <1>14, <1>15

LEMMA ParseMarkersPreserves ==
  ASSUME OutputInv, ConsumeInput, ParseMarkers
  PROVE  OutputInv'
<1> USE DEF OutputInv
<1>1. pc # "app" /\ stage # "done"
  BY WantsInputPc DEF ConsumeInput, CallInv
<1>2. /\ UNCHANGED <<params, streaming_mode_, max_lines, num_output_rows, received,
                     coef_arrays, decoded, output_scan_number, output_iMCU_row,
                     output_scanline, raw_output_, looked>>
      /\ pc' = IF pc \in {"read_header", "consume_input"} THEN "app" ELSE pc
      /\ stage' = IF pc = "read_header" THEN "start" ELSE stage
  BY DEF ConsumeInput, ParseMarkers, outputVars
<1>3. \/ Input!HeaderDone
      \/ /\ global_state = "kDecProcessMarkers" /\ params.is_multiscan_
         /\ Input!PrepareForScan
      \/ global_state = "kDecProcessMarkers" /\ Input!ReachedEOI
  BY DEF ParseMarkers
<1>4. stage = "header" => pc = "read_header"
  BY WantsInputPc DEF ConsumeInput, CallInv
<1>5. CallInv'
  BY <1>1, <1>2, <1>3, <1>4
     DEF CallInv, Input!HeaderDone, Input!PrepareForScan, Input!ReachedEOI
<1>6. ProgressInv'
  <2>1. CASE Input!HeaderDone
    BY <1>1, <1>2, <1>4, <2>1 DEF CallInv, ProgressInv, Input!HeaderDone
  <2>2. CASE /\ global_state = "kDecProcessMarkers" /\ Input!PrepareForScan
    <3>1. stage # "header" /\ stage' = stage
      BY <1>2, <1>4, <2>2 DEF CallInv
    <3>2. 0 \in 0 .. total_iMCU_rows /\ 0 < total_iMCU_rows
      BY Heights
    <3> QED BY <1>2, <2>2, <3>1, <3>2 DEF ProgressInv, Input!PrepareForScan
  <2>3. CASE global_state = "kDecProcessMarkers" /\ Input!ReachedEOI
    <3>1. stage # "header" /\ stage' = stage
      BY <1>2, <1>4, <2>3 DEF CallInv
    <3> QED BY <1>2, <2>3, <3>1 DEF ProgressInv, Input!ReachedEOI
  <2> QED BY <1>3, <2>1, <2>2, <2>3
<1>7. LinesInv'
  BY <1>2 DEF LinesInv, CallInv
<1>8. LookedInv'
  <2>1. \A r \in looked : Passed(r)'
    BY <1>1, <1>2, <1>3
       DEF LookedInv, Passed, ProgressInv, Input!HeaderDone, Input!PrepareForScan,
           Input!ReachedEOI
  <2> QED BY <1>2, <2>1 DEF LookedInv
<1>9. CoefInv'
  <2>1. ASSUME streaming_mode_
        PROVE  StreamingInv'
    <3>1. StreamingInv
      BY <2>1 DEF CoefInv
    <3>2. ~params.is_multiscan_ /\ pc # "read_header"
      BY <3>1 DEF StreamingInv, StreamingMode, CallInv
    <3>3. UNCHANGED <<input_scan_number, input_iMCU_row>>
          /\ global_state' # "kDecProcessScan"
      BY <1>3, <3>2 DEF Input!HeaderDone, Input!ReachedEOI
    <3>4. stage' = stage
      BY <1>2, <3>2
    <3> QED BY <1>2, <3>1, <3>3, <3>4 DEF StreamingInv, StreamingMode, Of
  <2>2. ~streaming_mode_ => (\A row \in Rows : coef_arrays[row] = Of(row))'
    BY <1>2 DEF CoefInv, Of
  <2> QED BY <1>2, <2>1, <2>2 DEF CoefInv
<1>10. RingInv'
  BY <1>2, RingKept
<1>11. LineStartInv'
  BY <1>2 DEF LineStartInv
<1> QED BY <1>2, <1>5, <1>6, <1>7, <1>8, <1>9, <1>10, <1>11

LEMMA ReadHeaderPreserves ==
  ASSUME OutputInv, ReadHeader
  PROVE  OutputInv'
<1> USE DEF OutputInv, ReadHeader
<1>1. /\ UNCHANGED <<params, streaming_mode_, coef_arrays, decoded, output_scan_number,
                     output_iMCU_row, output_scanline, raw_output_, looked, stage,
                     max_lines, num_output_rows, received>>
      /\ pc' = "read_header" /\ stage = "header"
      /\ global_state' = "kDecInHeader" /\ input_scan_number' \in Nat
      /\ input_iMCU_row' \in 0 .. total_iMCU_rows /\ ~found_eoi_'
  <2>1. total_iMCU_rows \in Nat
    BY Heights
  <2> QED BY <2>1 DEF outputVars, inputVars, Input!InitializeImage, CallInv, ProgressInv
<1>2. looked = {} /\ output_iMCU_row = 0 /\ ~streaming_mode_
  BY <1>1 DEF ProgressInv, CoefInv, StreamingInv
<1>3. CallInv'
  BY <1>1 DEF CallInv
<1>4. ProgressInv'
  BY <1>1 DEF ProgressInv
<1>5. LinesInv'
  BY <1>1 DEF LinesInv
<1>6. LookedInv'
  BY <1>1, <1>2 DEF LookedInv
<1>7. CoefInv'
  BY <1>1, <1>2 DEF CoefInv, Of
<1>8. RingInv'
  BY <1>1, RingKept
<1>9. LineStartInv'
  BY <1>1 DEF LineStartInv
<1> QED BY <1>1, <1>3, <1>4, <1>5, <1>6, <1>7, <1>8, <1>9

\* The first scan begins: nothing has been decoded, shown or rendered.
LEMMA FirstScan ==
  ASSUME OutputInv, global_state = "kDecHeaderDone", Input!PrepareForScan,
         coef_arrays' = [r \in Rows |-> {}], UNCHANGED <<decoded, output_iMCU_row, looked>>
  PROVE  /\ global_state' = "kDecProcessScan" /\ input_iMCU_row' = 0 /\ ~found_eoi_'
         /\ input_scan_number' \in Nat /\ 0 \in Rows /\ 0 < total_iMCU_rows
         /\ output_iMCU_row' = 0 /\ looked' = {} /\ decoded' = {}
         /\ DOMAIN coef_arrays' = Rows /\ \A row \in Rows : coef_arrays'[row] = Of(row)'
         /\ LookedInv' /\ RingInv'
<1> USE DEF OutputInv
<1>1. /\ global_state' = "kDecProcessScan" /\ input_iMCU_row' = 0 /\ ~found_eoi_'
      /\ input_scan_number' \in Nat /\ 0 \in Rows /\ 0 < total_iMCU_rows
  BY Heights DEF Input!PrepareForScan, ProgressInv, Rows
<1>2. output_iMCU_row' = 0 /\ looked' = {} /\ decoded' = {}
  BY DEF ProgressInv
<1>3. LookedInv'
  BY <1>2 DEF LookedInv
<1>4. RingInv'
  BY <1>2 DEF RingInv, Kept
<1> QED BY <1>1, <1>2, <1>3, <1>4 DEF Of

LEMMA StartDecompressPreserves ==
  ASSUME OutputInv, StartDecompress
  PROVE  OutputInv'
<1> USE DEF OutputInv
<1>1. /\ UNCHANGED <<params, decoded, output_iMCU_row, output_scanline, looked, max_lines,
                     num_output_rows, received>>
      /\ pc = "app" /\ stage = "start" /\ params.api # "coefficients"
  BY DEF StartDecompress
<1>2. ASSUME global_state = "kDecHeaderDone"
      PROVE  OutputInv'
  <2>1. /\ streaming_mode_' = StreamingMode
        /\ coef_arrays' = [r \in Rows |-> {}]
        /\ Input!PrepareForScan
        /\ output_scan_number' = 0
        /\ pc' = IF params.buffered_image THEN "app" ELSE "start_decompress"
        /\ stage' = IF params.buffered_image THEN "between passes" ELSE stage
    BY <1>2 DEF StartDecompress, UnexpectedState
  <2>2. /\ global_state' = "kDecProcessScan" /\ input_iMCU_row' = 0 /\ ~found_eoi_'
        /\ input_scan_number' \in Nat /\ 0 \in Rows /\ 0 < total_iMCU_rows
        /\ output_iMCU_row' = 0 /\ looked' = {} /\ decoded' = {}
        /\ DOMAIN coef_arrays' = Rows /\ \A row \in Rows : coef_arrays'[row] = Of(row)'
        /\ LookedInv' /\ RingInv'
    BY <1>1, <1>2, <2>1, FirstScan
  <2>3. CallInv'
    BY <1>1, <2>1, <2>2 DEF CallInv
  <2>4. ProgressInv'
    BY <1>1, <2>1, <2>2, Heights DEF ProgressInv
  <2>5. LinesInv'
    BY <1>1, <2>1 DEF LinesInv
  <2>6. CoefInv'
    <3>1. StreamingMode' = StreamingMode /\ StreamingMode \in BOOLEAN
      BY <1>1 DEF StreamingMode
    <3>2. ASSUME streaming_mode_'
          PROVE  StreamingInv'
      <4>1. StreamingMode' /\ ~params.buffered_image
        BY <2>1, <3>1, <3>2 DEF StreamingMode
      <4> QED BY <1>1, <2>1, <2>2, <4>1 DEF StreamingInv
    <3> QED BY <2>1, <2>2, <3>1, <3>2 DEF CoefInv
  <2>7. LineStartInv'
    BY <1>1, <2>1 DEF LineStartInv
  <2> QED BY <1>1, <2>2, <2>3, <2>4, <2>5, <2>6, <2>7
<1>3. ASSUME global_state # "kDecHeaderDone"
      PROVE  OutputInv'
  <2>1. /\ pc' \in {"error", "start_decompress"}
        /\ UNCHANGED <<inputVars, streaming_mode_, coef_arrays, output_scan_number,
                       raw_output_, stage>>
    BY <1>3 DEF StartDecompress
  <2>2. CallInv'
    BY <1>1, <1>3, <2>1 DEF CallInv, inputVars
  <2>3. LinesInv'
    BY <1>1, <2>1 DEF LinesInv
  <2> QED BY <1>1, <2>1, <2>2, <2>3, QuietStep DEF outputVars
<1> QED BY <1>2, <1>3

\* An output pass begins.
BeforePass == /\ stage \in {"start", "between passes"}
              /\ global_state \notin {"kDecInHeader", "kDecHeaderDone"}

LEMMA PassBegins ==
  ASSUME OutputInv, PrepareForOutput, output_scan_number' \in Nat,
         UNCHANGED <<params, inputVars, streaming_mode_, coef_arrays, decoded>>,
         BeforePass,
         streaming_mode_ => stage = "start" /\ output_scan_number' = input_scan_number
  PROVE  OutputInv'
<1> USE DEF OutputInv
<1>1. /\ output_iMCU_row' = 0 /\ output_scanline' = 0 /\ looked' = {} /\ received' = 0
      /\ pc' = IF params.two_pass THEN "output_pass" ELSE "app"
      /\ stage' = IF params.two_pass THEN stage ELSE "reading"
      /\ num_output_rows' \in Nat /\ max_lines' \in Nat
  BY Heights DEF PrepareForOutput, LinesInv
<1>2. CallInv'
  BY <1>1 DEF CallInv, inputVars, BeforePass
<1>3. ProgressInv'
  <2>1. stage # "done" /\ stage' # "header"
    <3> HIDE DEF OutputInv
    <3> QED BY <1>1, Zenon DEF BeforePass
  <2>2. 0 \in 0 .. total_iMCU_rows
    BY Heights
  <2> QED BY <1>1, <2>1, <2>2 DEF ProgressInv, inputVars
<1>4. LinesInv'
  BY <1>1 DEF LinesInv
<1>5. LookedInv'
  BY <1>1 DEF LookedInv
<1>6. CoefInv'
  <2>1. ASSUME streaming_mode_
        PROVE  StreamingInv'
    <3>1. StreamingInv /\ output_iMCU_row = 0
      BY <2>1 DEF CoefInv, StreamingInv
    <3>2. ~params.two_pass /\ stage' = "reading"
      BY <1>1, <3>1 DEF StreamingInv, StreamingMode
    <3> QED BY <1>1, <2>1, <3>1, <3>2 DEF StreamingInv, StreamingMode, Of, inputVars
  <2>2. ~streaming_mode_ => (\A row \in Rows : coef_arrays[row] = Of(row))'
    BY DEF CoefInv, Of
  <2> QED BY <2>1, <2>2 DEF CoefInv
<1>7. RingInv'
  BY <1>1 DEF RingInv, Kept
<1>8. LineStartInv'
  <2>1. context \in {0, 1} /\ imcu_height \in Nat
    <3>1. max_v_samp_factor \in Nat /\ min_scaled_dct_size \in Nat
      BY Sampling, ScaledSize
    <3> QED BY <3>1, Products DEF context, imcu_height
  <2>2. (0 - 1 - context) * imcu_height <= 0 * imcu_height
    BY <2>1, Multiples
  <2>3. 0 >= (0 - 1 - context) * imcu_height
    BY <2>1, <2>2
  <2> QED BY <1>1, <2>3 DEF LineStartInv
<1> QED BY <1>2, <1>3, <1>4, <1>5, <1>6, <1>7, <1>8

LEMMA StartDecompressEndPreserves ==
  ASSUME OutputInv, StartDecompressEnd
  PROVE  OutputInv'
BY PassBegins DEF BeforePass, StartDecompressEnd, OutputInv, CallInv, ProgressInv

LEMMA StartOutputPreserves ==
  ASSUME OutputInv, StartOutput
  PROVE  OutputInv'
<1>1. PICK scan_number \in 0 .. MaxScans + 1 :
        output_scan_number' = IF found_eoi_
                              THEN Min({Max({1, scan_number}), input_scan_number})
                              ELSE Max({1, scan_number})
  BY DEF StartOutput
<1>2. scan_number \in Nat /\ input_scan_number \in Nat
  BY Bounds DEF OutputInv, ProgressInv
<1>3. Max({1, scan_number}) \in Nat
  BY <1>2, MaxOfTwo
<1>4. Min({Max({1, scan_number}), input_scan_number}) \in Nat
  BY <1>2, <1>3, MinOfTwo
<1>5. output_scan_number' \in Nat
  BY <1>1, <1>3, <1>4
<1>6. stage = "between passes" /\ ~streaming_mode_
  BY DEF StartOutput, OutputInv, CallInv, CoefInv, StreamingInv, StreamingMode
<1>7. BeforePass
  BY <1>6 DEF BeforePass, OutputInv, CallInv
<1> QED BY <1>5, <1>6, <1>7, PassBegins DEF StartOutput

\* Lines are output.
LEMMA OutputLinesPreserves ==
  ASSUME OutputInv, OutputLines
  PROVE  OutputInv'
<1> USE DEF OutputInv
<1> DEFINE end == Max({output_scanline,
                       Min({yend, output_scanline + max_lines - num_output_rows})})
<1>1. /\ output_scanline' = end /\ num_output_rows' = num_output_rows + (end - output_scanline)
      /\ UNCHANGED <<params, inputVars, streaming_mode_, coef_arrays, decoded, raw_output_,
                     output_scan_number, output_iMCU_row, looked, pc, stage, max_lines,
                     received>>
      /\ pc = "read_scanlines" \/ pc = "output_pass"
  BY DEF OutputLines, InOutputLoop
<1>2. max_lines \in Nat /\ num_output_rows \in Nat /\ output_scanline \in Nat /\ received \in Nat
  BY DEF LinesInv
<1>3. yend \in Int /\ (output_iMCU_row - 1 - context) * imcu_height \in Int
  <2>1. output_iMCU_row \in Int /\ context \in Int /\ imcu_height \in Int
    <3>1. max_v_samp_factor \in Nat /\ min_scaled_dct_size \in Nat
      BY Sampling, ScaledSize
    <3> QED BY <3>1, Products, Heights DEF context, imcu_height, ProgressInv
  <2>2. \A a, b, d \in Int : (a - b) * d \in Int /\ (a - 1 - b) * d \in Int
    OBVIOUS
  <2>3. output_height \in Int
    BY Heights
  <2> QED BY <2>1, <2>2, <2>3 DEF yend
<1>4. end \in Nat /\ end >= output_scanline
  <2> DEFINE m == Min({yend, output_scanline + max_lines - num_output_rows})
  <2>1. m \in Int
    BY <1>2, <1>3, MinOfTwo
  <2> HIDE DEF m
  <2>2. Max({output_scanline, m}) = IF output_scanline >= m THEN output_scanline ELSE m
    BY <1>2, <2>1, MaxOfTwo
  <2> QED BY <1>2, <2>1, <2>2 DEF m
<1> HIDE DEF end
<1>5. CallInv'
  BY <1>1 DEF CallInv, inputVars
<1>6. ProgressInv'
  BY <1>1 DEF ProgressInv, inputVars
<1>7. LinesInv'
  <2>1. num_output_rows' \in Nat /\ output_scanline' \in Nat
    BY <1>1, <1>2, <1>4
  <2>2. pc = "output_pass" => stage # "reading"
    BY DEF CallInv
  <2> QED BY <1>1, <1>2, <1>4, <2>1, <2>2 DEF LinesInv
<1>8. LookedInv'
  BY <1>1, LookedKept
<1>9. CoefInv'
  BY <1>1 DEF CoefInv, StreamingInv, StreamingMode, Of, inputVars
<1>10. RingInv'
  BY <1>1, RingKept
<1>11. LineStartInv'
  <2> DEFINE n == (output_iMCU_row - 1 - context) * imcu_height
  <2>1. n' = n /\ n \in Int
    BY <1>1, <1>3
  <2> HIDE DEF n
  <2> QED BY <1>1, <1>2, <1>4, <2>1 DEF LineStartInv, n
<1> QED BY <1>1, <1>5, <1>6, <1>7, <1>8, <1>9, <1>10, <1>11

\* Rows that a pass looks at when the input is ready have been passed.
LEMMA ReadyRows ==
  ASSUME OutputInv, IsInputReady, output_iMCU_row \in Rows
  PROVE  /\ LooksAt(output_iMCU_row) \subseteq Rows
         /\ output_iMCU_row \in LooksAt(output_iMCU_row)
         /\ \A r \in LooksAt(output_iMCU_row) : Passed(r)
<1> USE DEF OutputInv
<1> DEFINE k == output_iMCU_row
<1>1. k \in Nat /\ input_iMCU_row \in Nat /\ total_iMCU_rows \in Nat /\ k < total_iMCU_rows
  BY Heights DEF Rows, ProgressInv
<1>2. CASE params.smoothing
  <2>1. LooksAt(k) = {r \in Rows : \E c \in Components :
                        r \in k .. ((k + 1) * v_samp_factor[c] + 1) \div v_samp_factor[c]}
    BY <1>2 DEF LooksAt
  <2>2. ASSUME NEW c \in Components
        PROVE  /\ ((k + 1) * v_samp_factor[c] + 1) \div v_samp_factor[c] \in Int
               /\ k <= ((k + 1) * v_samp_factor[c] + 1) \div v_samp_factor[c]
               /\ ((k + 1) * v_samp_factor[c] + 1) \div v_samp_factor[c] <= k + 2
    <3> DEFINE v == v_samp_factor[c]
    <3>1. v \in 1 .. 4
      BY Sampling
    <3> HIDE DEF v, k
    <3>2. v = 1 \/ v = 2 \/ v = 3 \/ v = 4
      BY <3>1
    <3>3. /\ ((k + 1) * v + 1) \div v \in Int /\ k <= ((k + 1) * v + 1) \div v
          /\ ((k + 1) * v + 1) \div v <= k + 2
      BY <1>1, <3>2
    <3> QED BY <3>3 DEF v
  <2>3. k \in LooksAt(k)
    BY <1>1, <2>1, <2>2, Sampling
  <2>4. ~streaming_mode_
    BY <1>2, SmoothingIsProgressive DEF CoefInv, StreamingInv, StreamingMode
  <2>5. ASSUME NEW r \in LooksAt(k)
        PROVE  Passed(r)
    <3>1. r \in Nat /\ r < total_iMCU_rows /\ r <= k + 2
      BY <1>1, <2>1, <2>2 DEF Rows
    <3> QED BY <1>1, <2>4, <3>1 DEF IsInputReady, Passed
  <2> QED BY <2>1, <2>3, <2>5
<1>3. CASE ~params.smoothing
  <2>1. LooksAt(k) = {k}
    BY <1>3 DEF LooksAt
  <2>2. Passed(k)
    BY <1>1 DEF IsInputReady, Passed
  <2> QED BY <2>1, <2>2
<1> QED BY <1>2, <1>3

\* An iMCU row is rendered: its coefficients, the ring, the rows looked at.
Rendering == /\ pc \in {"read_scanlines", "output_pass", "read_raw_data"}
             /\ stage \notin {"done", "header"}
             /\ streaming_mode_ => stage = "reading"

LEMMA RenderStep ==
  ASSUME OutputInv, IsInputReady, DecodeCurrentiMCURow,
         output_iMCU_row \in Rows, Rendering,
         UNCHANGED <<params, inputVars, streaming_mode_, decoded, output_scan_number, stage>>
  PROVE  /\ ProgressInv' /\ LookedInv' /\ CoefInv' /\ RingInv'
         /\ output_iMCU_row' = output_iMCU_row + 1
<1> USE DEF OutputInv
<1> DEFINE k == output_iMCU_row
<1>1. k \in Nat /\ total_iMCU_rows \in Nat /\ k < total_iMCU_rows /\ output_iMCU_row' = k + 1
  BY Heights DEF Rows, ProgressInv, DecodeCurrentiMCURow
<1>2. /\ LooksAt(k) \subseteq Rows /\ k \in LooksAt(k)
      /\ \A r \in LooksAt(k) : Passed(r)
  BY ReadyRows
<1>3. ProgressInv'
  <2>1. global_state # "kDecInHeader" /\ global_state # "kDecHeaderDone"
    BY DEF Rendering, CallInv
  <2>2. output_iMCU_row' \in 0 .. total_iMCU_rows
    BY <1>1
  <2> QED BY <2>1, <2>2 DEF Rendering, ProgressInv, inputVars
<1>4. LookedInv'
  <2>1. looked' = looked \cup LooksAt(k)
    BY DEF DecodeCurrentiMCURow
  <2>2. \A r : Passed(r)' = Passed(r)
    BY DEF Passed, inputVars
  <2>3. \A r \in 0 .. output_iMCU_row' - 1 : r \in 0 .. k - 1 \/ r = k
    BY <1>1
  <2> QED BY <1>2, <2>1, <2>2, <2>3 DEF LookedInv
<1>5. coef_arrays[Slot(k)] = Of(k)
  BY DEF Slot, CoefInv, StreamingInv
<1>6. RingInv'
  BY <1>5, RingStep
<1>7. CoefInv'
  <2>1. coef_arrays' = IF streaming_mode_ THEN [coef_arrays EXCEPT ![0] = {}]
                                          ELSE coef_arrays
    BY DEF DecodeCurrentiMCURow, CoefsAfterReading
  <2>2. DOMAIN coef_arrays' = Rows
    BY <2>1 DEF CoefInv
  <2>3. ASSUME streaming_mode_
        PROVE  StreamingInv'
    <3>1. StreamingInv /\ stage = "reading"
      BY <2>3 DEF CoefInv, Rendering
    <3>2. coef_arrays'[0] = {}
      BY <1>1, <2>1, <2>3 DEF CoefInv, Rows
    <3>3. \A d \in decoded : d[2] \in Int /\ d[2] <= k
      BY <1>1, <3>1 DEF StreamingInv, CoefInv, Rows
    <3>4. Of(output_iMCU_row)' = {} /\ \A d \in decoded' : d[2] <= output_iMCU_row'
      BY <1>1, <3>3 DEF Of
    <3>5. global_state = "kDecProcessScan" => input_iMCU_row >= k + 1
      <4> SUFFICES ASSUME global_state = "kDecProcessScan" PROVE input_iMCU_row >= k + 1
        OBVIOUS
      <4>1. ~found_eoi_ /\ input_scan_number = output_scan_number
            /\ input_scan_number \in Nat /\ input_iMCU_row \in Nat
        BY <1>1, <3>1 DEF ProgressInv, StreamingInv, Rendering
      <4> QED BY <1>1, <2>3, <4>1 DEF IsInputReady
    <3> QED BY <1>1, <3>1, <3>2, <3>4, <3>5
            DEF StreamingInv, StreamingMode, inputVars
  <2>4. ASSUME ~streaming_mode_
        PROVE  (\A row \in Rows : coef_arrays[row] = Of(row))'
    BY <2>1, <2>4 DEF CoefInv, Of
  <2> QED BY <2>2, <2>3, <2>4 DEF CoefInv
<1> QED BY <1>1, <1>3, <1>4, <1>6, <1>7

LEMMA DecodeRowPreserves ==
  ASSUME OutputInv, DecodeRow
  PROVE  OutputInv'
<1> USE DEF OutputInv
<1>1. /\ IsInputReady /\ ~CanOutput /\ DecodeCurrentiMCURow
      /\ UNCHANGED <<params, inputVars, streaming_mode_, decoded, output_scan_number,
                     output_scanline, callVars>>
      /\ pc \in {"read_scanlines", "output_pass"}
  BY DEF DecodeRow, InOutputLoop
<1>2. UNCHANGED <<pc, stage, max_lines, num_output_rows, received>>
  BY <1>1 DEF callVars
<1>3. output_iMCU_row \in Rows
  BY <1>1, Heights DEF CanOutput, AllDecoded, ProgressInv, Rows
<1>4. Rendering
  BY <1>1 DEF Rendering, CallInv, CoefInv, StreamingInv, StreamingMode
<1>5. /\ ProgressInv' /\ LookedInv' /\ CoefInv' /\ RingInv'
      /\ output_iMCU_row' = output_iMCU_row + 1
  BY <1>1, <1>2, <1>3, <1>4, RenderStep
<1>6. CallInv'
  BY <1>1, <1>2 DEF CallInv, inputVars
<1>7. LinesInv'
  BY <1>1, <1>2 DEF LinesInv
<1>8. LineStartInv'
  <2> DEFINE k == output_iMCU_row
             x == context
             n == imcu_height
  <2>1. k \in Nat /\ x \in {0, 1} /\ n \in Nat /\ output_scanline \in Nat
    <3>1. max_v_samp_factor \in Nat /\ min_scaled_dct_size \in Nat
      BY Sampling, ScaledSize
    <3> QED BY <3>1, Products DEF context, imcu_height, ProgressInv, LinesInv
  <2>2. k <= x \/ output_scanline >= (k - x) * n
    <3>1. (k - x) * n \in Int
      BY <2>1
    <3> QED BY <1>1, <2>1, <3>1 DEF CanOutput
  <2> DEFINE g(i) == (i - 1 - context) * imcu_height
  <2>3. output_scanline >= g(k + 1)
    <3>1. g(k + 1) = (k - x) * n
      <4>1. \A a, b, d \in Int : (a + 1 - 1 - b) * d = (a - b) * d
        OBVIOUS
      <4> HIDE DEF k, x, n
      <4> QED BY <2>1, <4>1 DEF x, n
    <3> HIDE DEF g, k, x, n
    <3>2. k <= x => (k - x) * n <= 0 * n
      BY <2>1, Multiples
    <3>3. (k - x) * n \in Int /\ 0 * n = 0
      BY <2>1
    <3> QED BY <2>1, <2>2, <3>1, <3>2, <3>3
  <2>4. output_scanline' >= g(output_iMCU_row')
    <3> HIDE DEF g
    <3> QED BY <1>1, <1>5, <2>3
  <2> QED BY <2>4 DEF LineStartInv
<1> QED BY <1>1, <1>5, <1>6, <1>7, <1>8

LEMMA ReadRawDataEndPreserves ==
  ASSUME OutputInv, ReadRawDataEnd
  PROVE  OutputInv'
<1> USE DEF OutputInv
<1>1. /\ IsInputReady /\ DecodeCurrentiMCURow /\ output_iMCU_row < total_iMCU_rows
      /\ UNCHANGED <<params, inputVars, streaming_mode_, decoded, output_scan_number,
                     stage, max_lines, num_output_rows>>
      /\ pc = "read_raw_data" /\ pc' = "app"
      /\ output_scanline' = output_scanline + max_v_samp_factor * DCTSIZE
      /\ received' = received + max_v_samp_factor * DCTSIZE
  BY DEF ReadRawDataEnd
<1>2. output_iMCU_row \in Rows
  BY <1>1, Heights DEF ProgressInv, Rows
<1>3. Rendering
  BY <1>1 DEF Rendering, CallInv
<1>4. ProgressInv' /\ LookedInv' /\ CoefInv' /\ RingInv'
  BY <1>1, <1>2, <1>3, RenderStep
<1>5. CallInv'
  BY <1>1 DEF CallInv, inputVars
<1>6. LinesInv'
  <2>1. max_v_samp_factor * DCTSIZE \in Nat
    BY Sampling DEF DCTSIZE
  <2> QED BY <1>1, <2>1 DEF LinesInv
<1>7. LineStartInv'
  BY <1>1 DEF LineStartInv, CallInv
<1> QED BY <1>1, <1>4, <1>5, <1>6, <1>7

LEMMA OutputPassEndPreserves ==
  ASSUME OutputInv, OutputPassEnd
  PROVE  OutputInv'
<1> USE DEF OutputInv
<1>1. /\ pc = "output_pass" /\ output_scanline' = 0 /\ output_iMCU_row' = 0
      /\ pc' = "app" /\ stage' = "reading"
      /\ UNCHANGED <<params, inputVars, streaming_mode_, coef_arrays, decoded,
                     output_scan_number, raw_output_, looked, max_lines,
                     num_output_rows, received>>
  BY DEF OutputPassEnd
<1>2. ~streaming_mode_
  BY <1>1 DEF CallInv, CoefInv, StreamingInv, StreamingMode
<1>3. CallInv'
  BY <1>1 DEF CallInv, inputVars
<1>4. ProgressInv'
  <2>1. 0 \in 0 .. total_iMCU_rows
    BY Heights
  <2>2. stage # "done" /\ global_state \notin {"kDecInHeader", "kDecHeaderDone"}
    BY <1>1 DEF CallInv
  <2> QED BY <1>1, <2>1, <2>2 DEF ProgressInv, inputVars
<1>5. LinesInv'
  BY <1>1 DEF LinesInv
<1>6. LookedInv'
  <2>1. \A r : Passed(r)' = Passed(r)
    BY <1>1 DEF Passed, inputVars
  <2> QED BY <1>1, <2>1 DEF LookedInv
<1>7. CoefInv'
  BY <1>1, <1>2 DEF CoefInv, Of
<1>8. RingInv'
  BY <1>1 DEF RingInv, Kept
<1>9. LineStartInv'
  <2>1. context \in {0, 1} /\ imcu_height \in Nat
    <3>1. max_v_samp_factor \in Nat /\ min_scaled_dct_size \in Nat
      BY Sampling, ScaledSize
    <3> QED BY <3>1, Products DEF context, imcu_height
  <2>2. (0 - 1 - context) * imcu_height <= 0 * imcu_height
    BY <2>1, Multiples
  <2>3. 0 >= (0 - 1 - context) * imcu_height
    BY <2>1, <2>2
  <2> QED BY <1>1, <2>3 DEF LineStartInv
<1> QED BY <1>1, <1>3, <1>4, <1>5, <1>6, <1>7, <1>8, <1>9

LEMMA ReadCoefficientsPreserves ==
  ASSUME OutputInv, ReadCoefficients
  PROVE  OutputInv'
<1> USE DEF OutputInv
<1>1. /\ pc = "app" /\ stage = "start" /\ params.api = "coefficients"
      /\ pc' = "read_coefficients" /\ streaming_mode_' = FALSE
      /\ UNCHANGED <<params, decoded, outputVars, stage, max_lines, num_output_rows,
                     received>>
  BY DEF ReadCoefficients
<1>2. UNCHANGED <<output_scan_number, output_iMCU_row, output_scanline, raw_output_, looked>>
  BY <1>1 DEF outputVars
<1>3. ~streaming_mode_
  BY <1>1 DEF CoefInv, StreamingInv
<1>4. LinesInv'
  BY <1>1, <1>2 DEF LinesInv
<1>5. ASSUME global_state = "kDecHeaderDone"
      PROVE  OutputInv'
  <2>1. coef_arrays' = [r \in Rows |-> {}] /\ Input!PrepareForScan
    BY <1>5 DEF ReadCoefficients
  <2>2. /\ global_state' = "kDecProcessScan" /\ input_iMCU_row' = 0 /\ ~found_eoi_'
        /\ input_scan_number' \in Nat /\ 0 \in Rows /\ 0 < total_iMCU_rows
        /\ output_iMCU_row' = 0 /\ looked' = {} /\ decoded' = {}
        /\ DOMAIN coef_arrays' = Rows /\ \A row \in Rows : coef_arrays'[row] = Of(row)'
        /\ LookedInv' /\ RingInv'
    BY <1>1, <1>2, <1>5, <2>1, FirstScan
  <2>3. CallInv'
    BY <1>1, <2>2 DEF CallInv
  <2>4. ProgressInv'
    BY <1>1, <1>2, <2>2, Heights DEF ProgressInv
  <2>5. CoefInv'
    BY <1>1, <2>2 DEF CoefInv
  <2>6. LineStartInv'
    BY <1>1 DEF LineStartInv
  <2> QED BY <1>1, <1>4, <2>2, <2>3, <2>4, <2>5, <2>6
<1>6. ASSUME global_state # "kDecHeaderDone"
      PROVE  OutputInv'
  <2>1. UNCHANGED <<coef_arrays, inputVars, streaming_mode_>>
    BY <1>1, <1>3, <1>6 DEF ReadCoefficients, CoefInv
  <2>2. CallInv'
    BY <1>1, <1>6, <2>1 DEF CallInv, inputVars
  <2> QED BY <1>1, <1>2, <1>4, <2>1, <2>2, QuietStep DEF outputVars
<1> QED BY <1>5, <1>6

LEMMA ReadCoefficientsEndPreserves ==
  ASSUME OutputInv, ReadCoefficientsEnd
  PROVE  OutputInv'
<1> USE DEF OutputInv
<1>1. /\ pc = "read_coefficients" /\ output_scanline' = output_height
      /\ pc' = "app" /\ stage' = "reading"
      /\ UNCHANGED <<params, inputVars, streaming_mode_, coef_arrays, decoded,
                     output_scan_number, output_iMCU_row, raw_output_, looked, max_lines,
                     num_output_rows, received>>
  BY DEF ReadCoefficientsEnd
<1>2. stage = "start" /\ params.api = "coefficients" /\ ~streaming_mode_
  BY <1>1 DEF CallInv, CoefInv, StreamingInv
<1>3. CallInv'
  BY <1>1, <1>2 DEF CallInv, inputVars
<1>4. ProgressInv'
  BY <1>1, <1>2 DEF ProgressInv, inputVars
<1>5. LinesInv'
  <2>1. output_height \in Nat
    BY Heights
  <2> QED BY <1>1, <1>2, <2>1 DEF LinesInv
<1>6. LookedInv'
  BY <1>1, LookedKept
<1>7. CoefInv'
  BY <1>1, <1>2 DEF CoefInv, Of
<1>8. RingInv'
  BY <1>1, RingKept
<1>9. LineStartInv'
  BY <1>1, <1>2 DEF LineStartInv
<1> QED BY <1>1, <1>3, <1>4, <1>5, <1>6, <1>7, <1>8, <1>9

LEMMA FinishDecompressEndPreserves ==
  ASSUME OutputInv, FinishDecompressEnd
  PROVE  OutputInv'
<1> USE DEF OutputInv
<1>1. /\ pc = "finish_decompress" /\ pc' = "app" /\ stage' = "done" /\ found_eoi_
      /\ global_state' = "kDecStart"
      /\ UNCHANGED <<input_scan_number, input_iMCU_row, found_eoi_, params,
                     streaming_mode_, coef_arrays, decoded, outputVars, max_lines,
                     num_output_rows, received>>
  BY DEF FinishDecompressEnd, Input!Abort
<1>2. UNCHANGED <<output_scan_number, output_iMCU_row, output_scanline, raw_output_, looked>>
  BY <1>1 DEF outputVars
<1>3. CallInv'
  BY <1>1 DEF CallInv
<1>4. ProgressInv'
  BY <1>1, <1>2 DEF ProgressInv
<1>5. LinesInv'
  BY <1>1, <1>2 DEF LinesInv
<1>6. LookedInv'
  BY <1>1, <1>2 DEF LookedInv, Passed
<1>7. CoefInv'
  BY <1>1, <1>2 DEF CoefInv, StreamingInv, StreamingMode, Of
<1>8. RingInv'
  BY <1>1, <1>2, RingKept
<1>9. LineStartInv'
  BY <1>1 DEF LineStartInv
<1> QED BY <1>1, <1>3, <1>4, <1>5, <1>6, <1>7, <1>8, <1>9

-----------------------------------------------------------------------------
(* The theorems.                                                           *)

\* Everything below rests on this invariant.
THEOREM OutputInvariant == Spec => []OutputInv
<1>1. Init => OutputInv
  BY InitInv
<1>2. OutputInv /\ [Next]_vars => OutputInv'
  <2> SUFFICES ASSUME OutputInv, [Next]_vars PROVE OutputInv'
    OBVIOUS
  <2>1. CASE ConsumeInput
    BY <2>1, DecodeScanPreserves, ParseMarkersPreserves DEF ConsumeInput
  <2>2. CASE \/ Suspend \/ ReadScanlines \/ ReadScanlinesEnd \/ ReadRawData
             \/ FinishOutput \/ FinishOutputEnd \/ CallConsumeInput
             \/ FinishDecompress \/ Done \/ UNCHANGED vars
    BY <2>2, QuietActions
  <2>3. CASE ReadHeader
    BY <2>3, ReadHeaderPreserves
  <2>4. CASE StartDecompress
    BY <2>4, StartDecompressPreserves
  <2>5. CASE StartDecompressEnd
    BY <2>5, StartDecompressEndPreserves
  <2>6. CASE StartOutput
    BY <2>6, StartOutputPreserves
  <2>7. CASE OutputLines
    BY <2>7, OutputLinesPreserves
  <2>8. CASE DecodeRow
    BY <2>8, DecodeRowPreserves
  <2>9. CASE OutputPassEnd
    BY <2>9, OutputPassEndPreserves
  <2>10. CASE ReadRawDataEnd
    BY <2>10, ReadRawDataEndPreserves
  <2>11. CASE ReadCoefficients
    BY <2>11, ReadCoefficientsPreserves
  <2>12. CASE ReadCoefficientsEnd
    BY <2>12, ReadCoefficientsEndPreserves
  <2>13. CASE FinishDecompressEnd
    BY <2>13, FinishDecompressEndPreserves
  <2> QED BY <2>1, <2>2, <2>3, <2>4, <2>5, <2>6, <2>7, <2>8, <2>9, <2>10, <2>11, <2>12,
             <2>13 DEF Next
<1> QED BY <1>1, <1>2, PTL DEF Spec

\* However often jpegli_read_scanlines suspends and is repeated, and whatever
\* numbers of lines are asked for, in one pass or in several: the lines that the
\* calls have returned are exactly the ones that were rendered.
THEOREM LinesAreAccounted == Spec => []NoLineLost
<1>1. OutputInv => NoLineLost
  BY DEF OutputInv, LinesInv, NoLineLost
<1> QED BY <1>1, OutputInvariant, PTL

\* The rows shown now, as rows of kept iMCU rows.
LEMMA ShownRowsAreKept ==
  ASSUME OutputInv, NEW c \in Components, NEW r \in RowsShown(c)
  PROVE  \E imcu \in Kept : imcu \in Rows /\ r \in RowsOf(c, imcu)
<1> USE DEF OutputInv
<1>1. CASE InOutputLoop /\ CanOutput
  <2>1. PICK y \in output_scanline .. yend - 1 : r \in RowsUsed(c, y)
    BY <1>1 DEF RowsShown
  <2>2. pc = "output_pass" \/ (stage = "reading" /\ params.api = "scanlines")
    BY <1>1 DEF InOutputLoop, CallInv
  <2>3. output_scanline \in Nat
        /\ output_scanline >= (output_iMCU_row - 1 - context) * imcu_height
    BY <2>2 DEF LinesInv, LineStartInv
  <2>4. yend \in Int /\ (output_iMCU_row - 1 - context) * imcu_height \in Int
    <3>1. max_v_samp_factor \in Nat /\ min_scaled_dct_size \in Nat
      BY Sampling, ScaledSize
    <3>2. output_iMCU_row \in Int /\ context \in Int /\ imcu_height \in Int
      BY <3>1, Products, Heights DEF context, imcu_height, ProgressInv
    <3>3. \A a, b, d \in Int : (a - b) * d \in Int /\ (a - 1 - b) * d \in Int
      OBVIOUS
    <3>4. output_height \in Int
      BY Heights
    <3> QED BY <3>2, <3>3, <3>4 DEF yend
  <2>5. y \in Nat /\ y < yend /\ (output_iMCU_row - 1 - context) * imcu_height <= y
    <3> DEFINE n == (output_iMCU_row - 1 - context) * imcu_height
    <3>1. n \in Int /\ output_scanline >= n
      BY <2>3, <2>4
    <3> HIDE DEF n
    <3>2. y \in Nat /\ y < yend /\ n <= y
      BY <2>3, <2>4, <3>1
    <3> QED BY <3>2 DEF n
  <2>6. output_iMCU_row \in 0 .. total_iMCU_rows
    BY DEF ProgressInv
  <2> QED BY <1>1, <2>1, <2>5, <2>6, UsedRowsAreKept
<1>2. CASE ~(InOutputLoop /\ CanOutput)
  <2>1. output_iMCU_row > 0 /\ r \in RowsOf(c, output_iMCU_row - 1)
    BY <1>2 DEF RowsShown
  <2>2. output_iMCU_row - 1 \in Rows /\ output_iMCU_row - 1 \in Kept
    BY <2>1, Heights DEF ProgressInv, Rows, Kept
  <2> QED BY <2>1, <2>2
<1> QED BY <1>1, <1>2

\* For every height, sampling factors and scale, with fancy upsampling or
\* without: the ring of raw_output_ that AllocateOutputBuffers has sized still
\* holds every row of samples that ProcessOutput reads.
THEOREM RingIsLargeEnough == Spec => []RingHoldsContext
<1>1. OutputInv => RingHoldsContext
  <2> SUFFICES ASSUME OutputInv, NEW c \in Components, NEW r \in RowsShown(c)
               PROVE  RenderedRow(c, r).row = r
    BY DEF RingHoldsContext
  <2> QED BY ShownRowsAreKept DEF OutputInv, RingInv
<1> QED BY <1>1, OutputInvariant, PTL

\* In every mode, streaming or not, and for every number of scans: a line is made
\* of exactly the coefficients of its own iMCU row, all those of the scans up to
\* the displayed one among them, however decoding and output interleave.
THEOREM LinesShowWholeScans == Spec => []ShowsWholeScans
<1>1. OutputInv => ShowsWholeScans
  <2> SUFFICES ASSUME OutputInv, NEW c \in Components, NEW r \in RowsShown(c)
               PROVE  LET here == {d \in decoded : d[2] = r \div cheight(c)}
                      IN /\ {d \in here : d[1] <= output_scan_number}
                              \subseteq RenderedRow(c, r).coefs
                         /\ RenderedRow(c, r).coefs \subseteq here
    BY DEF ShowsWholeScans
  <2>1. PICK imcu \in Kept : imcu \in Rows /\ r \in RowsOf(c, imcu)
    BY ShownRowsAreKept
  <2>2. r \div cheight(c) = imcu
    BY <2>1, RowsOfOne
  <2>3. Of(imcu) = {d \in decoded : d[2] = r \div cheight(c)}
    BY <2>2 DEF Of
  <2> QED BY <2>1, <2>3 DEF OutputInv, RingInv
<1> QED BY <1>1, OutputInvariant, PTL

\* No step of the input decodes into a row that the current output pass has
\* looked at, with block smoothing or without, unless it belongs to a scan after
\* the displayed one.
THEOREM LookedAtIsFinal == Spec => NothingArrivesLate
<1> DEFINE A == \A d \in decoded' \ decoded : d[2] \in looked => d[1] > output_scan_number
<1>1. OutputInv /\ [Next]_vars => [A]_vars
  <2> SUFFICES ASSUME OutputInv, Next PROVE A
    OBVIOUS
  <2>1. CASE ConsumeInput /\ DecodeScan
    <3> SUFFICES ASSUME NEW d \in decoded' \ decoded, d[2] \in looked
                 PROVE  d[1] > output_scan_number
      OBVIOUS
    <3>1. d = <<input_scan_number, input_iMCU_row>> /\ global_state = "kDecProcessScan"
      BY <2>1, DecodeScanStep DEF OutputInv, AddCoefs
    <3>2. ~found_eoi_
      BY <2>1, <3>1, WantsInputPc DEF ConsumeInput, OutputInv, ProgressInv, CallInv
    <3>3. Passed(d[2]) /\ d[2] = input_iMCU_row /\ d[1] = input_scan_number
      BY <3>1 DEF OutputInv, LookedInv
    <3> QED BY <3>2, <3>3 DEF Passed, OutputInv, ProgressInv
  <2>2. CASE decoded' = decoded
    BY <2>2
  <2>3. (ConsumeInput /\ DecodeScan) \/ decoded' = decoded
    BY DEF Next, ConsumeInput, ParseMarkers, Suspend, ReadHeader, StartDecompress,
           StartDecompressEnd, StartOutput, OutputLines, DecodeRow, ReadScanlines,
           ReadScanlinesEnd, OutputPassEnd, ReadRawData, ReadRawDataEnd,
           ReadCoefficients, ReadCoefficientsEnd, FinishOutput, FinishOutputEnd,
           CallConsumeInput, FinishDecompress, FinishDecompressEnd, Done, vars
  <2> QED BY <2>1, <2>2, <2>3
<1> QED BY <1>1, OutputInvariant, PTL DEF Spec, NothingArrivesLate
=============================================================================
