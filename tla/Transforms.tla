----------------------------- MODULE Transforms -----------------------------
(***************************************************************************)
(* The block transforms: the encoder's 8x8 DCT and the decoder's IDCT to   *)
(* blocks of 1x1 .. 16x16 pixels, of coefficients without quantization.    *)
(* The transforms are linear, with coefficients that are sums of products  *)
(* of cosines of rational multiples of pi; what an algorithm for them does *)
(* is an identity between such numbers.  Here the numbers are taken in a   *)
(* finite field that has the roots of unity the cosines are made of, so    *)
(* that every butterfly and table entry counts and nothing is rounded.     *)
(***************************************************************************)
EXTENDS Integers, Sequences, FiniteSetsExt

Sizes == 3 .. 16

\* For each size N a prime p with p - 1 a multiple of 4N and of 8.
Prime == [N \in Sizes |->
  CASE N \in {3, 6, 9} -> 73 [] N \in {4, 8, 12} -> 97 [] N \in {5, 10} -> 41
    [] N \in {7, 14} -> 113 [] N = 11 -> 89 [] N = 13 -> 313 [] N = 15 -> 241 [] N = 16 -> 193]

\* A vector has the places 0 .. n - 1, At(x, i).  (Appending <<>> makes TLC keep the values.)
Vector(n, F(_)) == [i \in 1 .. n |-> F(i - 1)] \o <<>>
At(x, i) == x[i + 1]
Sum(n, F(_)) == MapThenSumSet(F, 0 .. n - 1)
MapSize(F(_)) == Vector(17, LAMBDA N : IF N \in Sizes THEN F(N) ELSE <<>>)

Power(x, e, p) ==
  LET f[i \in 0 .. e] == IF i = 0 THEN 1
                         ELSE LET half == f[i \div 2]
                              IN  (((half * half) % p) * (IF i % 2 = 1 THEN x ELSE 1)) % p
  IN  f[e]
Reciprocal(x, p) == CHOOSE y \in 1 .. p - 1 : (x * y) % p = 1

\* Root(N) generates the roots of unity; Cos2(N, k) is 2 cos(k pi / 2N) and Sqrt2(N) 2 cos(pi / 4).
Root(N) ==
  LET p == Prime[N]
  IN  CHOOSE g \in 2 .. p - 1 :
        \A d \in 1 .. p - 2 : (p - 1) % d = 0 => Power(g, d, p) # 1
RootPowers == MapSize(LAMBDA N : LET g == Root(N) IN Vector(Prime[N] - 1, LAMBDA e : Power(g, e, Prime[N])))
Cosine2(N, e) ==   \* of the angle 2 pi e / (p - 1)
  LET Both(powers, p) == (At(powers, e % (p - 1)) + At(powers, (-e) % (p - 1))) % p
  IN  Both(At(RootPowers, N), Prime[N])
Cos2(N, k) == Cosine2(N, (k * (Prime[N] - 1)) \div (4 * N))
Sqrt2(N) == Cosine2(N, (Prime[N] - 1) \div 8)

----------------------------------------------------------------------------
(* One dimension, eight points. *)

P8 == Prime[8]
\* WcMultipliers<n>: 1 / (2 cos((i + 0.5) pi / n))
WcMultipliers(n, i) == Reciprocal(Cos2(8, ((2 * i + 1) * 8) \div n), P8)

AddReverse(x, n) == Vector(n \div 2, LAMBDA i : (At(x, i) + At(x, n - 1 - i)) % P8)
SubReverse(x, n) == Vector(n \div 2, LAMBDA i : (At(x, i) - At(x, n - 1 - i)) % P8)
Multiply(x, n) == Vector(n \div 2, LAMBDA i : (At(x, i) * WcMultipliers(n, i)) % P8)
B(x, n) == Vector(n, LAMBDA i : IF i = 0 THEN (At(x, 0) * Sqrt2(8) + At(x, 1)) % P8
                                ELSE IF i + 1 < n THEN (At(x, i) + At(x, i + 1)) % P8
                                ELSE At(x, i))
InverseEvenOdd(x, n) == Vector(n, LAMBDA i : IF i % 2 = 0 THEN At(x, i \div 2)
                                             ELSE At(x, n \div 2 + i \div 2))
Butterfly(x) == <<(At(x, 0) + At(x, 1)) % P8, (At(x, 0) - At(x, 1)) % P8>>

RECURSIVE DCT1DImpl(_, _)
DCT1DImpl(n, x) ==
  IF n = 2 THEN Butterfly(x)
  ELSE LET even == DCT1DImpl(n \div 2, AddReverse(x, n))
           odd == B(DCT1DImpl(n \div 2, Multiply(SubReverse(x, n), n)), n \div 2)
       IN  InverseEvenOdd(even \o odd, n)

ForwardEvenOdd(x, n) == Vector(n, LAMBDA i : IF i < n \div 2 THEN At(x, 2 * i)
                                             ELSE At(x, 2 * (i - n \div 2) + 1))
BTranspose(x, n) == Vector(n, LAMBDA i : IF i = 0 THEN (At(x, 0) * Sqrt2(8)) % P8
                                         ELSE (At(x, i) + At(x, i - 1)) % P8)
MultiplyAndAdd(a, b, n) ==
  LET Out(i, j, term) == (IF i < n \div 2 THEN At(a, j) + term ELSE At(a, j) - term) % P8
      Mirrored(i, j) == Out(i, j, WcMultipliers(n, j) * At(b, j))
  IN  Vector(n, LAMBDA i : Mirrored(i, IF i < n \div 2 THEN i ELSE n - 1 - i))

RECURSIVE IDCT1DImpl(_, _)
IDCT1DImpl(n, x) ==
  IF n = 2 THEN Butterfly(x)
  ELSE LET tmp == ForwardEvenOdd(x, n)
           even == IDCT1DImpl(n \div 2, SubSeq(tmp, 1, n \div 2))
           odd == IDCT1DImpl(n \div 2, BTranspose(SubSeq(tmp, n \div 2 + 1, n), n \div 2))
       IN  MultiplyAndAdd(even, odd, n)

----------------------------------------------------------------------------
(* One dimension, the other sizes. *)

\* Compute1dIDCT's tables: row i has the factors of in[2], in[4], in[6] in even<i>, and of
\* in[1], in[3], in[5], in[7] in odd<i>; k + 1 stands for kC[k], -(k + 1) for -kC[k].
FactorsTo9(N) ==
  CASE N = 3  -> [even |-> << <<3>>, <<-1>> >>,
                odd  |-> << <<2>> >>]
    [] N = 5  -> [even |-> << <<3, 5>>, <<-5, -3>>, <<-1, 1>> >>,
                odd  |-> << <<2, 4>>, <<4, -2>> >>]
    [] N = 6  -> [even |-> << <<3, 5>>, <<0, -1>>, <<-3, 5>> >>,
                odd  |-> << <<2, 4, 6>>, <<4, -4, -4>>, <<6, -4, 2>> >>]
    [] N = 7  -> [even |-> << <<3, 5, 7>>, <<7, -3, -5>>, <<-5, -7, 3>>, <<-1, 1, -1>> >>,
                odd  |-> << <<2, 4, 6>>, <<4, -6, -2>>, <<6, -2, 4>> >>]
    [] N = 9  -> [even |-> << <<3, 5, 7>>, <<7, -7, -1>>, <<-9, -3, 7>>, <<-5, 9, 7>>,
                     <<-1, 1, -1>> >>,
                odd  |-> << <<2, 4, 6, 8>>, <<4, 0, -4, -4>>, <<6, -4, -8, 2>>, <<8, -4, 2, -6>>
                        >>]

FactorsTo12(N) ==
  CASE N = 10 -> [even |-> << <<3, 5, 7>>, <<7, -9, -3>>, <<0, -1, 0>>, <<-7, -9, 3>>,
                     <<-3, 5, -7>> >>,
                odd  |-> << <<2, 4, 6, 8>>, <<4, 10, -6, -2>>, <<6, -6, -6, 6>>,
                        <<8, -2, 6, 10>>, <<10, -8, 6, -4>> >>]
    [] N = 11 -> [even |-> << <<3, 5, 7>>, <<7, -11, -5>>, <<11, -3, -9>>, <<-9, -7, 3>>,
                     <<-5, 9, 11>>, <<-1, 1, -1>> >>,
                odd  |-> << <<2, 4, 6, 8>>, <<4, 10, -8, -2>>, <<6, -8, -4, 10>>,
                        <<8, -2, 10, 6>>, <<10, -6, 2, -4>> >>]
    [] N = 12 -> [even |-> << <<3, 5, 7>>, <<7, 0, -7>>, <<11, -5, -7>>, <<-11, -5, 7>>,
                     <<-7, 0, 7>>, <<-3, 5, -7>> >>,
                odd  |-> << <<2, 4, 6, 8>>, <<4, 10, -10, -4>>, <<6, -10, -2, -12>>,
                        <<8, -4, -12, 2>>, <<10, -4, 4, -10>>, <<12, -10, 8, -6>> >>]

FactorsTo14(N) ==
  CASE N = 13 -> [even |-> << <<3, 5, 7>>, <<7, 13, -9>>, <<11, -7, -5>>, <<-13, -3, 11>>,
                     <<-9, -11, 3>>, <<-5, 9, -13>>, <<-1, 1, -1>> >>,
                odd  |-> << <<2, 4, 6, 8>>, <<4, 10, -12, -6>>, <<6, -12, -2, -10>>,
                        <<8, -6, -10, 4>>, <<10, -2, 8, 12>>, <<12, -8, 4, -2>> >>]
    [] N = 14 -> [even |-> << <<3, 5, 7>>, <<7, 13, -11>>, <<11, -9, -3>>, <<0, -1, 0>>,
                     <<-11, -9, 3>>, <<-7, 13, 11>>, <<-3, 5, -7>> >>,
                odd  |-> << <<2, 4, 6, 8>>, <<4, 10, -14, -8>>, <<6, -14, -4, -8>>,
                        <<8, -8, -8, 8>>, <<10, -2, 12, 8>>, <<12, -6, 2, -8>>,
                        <<14, -12, 10, -8>> >>]

FactorsTo16(N) ==
  CASE N = 15 -> [even |-> << <<3, 5, 7>>, <<7, 13, -13>>, <<11, -11, -1>>, <<15, -3, -13>>,
                     <<-13, -7, 7>>, <<-9, -15, 7>>, <<-5, 9, -13>>, <<-1, 1, -1>> >>,
                odd  |-> << <<2, 4, 6, 8>>, <<4, 10, 0, -10>>, <<6, 0, -6, -6>>,
                        <<8, -10, -6, 12>>, <<10, -4, 0, 4>>, <<12, -4, 6, -14>>,
                        <<14, -10, 6, -2>> >>]
    [] N = 16 -> [even |-> << <<3, 5, 7>>, <<7, 13, -15>>, <<11, -13, -3>>, <<15, -5, -11>>,
                     <<-15, -5, 11>>, <<-11, -13, 3>>, <<-7, 13, 15>>, <<-3, 5, -7>> >>,
                odd  |-> << <<2, 4, 6, 8>>, <<4, 10, 16, -12>>, <<6, 16, -8, -4>>,
                        <<8, -12, -4, 16>>, <<10, -6, -14, 2>>, <<12, -2, 10, 14>>,
                        <<14, -8, 2, -6>>, <<16, -14, 12, -10>> >>]

Factors == MapSize(LAMBDA N : CASE N <= 9 /\ N \notin {4, 8} -> FactorsTo9(N) [] N \in 10 .. 12 -> FactorsTo12(N)
                                [] N \in 13 .. 14 -> FactorsTo14(N) [] N > 14 -> FactorsTo16(N)
                                [] OTHER -> <<>>)
Even(N) == At(Factors, N).even
Odd(N) == At(Factors, N).odd

\* kC<N>[k] is sqrt(2) cos(k pi / 2N).
kC(N, k) == (Sqrt2(N) * Cos2(N, k) * Reciprocal(2, Prime[N])) % Prime[N]
Term(N, s, v) ==
  IF s = 0 \/ v = 0 THEN 0
  ELSE (IF s > 0 THEN v ELSE -v) * kC(N, (IF s > 0 THEN s ELSE -s) - 1)
Row(N, row, x, first) == Sum(Len(row), LAMBDA j : Term(N, At(row, j), At(x, first + 2 * j)))

\* Mutant: the odd part of the mirrored outputs is not subtracted.
Compute1dIDCTEven(x, N) ==
  LET EvenPart(i) == At(x, 0) + Row(N, At(Even(N), i), x, 2)
      OddPart(i) == IF 2 * i + 1 = N THEN 0 ELSE Row(N, At(Odd(N), i), x, 1)
      Out(n, even, odd) == (IF 2 * n < N THEN even + odd ELSE even) % Prime[N]
      Mirrored(n, i) == Out(n, EvenPart(i), OddPart(i))
  IN  Vector(N, LAMBDA n : Mirrored(n, IF 2 * n < N THEN n ELSE N - 1 - n))

Compute1dIDCT(x, N) ==
  LET EvenPart(i) == At(x, 0) + Row(N, At(Even(N), i), x, 2)
      OddPart(i) == IF 2 * i + 1 = N THEN 0 ELSE Row(N, At(Odd(N), i), x, 1)
      Out(n, even, odd) == (IF 2 * n < N THEN even + odd ELSE even - odd) % Prime[N]
      Mirrored(n, i) == Out(n, EvenPart(i), OddPart(i))
  IN  Vector(N, LAMBDA n : Mirrored(n, IF 2 * n < N THEN n ELSE N - 1 - n))

----------------------------------------------------------------------------
(* Blocks, 64 values by rows; the columns are transformed first. *)

Transpose8x8Block(b) == Vector(64, LAMBDA i : At(b, 8 * (i % 8) + i \div 8))
Columns(b, T(_)) == LET cols == Vector(8, LAMBDA c : T(Vector(8, LAMBDA r : At(b, 8 * r + c))))
                    IN  Vector(64, LAMBDA i : At(At(cols, i % 8), i \div 8))

\* DCT1D with StoreToBlockAndScale.
DCT1D(b) == LET eighth == Reciprocal(8, P8)
                dct == Columns(b, LAMBDA x : DCT1DImpl(8, x))
            IN  Vector(64, LAMBDA i : (At(dct, i) * eighth) % P8)
TransformFromPixels(b) == Transpose8x8Block(DCT1D(Transpose8x8Block(DCT1D(b))))

IDCT1D(b) == Columns(b, LAMBDA x : IDCT1DImpl(8, x))
ComputeScaledIDCT(b) == IDCT1D(Transpose8x8Block(IDCT1D(Transpose8x8Block(b))))

\* The means of the squares of m x m pixels of the 8x8 block.
Means(b, m) ==
  LET size == 8 \div m
      Pixel(i, j) == At(b, 8 * (m * (i \div size) + j \div m) + (m * (i % size)) + (j % m))
      weight == Reciprocal(m * m, P8)
  IN  Vector(size * size, LAMBDA i : (Sum(m * m, LAMBDA j : Pixel(i, j)) * weight) % P8)

\* InverseTransformBlockGeneric and ...8x8: size x size pixels by rows.  (Means of single
\* pixels are the pixels.)
InverseTransformBlock(b, size) ==
  LET insize == Min({size, 8})
      Column(c) == Vector(insize, LAMBDA r : At(b, 8 * r + c))
      Rows(columns) ==
        Vector(size, LAMBDA r : Compute1dIDCT(Vector(insize, LAMBDA c : At(At(columns, c), r)), size))
      ByRows(rows) == Vector(size * size, LAMBDA i : At(At(rows, i \div size), i % size))
  IN  CASE size = 1 -> <<At(b, 0)>>
        [] size \in {2, 4, 8} -> Means(ComputeScaledIDCT(b), 8 \div size)
        [] OTHER -> ByRows(Rows(Vector(insize, LAMBDA c : Compute1dIDCT(Column(c), size))))

----------------------------------------------------------------------------
\* The definition of the transforms: frequency k at place n, out of N.
Basis(N, k, n) ==
  IF k = 0 THEN 1
  ELSE (Sqrt2(N) * Cos2(N, (2 * n + 1) * k) * Reciprocal(2, Prime[N])) % Prime[N]

Unit(k) == Vector(64, LAMBDA i : IF i = k THEN 1 ELSE 0)

\* The IDCT of the coefficient at row v and column u is the wave of these frequencies in
\* every size that does not average; sizes 1, 2 and 4 give the means of the 8x8 pixels;
\* frequencies beyond the size are left out.  The 8x8 IDCT undoes the encoder's DCT.
TransformIsTheDefinition(k, size) ==
  LET Wave(N, u, v) ==
        Vector(N * N, LAMBDA i :
          IF u < N /\ v < N THEN (Basis(N, v, i \div N) * Basis(N, u, i % N)) % Prime[N] ELSE 0)
      Reference(N) == Wave(N, k % 8, k \div 8)
  IN  /\ InverseTransformBlock(Unit(k), size)
           = IF size \in {1, 2, 4} THEN Means(Reference(8), 8 \div size) ELSE Reference(size)
      /\ size = 8 => ComputeScaledIDCT(TransformFromPixels(Unit(k))) = Unit(k)
=============================================================================
