--------------------------- MODULE ColorQuantize ----------------------------
(***************************************************************************)
(* The colormaps of color_quantize.cc: the one-pass grid with its lookup   *)
(* tables, the two-pass palette that grows color by color, and the         *)
(* candidate lists that find a pixel's color in a palette.  Dithering,     *)
(* which changes a pixel before it is looked up, is left out.              *)
(***************************************************************************)
EXTENDS Integers, Sequences, FiniteSets, SequencesExt

CONSTANTS SampleBits,   \* bits of a sample (the code: 8)
          CellBits      \* kNumColorCellBits, for each component (the code: 3, 4, 3, 3)

Top == 2 ^ SampleBits - 1
kCompW == <<2, 3, 1, 1>>
Sums(f) == FoldFunction(LAMBDA a, b : a + b, 0, f)
Least(S) == CHOOSE x \in S : \A y \in S : x <= y

----------------------------------------------------------------------------
(* One pass: a grid of num_colors[c] levels in each component. *)

ComponentOrder(components, i) == IF components = 3 /\ i <= 2 THEN 3 - i ELSE i

\* The levels that every component can have, and the round that gives some of them one more.
RECURSIVE LargestPower(_, _, _)
LargestPower(num, components, desired) ==
  IF (num + 1) ^ components <= desired THEN LargestPower(num + 1, components, desired) ELSE num
Product(levels) == FoldFunction(LAMBDA a, b : a * b, 1, levels)
AddLevel(levels, c, desired) ==
  LET total == (Product(levels) \div levels[c]) * (levels[c] + 1)
  IN  IF total <= desired THEN [levels EXCEPT ![c] = @ + 1] ELSE levels
RECURSIVE AddLevels(_, _)
AddLevels(levels, desired) ==
  LET n == Len(levels)
      more == FoldLeft(LAMBDA l, i : AddLevel(l, ComponentOrder(n, i), desired), levels,
                       [i \in 1 .. n |-> i])
  IN  IF Product(levels) < desired /\ more # levels THEN AddLevels(more, desired) ELSE levels

\* The levels of the components; <<>> when there are too few colors.
num_colors(components, colors) ==
  LET desired == Least({colors, Top + 1})
      num == LargestPower(1, components, desired)
  IN  IF num = 1 THEN <<>> ELSE AddLevels([c \in 1 .. components |-> num], desired)

GetColorComponent(i, N) == (i * Top + (N - 1) \div 2) \div (N - 1)

\* The strides of the components in the colormap, the last one 1.
Stride(levels, c) == Product(SubSeq(levels, c + 1, Len(levels)))
Colormap1Pass(levels) ==
  [i \in 0 .. Product(levels) - 1 |->
     [c \in 1 .. Len(levels) |->
        GetColorComponent((i \div Stride(levels, c)) % levels[c], levels[c])]]

\* colormap_lut; the division of C rounds to zero.
LutIndex(i, N) ==
  LET dividend == (2 * i - 1) * (N - 1) + Top - 1
  IN  IF dividend < 0 THEN 0 ELSE dividend \div (2 * Top)

\* LookupColorIndex with quant_mode 1
LookupGrid(levels, pixel) ==
  Sums([c \in 1 .. Len(levels) |-> LutIndex(pixel[c], levels[c]) * Stride(levels, c)])

----------------------------------------------------------------------------
(* Two passes: the palette. *)

\* BuildRGBColorIndex: the colors in order of appearance, without their two lowest bits, and
\* their counts.
Prequantized(pixel) == [c \in 1 .. 3 |-> 4 * (pixel[c] \div 4) + 2]
BuildRGBColorIndex(pixels) ==
  FoldLeft(LAMBDA index, pixel :
             LET color == Prequantized(pixel)
                 known == {i \in DOMAIN index : index[i].color = color}
             IN  IF known = {} THEN Append(index, [color |-> color, count |-> 1])
                 ELSE [index EXCEPT ![CHOOSE i \in known : TRUE].count = @ + 1],
           <<>>, pixels)

ColorIntQuadDistanceRGB(a, b) ==
  LET r == a[1] - b[1]
      g == a[2] - b[2]
      bl == a[3] - b[3]
      id == 2 * r + 5 * g + bl
  IN  r * r + g * g + bl * bl + (id * id) \div 64

MaxInt == 1000000   \* of dist, before the first color
NewPalette(index) ==
  [center |-> <<>>, dist |-> [i \in DOMAIN index |-> MaxInt] \o <<>>,
   cluster |-> [i \in DOMAIN index |-> 0] \o <<>>, error |-> 0]

AddToRGBPalette(index, p, i) ==
  LET d == [j \in DOMAIN index |-> ColorIntQuadDistanceRGB(index[i].color, index[j].color)]
      moves == {j \in DOMAIN index : j # i /\ p.dist[j] > 0 /\ d[j] < p.dist[j]}
      gain(j) == (d[j] - p.dist[j]) * index[j].count
  IN  [center |-> Append(p.center, i),
       dist |-> [j \in DOMAIN index |-> IF j = i THEN 0 ELSE IF j \in moves THEN d[j] ELSE p.dist[j]] \o <<>>,
       cluster |-> [j \in DOMAIN index |-> IF j \in moves \cup {i} THEN Len(p.center) + 1 ELSE p.cluster[j]] \o <<>>,
       error |-> p.error - p.dist[i] * index[i].count + Sums([j \in moves |-> gain(j)])]

\* The first palette: the colors above the threshold, or else the most frequent one.
Frequent(index, pixels, size) ==
  LET above == SelectSeq([i \in DOMAIN index |-> i],
                         LAMBDA i : index[i].count > (4 * pixels) \div size)
      most == CHOOSE i \in DOMAIN index :
                 \A j \in DOMAIN index : index[j].count < index[i].count \/ (index[j].count = index[i].count /\ i <= j)
  IN  IF above = <<>> THEN <<most>> ELSE above
InitialPalette(index, pixels, size) ==
  LET p == FoldLeft(LAMBDA q, i : AddToRGBPalette(index, q, i), NewPalette(index), Frequent(index, pixels, size))
  IN  [p EXCEPT !.error = Sums([i \in DOMAIN index |-> p.dist[i] * index[i].count])]

\* The loop over the priority queue: it takes a color that is not yet in the palette, in an order
\* that depends on the density grid (any order here), until the palette is full or the error
\* small (after any number of them).
RECURSIVE Grow(_, _, _, _)
Grow(index, p, order, size) ==
  IF order = <<>> \/ Len(p.center) >= size THEN p
  ELSE Grow(index, IF Contains(p.center, Head(order)) THEN p ELSE AddToRGBPalette(index, p, Head(order)),
            Tail(order), size)

\* ChooseColorMap2Pass
ChooseColorMap2Pass(pixels, order, size) ==
  LET index == BuildRGBColorIndex(pixels)
  IN  Grow(index, InitialPalette(index, Len(pixels), size),
           SelectSeq(order, LAMBDA i : i \in DOMAIN index), size)

----------------------------------------------------------------------------
(* The inverse of a palette: lists of the colors that can be nearest to a pixel of a cell. *)

Shift(c) == SampleBits - CellBits[c]
CellMin(cell, c) == cell[c] * 2 ^ Shift(c)
CellMax(cell, c) == CellMin(cell, c) + 2 ^ Shift(c) - 1
CellCenter(cell, c) == (CellMin(cell, c) + CellMax(cell, c)) \div 2
Square(x) == x * x
MinDist(cell, color) ==
  Sums([c \in DOMAIN cell |->
          Square(kCompW[c] * (CASE color[c] < CellMin(cell, c) -> CellMin(cell, c) - color[c]
                                [] color[c] > CellMax(cell, c) -> color[c] - CellMax(cell, c)
                                [] OTHER -> 0))])
MaxDist(cell, color) ==
  Sums([c \in DOMAIN cell |->
          Square(kCompW[c] * (IF color[c] <= CellCenter(cell, c) THEN CellMax(cell, c) - color[c]
                              ELSE color[c] - CellMin(cell, c)))])

\* Mutant: the bound is the nearest color's smallest distance.
FindCandidatesForCellTooFew(cell, colormap) ==
  LET bound == Least({MinDist(cell, colormap[i]) : i \in DOMAIN colormap})
  IN  SelectSeq([i \in DOMAIN colormap |-> i], LAMBDA i : MinDist(cell, colormap[i]) <= bound)

FindCandidatesForCell(cell, colormap) ==
  LET bound == Least({MaxDist(cell, colormap[i]) : i \in DOMAIN colormap})
  IN  SelectSeq([i \in DOMAIN colormap |-> i], LAMBDA i : MinDist(cell, colormap[i]) < bound)

Distance(color, pixel) == Sums([c \in DOMAIN pixel |-> Square(kCompW[c] * (color[c] - pixel[c]))])

\* CreateInverseColorMap numbers the cells with the last component first, and so does
\* LookupColorIndex: the number of a cell, and the cell of a number.
CellIndex(cell) ==
  Sums([c \in DOMAIN cell |-> cell[c] * 2 ^ Sums(SubSeq(CellBits, c + 1, Len(cell)))])
CellOf(pixel) == [c \in DOMAIN pixel |-> pixel[c] \div 2 ^ Shift(c)]
NextCell(cell) ==
  LET last == CHOOSE c \in DOMAIN cell :
                /\ c = 1 \/ cell[c] + 1 # 2 ^ CellBits[c]
                /\ \A d \in c + 1 .. Len(cell) : cell[d] + 1 = 2 ^ CellBits[d]
  IN  [c \in DOMAIN cell |-> IF c < last THEN cell[c] ELSE IF c = last THEN cell[c] + 1 ELSE 0]
RECURSIVE CellNumber(_, _)
CellNumber(cell, n) == IF n = 0 THEN cell ELSE CellNumber(NextCell(cell), n - 1)

\* LookupColorIndex with a palette: the first of the candidates at the least distance.
LookupPalette(colormap, pixel) ==
  LET start == [c \in DOMAIN pixel |-> 0]
      candidates == FindCandidatesForCell(CellNumber(start, CellIndex(CellOf(pixel))), colormap)
      best == FoldLeft(LAMBDA b, i : IF b = 0 \/ Distance(colormap[i], pixel) < Distance(colormap[b], pixel)
                                     THEN i ELSE b,
                       0, candidates)
  IN  best

----------------------------------------------------------------------------
(* The properties. *)

\* Every pixel of a grid of that many colors gets a grid color that no other one is nearer to by
\* more than the rounding of the breakpoints, in each component, and the number of colors is not
\* above the requested one.
GridIsNearest(components, colors) ==
  LET levels == num_colors(components, colors)
  IN  levels # <<>> =>
        /\ Product(levels) <= colors
        /\ \A c \in DOMAIN levels, x \in 0 .. Top :
             LET at == LutIndex(x, levels[c])
                 value == GetColorComponent(at, levels[c])
                 off == IF x < value THEN value - x ELSE x - value
             IN  /\ at \in 0 .. levels[c] - 1
                 /\ \A l \in {at - 1, at + 1} \cap 0 .. levels[c] - 1 :
                      LET v == GetColorComponent(l, levels[c])
                      IN  off <= 1 + (IF x < v THEN v - x ELSE x - v)

\* The index that the lookup tables add up to is that of the color in the colormap.
GridIsOrdered(levels, pixel) ==
  Colormap1Pass(levels)[LookupGrid(levels, pixel)] =
    [c \in 1 .. Len(levels) |-> GetColorComponent(LutIndex(pixel[c], levels[c]), levels[c])]

\* A pixel gets a color of the palette that no other one is nearer to: the candidates of its
\* cell are never too few, wherever in the cell it lies.
PaletteIsNearest(colormap, pixel) ==
  LET i == LookupPalette(colormap, pixel)
  IN  /\ i \in DOMAIN colormap
      /\ \A j \in DOMAIN colormap : Distance(colormap[i], pixel) <= Distance(colormap[j], pixel)

\* Whatever the order in which colors enter the palette, it has no color twice and no more than
\* were asked for, and the distances and the error that end the loop are those of the palette.
PaletteIsExact(pixels, order, size) ==
  LET index == BuildRGBColorIndex(pixels)
      p == ChooseColorMap2Pass(pixels, order, size)
      nearest(j) == Least({ColorIntQuadDistanceRGB(index[i].color, index[j].color) : i \in Range(p.center)})
  IN  /\ IsInjective(p.center)
      /\ Len(p.center) <= size
      /\ \A j \in DOMAIN index :
           /\ p.dist[j] = nearest(j)
           /\ ColorIntQuadDistanceRGB(index[p.center[p.cluster[j]]].color, index[j].color) = nearest(j)
      /\ p.error = Sums([j \in DOMAIN index |-> p.dist[j] * index[j].count])
=============================================================================
