---------------------------- MODULE HuffmanCodes ----------------------------
(***************************************************************************)
(* Huffman codes from the counts of the symbols to the decoder's lookup    *)
(* table: CreateHuffmanTree, the encoder's BuildJpegHuffmanTable and       *)
(* BuildHuffmanCodeTable, ValidateHuffmanTable, and the decoder's          *)
(* BuildHuffmanLookupTable, BuildJpegHuffmanTable and ReadSymbol.  The     *)
(* longest code (16) and the root table (8 bits) are parameters.           *)
(***************************************************************************)
EXTENDS Integers, Sequences, FiniteSets, SequencesExt

CONSTANTS MaxBitLength,   \* kJpegHuffmanMaxBitLength
          RootTableBits,  \* kJpegHuffmanRootTableBits
          Alphabet        \* kJpegHuffmanAlphabetSize; the symbols are 0 .. Alphabet - 1

Symbols == 0 .. Alphabet - 1
Sentinel == Alphabet         \* the symbol of count 1 that takes the code of all ones
MaxDoublings == 10           \* of the loop in CreateHuffmanTree, more than it makes here
MaxCount == 2^20             \* uint32_t's largest value, for the sentinel nodes of the tree

----------------------------------------------------------------------------
(* CreateHuffmanTree. *)

\* Least popular first; of equal counts the larger symbol.
Leaves(count, count_limit) ==
  LET Weight(s) == Max({count[s], count_limit - 1})
      Less(a, b) == IF Weight(a) # Weight(b) THEN Weight(a) < Weight(b) ELSE a > b
  IN  SetToSortSeq({s \in DOMAIN count : count[s] > 0}, Less)

\* Joins the two least popular of the leaves from i and the inner nodes from j, n - 1 times.
\* An inner node is [count, left, right], children <<"leaf", index>> or <<"node", index>>.
Inner(count, count_limit, leaves) ==
  LET n == Len(leaves)
      LeafCount(i) == IF i <= n THEN Max({count[leaves[i]], count_limit - 1}) ELSE MaxCount
      NodeCount(t) == IF t.j <= Len(t.nodes) THEN t.nodes[t.j].count ELSE MaxCount
      Take(t) ==
        IF LeafCount(t.i) <= NodeCount(t)
        THEN [t EXCEPT !.i = @ + 1, !.last = <<"leaf", t.i>>, !.sum = @ + LeafCount(t.i)]
        ELSE [t EXCEPT !.j = @ + 1, !.last = <<"node", t.j>>, !.sum = @ + NodeCount(t)]
      Add(t, left) ==
        [t EXCEPT !.nodes = Append(@, [count |-> t.sum, left |-> left, right |-> t.last])]
      Second(t) == Add(Take(t), t.last)
      Join(t, k) == Second(Take([t EXCEPT !.sum = 0]))
  IN  FoldLeft(Join, [i |-> 1, j |-> 1, last |-> <<>>, sum |-> 0, nodes |-> <<>>],
               [k \in 1 .. n - 1 |-> k]).nodes

\* SetDepth, from the root (the last node) down.
SetDepth(count, leaves, nodes) ==
  LET Parent(child) == CHOOSE p \in DOMAIN nodes : child \in {nodes[p].left, nodes[p].right}
      level[p \in DOMAIN nodes] ==
        IF p = Len(nodes) THEN 0 ELSE level[Parent(<<"node", p>>)] + 1
      Leaf(s) == <<"leaf", CHOOSE i \in DOMAIN leaves : leaves[i] = s>>
  IN  [s \in DOMAIN count |->
         IF count[s] = 0 THEN 0
         ELSE IF Len(leaves) = 1 THEN 1 ELSE level[Parent(Leaf(s))] + 1]
Depths(count, count_limit) ==
  LET Tree(leaves) == SetDepth(count, leaves, Inner(count, count_limit, leaves))
  IN  Tree(Leaves(count, count_limit))

\* Mutant: the depths of the first tree, however deep it is.
CreateHuffmanTreeOnce(count) == Depths(count, 1)

\* The smallest counts are raised, to 2^e - 1, until the tree is not too deep.
CreateHuffmanTree(count) ==
  LET Fits(depth) == \A s \in DOMAIN depth : depth[s] <= MaxBitLength
  IN  Depths(count, 2^Min({e \in 0 .. MaxDoublings : Fits(Depths(count, 2^e))}))

----------------------------------------------------------------------------
(* Tables: bits[l] codes of length l, huffval the symbols by length and value. *)

BuildJpegHuffmanTable(histogram) ==
  LET Table(depths) ==
        [bits |-> [l \in 1 .. MaxBitLength |-> Cardinality({s \in Symbols : depths[s] = l})],
         huffval |-> SetToSortSeq({s \in Symbols : depths[s] > 0}, LAMBDA a, b :
                       depths[a] < depths[b] \/ (depths[a] = depths[b] /\ a < b))]
  IN  Table(CreateHuffmanTree([s \in 0 .. Alphabet |->
                                 IF s = Sentinel THEN 1 ELSE histogram[s]]))

NumCodes(bits, l) == FoldLeft(LAMBDA n, i : n + bits[i], 0, [i \in 1 .. l |-> i])
TotalCount(bits) == NumCodes(bits, MaxBitLength)
MaxDepth(bits) == Max({l \in 1 .. MaxBitLength : bits[l] > 0})
Space(bits) == FoldLeft(LAMBDA n, l : n + bits[l] * 2^(MaxBitLength - l), 0,
                        [l \in 1 .. MaxBitLength |-> l])

\* The codes and the code of all ones behind the last fill the space.
ValidateHuffmanTable(table) ==
  /\ TotalCount(table.bits) \in 1 .. Alphabet
  /\ Space(table.bits) + 2^(MaxBitLength - MaxDepth(table.bits)) = 2^MaxBitLength
  /\ \A i, j \in 1 .. TotalCount(table.bits) :
       i # j => table.huffval[i] # table.huffval[j]

\* BuildHuffmanCodeTable: the depth and code of each symbol; depth 0 for one without a code.
DepthOf(bits, p) == Min({l \in 1 .. MaxBitLength : p <= NumCodes(bits, l)})
BuildHuffmanCodeTable(table) ==
  LET n == TotalCount(table.bits)
      code[p \in 1 .. n] ==
        IF p = 1 THEN 0
        ELSE (code[p - 1] + 1) * 2^(DepthOf(table.bits, p) - DepthOf(table.bits, p - 1))
      Place(s) == CHOOSE p \in 1 .. n : table.huffval[p] = s
  IN  [s \in Symbols |-> IF \E p \in 1 .. n : table.huffval[p] = s
                         THEN [depth |-> DepthOf(table.bits, Place(s)), code |-> code[Place(s)]]
                         ELSE [depth |-> 0, code |-> 0]]

----------------------------------------------------------------------------
(* The decoder's lookup table. *)

Invalid == [bits |-> 0, value |-> 65535]

\* A second-level table is as wide as the codes left of this and longer lengths need.
NextTableBitSize(count, len) ==
  LET wide[l \in len .. MaxBitLength] ==
        \* what is left of the table at length l, before the codes of that length
        IF l = len THEN 2^(len - RootTableBits) ELSE 2 * (wide[l - 1] - count[l - 1])
      full == {l \in len .. MaxBitLength - 1 : wide[l] - count[l] <= 0}
  IN  (IF full = {} THEN MaxBitLength ELSE Min(full)) - RootTableBits

\* Writes reps copies of an entry into the table from place at on.
Fill(lut, at, reps, entry) ==
  [i \in DOMAIN lut \cup (at .. at + reps - 1) |->
     IF i \in at .. at + reps - 1 THEN entry ELSE lut[i]]

\* One code of length l for a symbol.  t has the counts left, the next root entry key, the
\* place and size of the current second-level table and how much of it is filled (low).
AddCode(t, l, symbol) ==
  LET Started(bits) == [t EXCEPT !.at = @ + t.size, !.size = 2^bits, !.bits = bits, !.low = 0,
                                 !.lut = Fill(@, t.key, 1, [bits |-> bits + RootTableBits,
                                                            value |-> t.at + t.size - t.key]),
                                 !.key = @ + 1]
      Second(u, reps) == [u EXCEPT !.lut = Fill(@, u.at + u.low, reps, [bits |-> l - RootTableBits,
                                                                        value |-> symbol]),
                                   !.low = @ + reps, !.count[l] = @ - 1]
      Add(u) == Second(u, 2^(u.bits - (l - RootTableBits)))
  IN  IF l <= RootTableBits
      THEN [t EXCEPT !.lut = Fill(@, t.key, 2^(RootTableBits - l), [bits |-> l, value |-> symbol]),
                     !.key = @ + 2^(RootTableBits - l), !.count[l] = @ - 1]
      ELSE Add(IF t.low >= t.size THEN Started(NextTableBitSize(t.count, l)) ELSE t)

\* BuildHuffmanLookupTable: the codes and, as the last of the longest, the invalid symbol.
\* A table with fewer codes than the space has leaves invalid entries.
BuildHuffmanLookupTable(table) ==
  LET bits == [table.bits EXCEPT ![MaxDepth(table.bits)] = @ + 1]
      values == Append(table.huffval, Alphabet)
  IN  FoldLeft(LAMBDA t, p : AddCode(t, DepthOf(bits, p), values[p]),
               [lut |-> [i \in 0 .. 2^RootTableBits - 1 |-> Invalid], count |-> bits, key |-> 0,
                at |-> 2^RootTableBits, size |-> 0, bits |-> 0, low |-> 0],
               [p \in 1 .. TotalCount(bits) |-> p]).lut

LookupAccepts(table) == Space(table.bits) + 2^(MaxBitLength - MaxDepth(table.bits)) <= 2^MaxBitLength

\* ReadSymbol on the next MaxBitLength bits of the stream: the symbol, the bits it takes.
ReadSymbol(lut, window) ==
  LET Top(from, n) == (window \div 2^(MaxBitLength - from - n)) % 2^n
      root == lut[Top(0, RootTableBits)]
      nbits == root.bits - RootTableBits
      second == lut[Top(0, RootTableBits) + root.value + Top(RootTableBits, nbits)]
  IN  IF nbits > 0 THEN [value |-> second.value, bits |-> RootTableBits + second.bits]
      ELSE [value |-> root.value, bits |-> root.bits]

----------------------------------------------------------------------------
\* For a histogram: the table is one that the encoder's and the decoder's checks accept, every
\* symbol with a count has a code, and whatever follows it the decoder reads that symbol and
\* its length; no code is all ones.
CodesDecode(histogram) ==
  \E table \in {BuildJpegHuffmanTable(histogram)} :
    \E codes \in {BuildHuffmanCodeTable(table)}, lut \in {BuildHuffmanLookupTable(table)} :
      /\ ValidateHuffmanTable(table) /\ LookupAccepts(table)
      /\ \A s \in Symbols :
           LET d == codes[s].depth
           IN  IF histogram[s] = 0 THEN d = 0
               ELSE /\ d \in 1 .. MaxBitLength /\ codes[s].code < 2^d - 1
                    /\ \A rest \in {0, 2^(MaxBitLength - d) - 1} :
                         ReadSymbol(lut, codes[s].code * 2^(MaxBitLength - d) + rest)
                           = [value |-> s, bits |-> d]
=============================================================================
