---------------------------- MODULE TokenCoding ----------------------------
(***************************************************************************)
(* The coefficients of an image on their way through the scans of a scan   *)
(* script: ValidateScanScript accepts the script, TokenizeJpeg turns every *)
(* scan into tokens (in an order of its own, because the room for the      *)
(* refinement bits is counted in the scans before), WriteScanData writes   *)
(* the tokens of a scan with its restart markers, and the scan decoder     *)
(* reads them back into its coefficients.                                  *)
(*                                                                         *)
(* A Huffman-coded symbol is the pair of its run and its size; the codes   *)
(* are in HuffmanCodes, the choice of tables in HuffmanSlots.  The format's *)
(* limits 63 (last coefficient), 15 (longest zero run in a symbol) and 255 *)
(* (refinement bits of a token) are constants, so that small images reach  *)
(* them; the longest end-of-block run, 0x7fff, is 2^15 - 1.                 *)
(***************************************************************************)
EXTENDS Integers, Sequences, FiniteSets, SequencesExt, TLC

CONSTANTS Images,     \* images: the components, each with its geometry and its blocks
          Scripts,    \* candidate scan scripts; ValidateScanScript rejects the others
          Restarts,   \* restart_interval and restart_in_rows, as [interval : Nat, rows : Nat]
          K,          \* last coefficient of a block (DCTSIZE2 - 1)
          ZRL,        \* 15, the run of the symbol 0xf0
          MaxRefBits  \* 255, what RefToken::refbits can hold

\* A component has h_samp_factor h (the vertical factors are 1), width and height in
\* blocks, and the blocks themselves, row by row, coefficients in zig-zag order.
Component == [h : 1 .. 2, w : Nat, rows : Nat, blocks : Seq([0 .. K -> Int])]
\* A scan of a script: jpeg_scan_info.
Scan == [comps : Seq(Nat), Ss : Int, Se : Int, Ah : Int, Al : Int]

ASSUME ConstantsAssumption ==
  /\ K \in Nat /\ ZRL \in Nat \ {0} /\ MaxRefBits >= K /\ Restarts \subseteq [interval : Nat, rows : Nat]
  /\ Images \subseteq Seq(Component)

VARIABLES image, script, restart,
          pass,      \* of TokenizeJpeg: 0, then 1 .. for refinements, then the rest
          m,         \* cinfo->master: token arrays, refinement tokens and bits
          sti,       \* scan_token_info
          written,   \* scans written by WriteScanData and decoded
          decoded,   \* the decoder's coefficients
          decoder    \* the decoder's scan_progression_, and whether it is still sound

vars == <<image, script, restart, pass, m, sti, written, decoded, decoder>>

DivCeil(a, b) == (a + b - 1) \div b
FloorLog2(v) == CHOOSE n \in 0 .. 15 : 2^n <= v /\ v < 2^(n + 1)
NumBits(v) == IF v = 0 THEN 0 ELSE FloorLog2(v) + 1
Abs(v) == IF v < 0 THEN -v ELSE v
Band(scan) == scan.Ss .. scan.Se
Comps == DOMAIN image
OnlyComp(scan) == scan.comps[1]

----------------------------------------------------------------------------
(* Scan scripts. *)

\* SetDefaultScanScript: the bands of a progressive level, and a scan per component
\* for each of them unless it is interleaved.
DefaultBands(level, interleave_dc) ==
  CASE level = 0 -> <<<<0, K, 0, 0, TRUE>>>>
    [] level = 1 -> <<<<0, 0, 0, 0, interleave_dc>>, <<1, K, 0, 1, FALSE>>,
                      <<1, K, 1, 0, FALSE>>>>
    [] OTHER -> <<<<0, 0, 0, 0, interleave_dc>>, <<1, 2, 0, 0, FALSE>>,
                  <<3, K, 0, 2, FALSE>>, <<3, K, 2, 1, FALSE>>, <<3, K, 1, 0, FALSE>>>>
SetDefaultScanScript(level, interleave_dc, n) ==
  LET Scans(b) ==
        LET of(comps) == [comps |-> comps, Ss |-> b[1], Se |-> b[2], Ah |-> b[3], Al |-> b[4]]
        IN  IF b[5] THEN <<of([c \in 1 .. n |-> c])>> ELSE [c \in 1 .. n |-> of(<<c>>)]
  IN  FlattenSeq([i \in DOMAIN DefaultBands(level, interleave_dc) |->
                    Scans(DefaultBands(level, interleave_dc)[i])])

progressive_mode(s) == s[1].Ss # 0 \/ s[1].Se # K

\* The parts of ValidateScanScript that look at one scan.
ScanIsValid(scan, progressive, n) ==
  /\ Len(scan.comps) \in 1 .. 4
  /\ \A j \in DOMAIN scan.comps : scan.comps[j] \in 1 .. n
  /\ \A i, j \in DOMAIN scan.comps : i < j => scan.comps[i] < scan.comps[j]
  /\ scan.Ss >= 0 /\ scan.Se >= scan.Ss /\ scan.Se <= K
  /\ scan.Ah >= 0 /\ scan.Al \in 0 .. 10
  /\ IF progressive THEN scan.Ss = 0 => scan.Se = 0
     ELSE scan.Ss = 0 /\ scan.Se = K /\ scan.Ah = 0 /\ scan.Al = 0
  /\ scan.Ss # 0 => Len(scan.comps) = 1

\* comp_mask of a coefficient has its bits from Al upwards: the level is that Al, -1 before
\* the first scan.  A scan is a first one, or refines by the next bit.
FirstOrNextBit(level, scan) ==
  IF level = -1 THEN scan.Ah = 0 ELSE scan.Ah = level /\ scan.Al = level - 1

Unscanned(n) == [c \in 1 .. n |-> [k \in 0 .. K |-> -1]]
AfterScan(levels, scan) ==
  [c \in DOMAIN levels |-> [k \in 0 .. K |->
     IF Contains(scan.comps, c) /\ k \in Band(scan) THEN scan.Al ELSE levels[c][k]]]

\* A script the encoder accepts for n components: every bit of every coefficient once, the DC
\* coefficient first.
ValidateScanScript(s, n) ==
  LET levels[i \in 0 .. Len(s)] ==
        IF i = 0 THEN Unscanned(n) ELSE AfterScan(levels[i - 1], s[i])
  IN  /\ \A i \in DOMAIN s :
           /\ ScanIsValid(s[i], progressive_mode(s), n)
           /\ \A j \in DOMAIN s[i].comps :
                LET before == levels[i - 1][s[i].comps[j]]
                IN  /\ s[i].Ss # 0 => before[0] # -1
                    /\ \A k \in Band(s[i]) : FirstOrNextBit(before[k], s[i])
      /\ \A c \in 1 .. n, k \in 0 .. K : levels[Len(s)][c][k] = 0

----------------------------------------------------------------------------
(* The blocks of a scan: MCUs of <<component, block>>, block 0 beyond the edge. *)

max_h == IF \E c \in Comps : image[c].h = 2 THEN 2 ELSE 1
MCUsOfRow(scan, y) ==
  IF Len(scan.comps) = 1
  THEN LET c == OnlyComp(scan)
       IN  [x \in 1 .. image[c].w |-> <<<<c, (y - 1) * image[c].w + x>>>>]
  ELSE LET cols == CHOOSE n \in 1 .. 16 :
                     \E c \in Comps : image[c].h = max_h /\ n = DivCeil(image[c].w, max_h)
           Blocks(c, x) == [i \in 1 .. image[c].h |->
                              LET bx == (x - 1) * image[c].h + i
                              IN  <<c, IF bx > image[c].w THEN 0
                                       ELSE (y - 1) * image[c].w + bx>>]
       IN  [x \in 1 .. cols |->
              FlattenSeq([i \in DOMAIN scan.comps |-> Blocks(scan.comps[i], x)])]
Rows(scan) == image[OnlyComp(scan)].rows
MCUs(scan) == FlattenSeq([y \in 1 .. Rows(scan) |-> MCUsOfRow(scan, y)])
num_blocks(scan) == Len(FlattenSeq(MCUs(scan)))
Block(coefs, cb) == IF cb[2] = 0 THEN [k \in 0 .. K |-> 0] ELSE coefs[cb[1]][cb[2]]

----------------------------------------------------------------------------
(* Tokens.  A symbol has a run r and a size s; bits are the s extra bits (r of them in an
   end-of-block run). *)

Token(r, s, bits) == [r |-> r, s |-> s, bits |-> bits]
ExtraBits(v) == IF v < 0 THEN v + 2^NumBits(Abs(v)) - 1 ELSE v
EobToken(run) == LET n == FloorLog2(run) IN Token(n, 0, run - 2^n)
Times(n, token) == [i \in 1 .. n |-> token]
MaxEobRun == 2^ZRL - 1

\* The value of an AC coefficient in a scan with this Al: its magnitude is shifted.
Shifted(v, Al) == IF v < 0 THEN -((-v) \div 2^Al) ELSE v \div 2^Al

Nonzeros(scan, block) == {k \in Band(scan) \ {0} : Shifted(block[k], scan.Al) # 0}
FutureNonzeros(scan, block) == {k \in Band(scan) \ {0} : block[k] # 0} \ Nonzeros(scan, block)

\* How many 0xf0 symbols come before a run.
ZeroRun(r) == r \div (ZRL + 1)

\* The tokens of the nonzero coefficients of a block, each after its run of zeros.
ACTokens(scan, block) ==
  LET nz == Nonzeros(scan, block)
      first == Max({1, scan.Ss})
      Run(k) == k - Max({first - 1} \cup {j \in nz : j < k}) - 1
      Of(k) == LET v == Shifted(block[k], scan.Al)
               IN  Times(ZeroRun(Run(k)), Token(ZRL, 0, 0)) \o
                     <<Token(Run(k) - (ZRL + 1) * ZeroRun(Run(k)), NumBits(Abs(v)), ExtraBits(v))>>
  IN  FlattenSeq([i \in 1 .. Cardinality(nz) |-> Of(SetToSortSeq(nz, <)[i])])

\* Zeros are left at the end of the band.
EndsInZeros(scan, block) == scan.Se \notin Nonzeros(scan, block)

\* TokenizeProgressiveDC; coeffs[0] >> Al is an arithmetic shift.
DCToken(block, Al, last_dc) ==
  LET diff == (block[0] \div 2^Al) - last_dc IN Token(0, NumBits(Abs(diff)), ExtraBits(diff))

----------------------------------------------------------------------------
(* Token arrays: a new one when the current one may not hold what comes next. *)

SizeT == 2^30    \* size_t, cut to TLC's integers
EstimateNumTokens(y, ysize, num_tokens, max_per_row) ==
  LET estimate == IF y = 0 THEN 16 * max_per_row ELSE (4 * ysize * num_tokens) \div (3 * y)
  IN  Min({(ysize - y) * max_per_row, Max({max_per_row, (estimate - num_tokens) % SizeT})})

Tokens(a) == FlattenSeq(a.arrays)
Total(a) == Len(Tokens(a))
Reserve(a, max, num) ==
  LET total == Total(a)
  IN  IF Len(Last(a.arrays)) + max <= a.num_tokens THEN a
      ELSE [a EXCEPT !.arrays = IF a.num_tokens = 0 THEN @ ELSE Append(@, <<>>),
                     !.num_tokens = num,
                     !.fits = @ /\ (a.num_tokens = 0 \/ Len(a.arrays) < a.max_arrays)]
AddTokens(a, tokens) ==
  LET n == Len(a.arrays)
  IN  [a EXCEPT !.arrays[n] = @ \o tokens,
                !.fits = @ /\ Len(a.arrays[n]) + Len(tokens) <= a.num_tokens]

----------------------------------------------------------------------------
(* TokenizeACProgressiveScan. *)

EmitEobRun(t) ==
  IF t.eob_run = 0 THEN t
  ELSE [t EXCEPT !.a = AddTokens(@, <<EobToken(t.eob_run)>>), !.eob_run = 0]

AtRestart(t) == t.restart_interval > 0 /\ t.restarts_to_go = 0

TakeRestart(t) ==
  IF AtRestart(t)
  THEN LET e == EmitEobRun(t)
       IN  [e EXCEPT !.restarts = Append(@, Total(e.a)), !.restarts_to_go = e.restart_interval]
  ELSE t

TokenizeACBlock(scan, t, block) ==
  LET r == TakeRestart(t)
      tokens == ACTokens(scan, block)
      coded == IF tokens = <<>> THEN r
               ELSE LET e == EmitEobRun(r) IN [e EXCEPT !.a = AddTokens(@, tokens)]
      ended == IF EndsInZeros(scan, block) THEN [coded EXCEPT !.eob_run = @ + 1] ELSE coded
      capped == IF ended.eob_run = MaxEobRun THEN EmitEobRun(ended) ELSE ended
  IN  [capped EXCEPT !.restarts_to_go = @ - 1,
                     !.num_nonzeros = @ + Cardinality(Nonzeros(scan, block)),
                     !.future = @ + Cardinality(FutureNonzeros(scan, block))]

\* A block row: room for a token per coefficient and one for the run it may end.
TokenizeACRow(scan, t, y) ==
  LET c == OnlyComp(scan)
      max == 1 + image[c].w * (scan.Se - scan.Ss + 1)
      roomy == [t EXCEPT !.a = Reserve(@, max,
                   EstimateNumTokens(y - 1, image[c].rows, Total(@), max))]
  IN  FoldLeft(LAMBDA s, x : TokenizeACBlock(scan, s, image[c].blocks[(y - 1) * image[c].w + x]),
               roomy, [x \in 1 .. image[c].w |-> x])

\* restart_in_rows gives every scan an interval of its own.
scan_restart_interval(scan) ==
  IF restart.rows = 0 THEN restart.interval
  ELSE Min({Len(MCUsOfRow(scan, 1)) * restart.rows, 65535})
NewScan(scan, a) ==
  [a |-> a, eob_run |-> 0, restart_interval |-> scan_restart_interval(scan),
   restarts_to_go |-> scan_restart_interval(scan), restarts |-> <<>>,
   num_nonzeros |-> 0, future |-> 0]

Info(offset, t) == [offset |-> offset, num |-> Total(t.a) - offset, restarts |-> t.restarts,
                    num_nonzeros |-> t.num_nonzeros, future |-> t.future, tokens |-> <<>>,
                    refbits |-> <<>>, eobruns |-> <<>>]

TokenizeACProgressiveScan(scan, a) ==
  LET Scanned(t) == [a |-> t.a, info |-> Info(Total(a), t)]
  IN  Scanned(EmitEobRun(FoldLeft(LAMBDA s, y : TokenizeACRow(scan, s, y), NewScan(scan, a),
                                  [y \in 1 .. Rows(scan) |-> y])))

----------------------------------------------------------------------------
(* TokenizeScan for DC and sequential scans. *)

Zeros(n) == [i \in 1 .. n |-> 0]

TokenizeMCU(scan, t, mcu) ==
  LET fresh == AtRestart(t)
      r == IF fresh THEN [t EXCEPT !.restarts = Append(@, Total(t.a)),
                                   !.restarts_to_go = t.restart_interval,
                                   !.last_dc = Zeros(Len(image))]
           ELSE t
      One(s, cb) ==
        LET block == Block([c \in Comps |-> image[c].blocks], cb)
            dc == DCToken(block, scan.Al, s.last_dc[cb[1]])
            ac == IF scan.Se = 0 THEN <<>>
                  ELSE ACTokens(scan, block) \o
                         (IF EndsInZeros(scan, block) THEN <<Token(0, 0, 0)>> ELSE <<>>)
        IN  [s EXCEPT !.a = AddTokens(@, <<dc>> \o ac),
                      !.last_dc[cb[1]] = block[0] \div 2^scan.Al]
  IN  [FoldLeft(One, r, mcu) EXCEPT !.restarts_to_go = @ - 1]

TokenizeRow(scan, t, y) ==
  LET max == (K + 1) * Len(FlattenSeq(MCUsOfRow([scan EXCEPT !.comps = [c \in Comps |-> c]], y)))
      roomy == IF progressive_mode(script) THEN t
               ELSE [t EXCEPT !.a = Reserve(@, max,
                       EstimateNumTokens(y - 1, Rows(scan), Total(@), max))]
  IN  FoldLeft(LAMBDA s, mcu : TokenizeMCU(scan, s, mcu), roomy, MCUsOfRow(scan, y))

TokenizeDCScan(scan, a) ==
  LET roomy == IF progressive_mode(script) THEN Reserve(a, num_blocks(scan), num_blocks(scan))
               ELSE a
      Scanned(t) == [a |-> t.a, info |-> Info(Total(a), t)]
  IN  Scanned(FoldLeft(LAMBDA s, y : TokenizeRow(scan, s, y),
                       [last_dc |-> Zeros(Len(image))] @@ NewScan(scan, roomy),
                       [y \in 1 .. Rows(scan) |-> y]))

\* A DC refinement has a bit per block and its restarts in blocks.
TokenizeDCRefinement(scan, a) ==
  LET mcus == MCUs(scan)
      interval == scan_restart_interval(scan)
      n == IF interval = 0 THEN 0 ELSE (Len(mcus) - 1) \div interval
      Bit(cb) == (Block([c \in Comps |-> image[c].blocks], cb)[0] \div 2^scan.Al) % 2
  IN  [a |-> a,
       info |-> [Info(Total(a), NewScan(scan, a)) EXCEPT
                   !.num = num_blocks(scan),
                   !.refbits = [i \in 1 .. num_blocks(scan) |-> Bit(FlattenSeq(mcus)[i])],
                   !.restarts = [i \in 1 .. n |->
                     Len(FlattenSeq(SubSeq(mcus, 1, i * interval)))]]]

----------------------------------------------------------------------------
(* TokenizeACRefinementScan.  toks are the RefTokens up to next_token; next_eob_token is the
   place of the end-of-block token that a further block may extend, so that zero runs
   written since then are taken back. *)

\* refbits is a byte.
RefToken(r, s, positive, refbits) ==
  [r |-> r, s |-> s, positive |-> positive, refbits |-> refbits % (MaxRefBits + 1)]

\* One coefficient.  refs and eob_refs are num_refinement_bits and num_eob_refinement_bits.
RefineCoefficient(scan, t, v) ==
  LET absval == Abs(Shifted(v, scan.Al))
      zrls == ZeroRun(t.r)
      runs == [i \in 1 .. zrls |-> RefToken(ZRL, 0, FALSE, IF i = 1 THEN t.refs ELSE 0)]
      s == IF zrls = 0 THEN t
           ELSE [t EXCEPT !.toks = @ \o runs, !.r = @ - (ZRL + 1) * zrls,
                          !.eob_refs = @ + t.refs, !.refs = 0]
  IN  CASE absval = 0 -> [t EXCEPT !.r = @ + 1]
        [] absval > 1 -> [s EXCEPT !.refbits = Append(@, absval % 2), !.refs = @ + 1]
        [] OTHER -> [s EXCEPT !.toks = Append(@, RefToken(s.r, 1, v > 0, s.refs)),
                              !.next_eob_token = Len(s.toks) + 1,
                              !.num_nonzeros = @ + 1, !.refs = 0, !.eob_refs = 0, !.r = 0,
                              !.eob_run = 0, !.eob_refbits = 0]

\* Mutant: the refinement bits of a run are not limited to what a token can hold.
SplitRunNever(t, refs) == FALSE

\* The run cannot take the refinement bits of another block.
SplitRun(t, refs) == t.eob_refbits + refs > MaxRefBits

\* The block ends in zeros or refined coefficients: it starts an end-of-block run or extends
\* the one at next_eob_token.
EndOfBlock(t) ==
  LET refs == t.eob_refs + t.refs
      split == SplitRun(t, refs)
      place == IF split THEN t.next_eob_token + 1 ELSE t.next_eob_token
      run == IF split THEN 1 ELSE t.eob_run + 1
      refbits == IF split THEN refs ELSE t.eob_refbits + refs
      r == CASE run = 1 -> 0
             [] run = 2 -> 1
             [] OTHER -> IF 2^FloorLog2(run) = run THEN t.toks[place + 1].r + 1
                         ELSE t.toks[place + 1].r
      full == run = MaxEobRun
  IN  [t EXCEPT !.toks = Append(SubSeq(@, 1, place), RefToken(r, 0, FALSE, refbits)),
                !.eobruns = CASE run = 1 -> @
                              [] run = 2 -> Append(@, 0)
                              [] OTHER -> [@ EXCEPT ![Len(@)] =
                                             IF 2^FloorLog2(run) = run THEN 0 ELSE @ + 1],
                !.next_eob_token = IF full THEN place + 1 ELSE place,
                !.eob_run = IF full THEN 0 ELSE run,
                !.eob_refbits = IF full THEN 0 ELSE refbits]

RefineBlock(scan, t, block) ==
  LET fresh == IF AtRestart(t)
               THEN [t EXCEPT !.restarts = Append(@, Len(t.toks)),
                              !.restarts_to_go = t.restart_interval,
                              !.next_eob_token = Len(t.toks), !.eob_run = 0, !.eob_refbits = 0]
               ELSE t
      coded == FoldLeft(LAMBDA s, k : RefineCoefficient(scan, s, block[k]),
                        [fresh EXCEPT !.r = 0, !.refs = 0, !.eob_refs = 0],
                        [i \in 1 .. scan.Se - scan.Ss + 1 |-> scan.Ss + i - 1])
      ended == IF coded.r > 0 \/ coded.eob_refs + coded.refs > 0 THEN EndOfBlock(coded) ELSE coded
  IN  [ended EXCEPT !.restarts_to_go = @ - 1, !.peak = Max({@, Len(coded.toks), Len(ended.toks)})]

TokenizeACRefinementScan(scan, a) ==
  LET blocks == image[OnlyComp(scan)].blocks
      Scanned(t) ==
        [a |-> [a EXCEPT !.ref_tokens = @ + Len(t.toks),
                         !.ref_bits = @ + Len(t.refbits),
                         !.fits = @ /\ a.ref_tokens + t.peak <= a.max_ref_tokens
                                    /\ Len(t.eobruns) <= Len(blocks) \div 2],
         info |-> [Info(0, NewScan(scan, a)) EXCEPT
                     !.num = Len(t.toks), !.tokens = t.toks, !.refbits = t.refbits,
                     !.eobruns = t.eobruns, !.restarts = t.restarts,
                     !.num_nonzeros = t.num_nonzeros]]
  IN  Scanned(FoldLeft(LAMBDA s, b : RefineBlock(scan, s, b),
        [toks |-> <<>>, next_eob_token |-> 0, eob_run |-> 0, eob_refbits |-> 0,
         refbits |-> <<>>, eobruns |-> <<>>, r |-> 0, refs |-> 0, eob_refs |-> 0,
         restarts |-> <<>>, restart_interval |-> scan_restart_interval(scan),
         restarts_to_go |-> scan_restart_interval(scan), num_nonzeros |-> 0,
         peak |-> 0], blocks))

----------------------------------------------------------------------------
(* TokenizeJpeg. *)

TokenizeScan(scan, a) ==
  CASE scan.Ss > 0 /\ scan.Ah = 0 -> TokenizeACProgressiveScan(scan, a)
    [] scan.Ss > 0 /\ scan.Ah > 0 -> TokenizeACRefinementScan(scan, a)
    [] scan.Ss = 0 /\ scan.Ah = 0 -> TokenizeDCScan(scan, a)
    [] OTHER -> TokenizeDCRefinement(scan, a)

IsFirstACOfMany(scan) == scan.Ss > 0 /\ scan.Ah = 0 /\ scan.Al > 0
IsACRefinement(scan) == scan.Ss > 0 /\ scan.Ah > 0
num_refinement_scans(c, k) ==
  LET firsts == {i \in DOMAIN script : /\ IsFirstACOfMany(script[i])
                                       /\ OnlyComp(script[i]) = c /\ k \in Band(script[i])}
  IN  IF firsts = {} THEN 0 ELSE script[Max(firsts)].Al
max_num_refinement_scans ==
  Max({0} \cup {script[i].Al : i \in {j \in DOMAIN script : IsFirstACOfMany(script[j])}})

\* The scans of pass 0, of the passes 1 .. max_num_refinement_scans (j is the pass less
\* one) and of the last pass.
Turn(i) ==
  LET scan == script[i]
  IN  CASE pass = 0 -> IsFirstACOfMany(scan)
        [] pass \in 1 .. max_num_refinement_scans ->
             /\ IsACRefinement(scan)
             /\ scan.Ah = num_refinement_scans(OnlyComp(scan), scan.Ss) - (pass - 1)
        [] OTHER -> sti[i] = <<>>

TokenizeTurn(s, i) ==
  LET Scanned(t) ==
        [m |-> t.a, sti |-> [s.sti EXCEPT ![i] = t.info],
         nonzeros |-> s.nonzeros + t.info.num_nonzeros, future |-> s.future + t.info.future]
  IN  IF Turn(i) THEN Scanned(TokenizeScan(script[i], s.m)) ELSE s

\* Room for the end-of-block and zero-run tokens of a refinement scan.
RefinementTokens(scan) == (1 + (scan.Se - scan.Ss) \div (ZRL + 1)) * num_blocks(scan)
MoreRefinementTokens ==
  FoldLeft(LAMBDA n, scan : IF IsACRefinement(scan) THEN n + RefinementTokens(scan) ELSE n, 0, script)

\* Mutant: the coefficients that a refinement scan makes nonzero have no token.
max_refinement_tokens_no_future(num_future_nonzeros) == MoreRefinementTokens

max_refinement_tokens(num_future_nonzeros) == num_future_nonzeros + MoreRefinementTokens

\* One pass over the scans.  A refinement pass has an array of num_refinement_bits bits:
\* one for each coefficient that was nonzero in the passes before.
TokenizePass ==
  LET start == [m |-> [m EXCEPT !.ref_bits = 0], sti |-> sti, nonzeros |-> 0, future |-> 0]
  IN  /\ pass <= max_num_refinement_scans + 1
      /\ pass' = pass + 1
      /\ \E t \in {FoldLeft(TokenizeTurn, start, [i \in DOMAIN script |-> i])} :
           /\ sti' = t.sti
           /\ m' = [t.m EXCEPT
                !.num_refinement_bits = IF pass <= max_num_refinement_scans THEN @ + t.nonzeros ELSE @,
                !.max_ref_tokens = IF pass = 0 THEN max_refinement_tokens(t.future) ELSE @,
                !.bits_fit = @ /\ t.m.ref_bits <= m.num_refinement_bits]
      /\ UNCHANGED <<image, script, restart, written, decoded, decoder>>

----------------------------------------------------------------------------
(* WriteScanData: the symbols and extra bits of a scan, with restart markers. *)

Sym(r, s) == <<"sym", r, s>>
Bits(n, bits) == IF n = 0 THEN <<>> ELSE <<<<"bits", n, bits>>>>
RST(i) == <<"RST", i % 8, 0>>

\* The markers before the item with this index, counted as the restarts are.
Marker(info, index) ==
  IF Contains(info.restarts, index)
  THEN <<RST(Cardinality({j \in DOMAIN info.restarts : info.restarts[j] < index}))>> ELSE <<>>

WriteToken(t) == <<Sym(t.r, t.s)>> \o Bits(IF t.s = 0 /\ t.r < ZRL THEN t.r ELSE t.s, t.bits)

WriteTokens(info) ==
  FlattenSeq([i \in 1 .. info.num |->
    Marker(info, info.offset + i - 1) \o WriteToken(Tokens(m)[info.offset + i])])

\* Refinement tokens take their run lengths and refinement bits from arrays of their own.
WriteACRefinementTokens(info) ==
  LET IsRun(t) == t.s = 0 /\ t.r > 0 /\ t.r < ZRL
      Runs(i) == Cardinality({j \in 1 .. i : IsRun(info.tokens[j])})
      Refs(i) == FoldLeft(LAMBDA n, t : n + t.refbits, 0, SubSeq(info.tokens, 1, i))
      One(i) ==
        LET t == info.tokens[i]
        IN  Marker(info, i - 1) \o <<Sym(t.r, t.s)>> \o
            (IF t.s = 1 THEN Bits(1, IF t.positive THEN 1 ELSE 0)
             ELSE IF IsRun(t) THEN Bits(t.r, info.eobruns[Runs(i)]) ELSE <<>>) \o
            [j \in 1 .. t.refbits |-> <<"bits", 1, info.refbits[Refs(i - 1) + j]>>]
  IN  FlattenSeq([i \in 1 .. info.num |-> One(i)])

WriteDCRefinementBits(info) ==
  FlattenSeq([i \in 1 .. info.num |-> Marker(info, i - 1) \o Bits(1, info.refbits[i])])

WriteScanData(scan, info) ==
  CASE scan.Ah = 0 -> WriteTokens(info)
    [] scan.Ss > 0 -> WriteACRefinementTokens(info)
    [] OTHER -> WriteDCRefinementBits(info)

----------------------------------------------------------------------------
(* The scan decoder.  d has the stream left, the coefficients, the end-of-block run, the DC
   predictions and whether every read so far found what it expected. *)

Bad(d) == [d EXCEPT !.ok = FALSE]
Next1(d) == IF d.s = <<>> THEN <<"end", 0, 0>> ELSE Head(d.s)
HasSymbol(d) == Next1(d)[1] = "sym"
HasBits(d, n) == n = 0 \/ (Next1(d)[1] = "bits" /\ Next1(d)[2] = n)
BitsOf(d, n) == IF n = 0 THEN 0 ELSE Next1(d)[3]
Skip(d, n) == IF n = 0 THEN d ELSE [d EXCEPT !.s = Tail(@)]
HuffExtend(x, s) == IF s = 0 THEN 0 ELSE IF x >= 2^(s - 1) THEN x ELSE x - 2^s + 1

\* The end-of-block symbol of a run class r.
ReadEobRun(scan, d, r) ==
  IF ~HasBits(d, r) \/ (r > 0 /\ scan.Ss = 0) THEN Bad(d)
  ELSE [Skip(d, r) EXCEPT !.eobrun = 2^r + BitsOf(d, r)]

\* DecodeDCTBlock from coefficient k on.
RECURSIVE DecodeAC(_, _, _)
DecodeAC(scan, d, k) ==
  IF k > scan.Se THEN d
  ELSE IF ~HasSymbol(d) THEN Bad(d)
  ELSE LET r == Next1(d)[2]
           s == Next1(d)[3]
           rest == Skip(d, 1)
       IN  CASE s > 0 ->
                  IF k + r > scan.Se \/ ~HasBits(rest, s) THEN Bad(d)
                  ELSE DecodeAC(scan, [Skip(rest, s) EXCEPT
                         !.block[k + r] = HuffExtend(BitsOf(rest, s), s) * 2^scan.Al], k + r + 1)
             [] s = 0 /\ r = ZRL -> DecodeAC(scan, rest, k + ZRL + 1)
             [] OTHER -> ReadEobRun(scan, rest, r)

DecodeDC(scan, d, c) ==
  IF ~HasSymbol(d) \/ ~HasBits(Skip(d, 1), Next1(d)[3]) THEN Bad(d)
  ELSE LET s == Next1(d)[3]
           coeff == HuffExtend(BitsOf(Skip(d, 1), s), s) + d.last_dc[c]
       IN  [Skip(Skip(d, 1), s) EXCEPT !.block[0] = coeff * 2^scan.Al, !.last_dc[c] = coeff]

DecodeDCTBlock(scan, d, c) ==
  LET dc == IF scan.Ss = 0 THEN DecodeDC(scan, d, c) ELSE d
  IN  CASE Max({1, scan.Ss}) > scan.Se -> dc
        [] dc.eobrun > 0 -> [dc EXCEPT !.eobrun = @ - 1]
        [] OTHER -> [DecodeAC(scan, dc, Max({1, scan.Ss})) EXCEPT !.eobrun = @ - 1]

\* One refinement bit for each coefficient of ks that is not zero yet.
RefineNonzeros(scan, d, ks) ==
  FoldLeft(LAMBDA e, k :
             IF e.block[k] = 0 THEN e
             ELSE IF ~HasBits(e, 1) THEN Bad(e)
             ELSE LET v == e.block[k]
                      set == (Abs(v) \div 2^scan.Al) % 2 = 1
                      more == IF BitsOf(e, 1) = 1 /\ ~set THEN 2^scan.Al ELSE 0
                  IN  [Skip(e, 1) EXCEPT !.block[k] = IF v >= 0 THEN v + more ELSE v - more],
           d, SetToSortSeq(ks, <))

\* RefineDCTBlock from coefficient k on: a symbol goes to the zero coefficient after r others.
RECURSIVE RefineAC(_, _, _, _)
RefineAC(scan, d, k, in_zero_run) ==
  IF k > scan.Se THEN IF in_zero_run THEN Bad(d) ELSE d
  ELSE IF ~HasSymbol(d) THEN Bad(d)
  ELSE LET r == Next1(d)[2]
           s == Next1(d)[3]
           rest == Skip(Skip(d, 1), s)
           sign == IF BitsOf(Skip(d, 1), s) = 1 THEN 2^scan.Al ELSE -(2^scan.Al)
           zeros == {z \in k .. scan.Se : d.block[z] = 0}
           to == {z \in zeros : Cardinality({y \in zeros : y < z}) = r}
       IN  CASE s > 1 \/ ~HasBits(Skip(d, 1), s) -> Bad(d)
             [] s = 0 /\ r # ZRL ->
                  LET e == ReadEobRun(scan, Skip(d, 1), r)
                  IN  IF in_zero_run \/ ~e.ok THEN Bad(d) ELSE RefineNonzeros(scan, e, k .. scan.Se)
             [] to = {} -> Bad(d)
             [] OTHER ->
                  LET z == CHOOSE z \in to : TRUE
                      e == RefineNonzeros(scan, rest, k .. z)
                  IN  RefineAC(scan, IF s = 1 THEN [e EXCEPT !.block[z] = sign] ELSE e, z + 1, s = 0)

\* A DC refinement sets the bit in two's complement.
RefineDCTBlock(scan, d) ==
  CASE scan.Ss = 0 ->
         IF ~HasBits(d, 1) THEN Bad(d)
         ELSE [Skip(d, 1) EXCEPT !.block[0] =
                 IF (@ \div 2^scan.Al) % 2 = 0 THEN @ + BitsOf(d, 1) * 2^scan.Al ELSE @]
    [] d.eobrun > 0 -> [RefineNonzeros(scan, d, Band(scan)) EXCEPT !.eobrun = @ - 1]
    [] OTHER -> [RefineAC(scan, d, scan.Ss, FALSE) EXCEPT !.eobrun = @ - 1]

\* The padding at the end of a segment is no block: all that was coded has been read, and no
\* run is open (FinishScan).
HandleRestart(d) ==
  IF d.eobrun > 0 \/ Next1(d) # RST(d.next_restart) THEN Bad(d)
  ELSE [Skip(d, 1) EXCEPT !.eobrun = -1, !.last_dc = Zeros(Len(image)), !.next_restart = @ + 1,
                          !.restarts_to_go = d.restart_interval]

DecodeMCU(scan, d, mcu) ==
  LET r == IF AtRestart(d) THEN HandleRestart(d) ELSE d
      One(e, cb) ==
        IF ~e.ok THEN e
        ELSE LET in == [e EXCEPT !.block = Block(e.coefs, cb)]
                 out == IF scan.Ah = 0 THEN DecodeDCTBlock(scan, in, cb[1])
                        ELSE RefineDCTBlock(scan, in)
             IN  IF cb[2] = 0 THEN out ELSE [out EXCEPT !.coefs[cb[1]][cb[2]] = out.block]
  IN  [FoldLeft(One, r, mcu) EXCEPT !.restarts_to_go = @ - 1]

\* ProcessSOS accepts the scan after the ones before.
AcceptsScan(progression, scan) ==
  /\ scan.Ah # 0 => scan.Al = scan.Ah - 1
  /\ scan.Al <= 10
  /\ \A i \in DOMAIN scan.comps, k \in Band(scan) :
       LET seen == progression[scan.comps[i]][k]
       IN  /\ seen \cap (IF scan.Ah = 0 THEN scan.Al .. 15 ELSE {scan.Al}) = {}
           /\ seen \cap (0 .. scan.Al - 1) = {}
Progression(progression, scan) ==
  [c \in DOMAIN progression |-> [k \in 0 .. K |->
     IF Contains(scan.comps, c) /\ k \in Band(scan)
     THEN progression[c][k] \cup (IF scan.Ah = 0 THEN scan.Al .. 15 ELSE {scan.Al})
     ELSE progression[c][k]]]

\* WriteScanHeader: a DRI when the interval is not that of the scan before.  ProcessDRI takes
\* one in an image.
WritesDRI(scan, last_restart_interval) == scan_restart_interval(scan) # last_restart_interval
ProcessDRI(dec, scan) ==
  IF WritesDRI(scan, dec.restart_interval)
  THEN [dec EXCEPT !.ok = @ /\ ~dec.found_dri, !.found_dri = TRUE,
                   !.restart_interval = scan_restart_interval(scan)]
  ELSE dec

\* The next scan is written and decoded.
CodeScan ==
  LET i == written + 1
      scan == script[i]
      dec == ProcessDRI(decoder, scan)
      Decoded == FoldLeft(LAMBDA e, mcu : IF e.ok THEN DecodeMCU(scan, e, mcu) ELSE e,
                   [s |-> WriteScanData(scan, sti[i]), coefs |-> decoded, block |-> <<>>,
                    eobrun |-> -1, last_dc |-> Zeros(Len(image)), ok |-> TRUE, next_restart |-> 0,
                    restart_interval |-> dec.restart_interval,
                    restarts_to_go |-> dec.restart_interval], MCUs(scan))
  IN  /\ pass > max_num_refinement_scans + 1
      /\ written < Len(script)
      /\ written' = i
      /\ \E d \in {Decoded} :
           /\ decoded' = d.coefs
           /\ decoder' = [dec EXCEPT !.progression = Progression(@, scan),
                                     !.ok = /\ @ /\ d.ok /\ d.s = <<>> /\ d.eobrun <= 0
                                            /\ AcceptsScan(dec.progression, scan)]
      /\ UNCHANGED <<image, script, restart, pass, m, sti>>

----------------------------------------------------------------------------

\* restart_in_rows is for one component here: with several of different widths the scans have
\* different intervals, and the decoder refuses the DRI of the second one.
Init ==
  /\ image \in Images
  /\ script \in {s \in Scripts : ValidateScanScript(s, Len(image))}
  /\ restart \in {r \in Restarts : r.rows > 0 => Len(image) = 1}
  /\ pass = 0 /\ written = 0
  /\ m = [arrays |-> <<<<>>>>, num_tokens |-> 0, max_arrays |-> Len(script) * image[1].rows,
          fits |-> TRUE, bits_fit |-> TRUE, ref_tokens |-> 0, ref_bits |-> 0,
          max_ref_tokens |-> 0, num_refinement_bits |-> 0]
  /\ sti = [i \in DOMAIN script |-> <<>>]
  /\ decoded = [c \in DOMAIN image |-> [b \in DOMAIN image[c].blocks |-> [k \in 0 .. K |-> 0]]]
  /\ decoder = [progression |-> [c \in DOMAIN image |-> [k \in 0 .. K |-> {}]], ok |-> TRUE,
                found_dri |-> FALSE, restart_interval |-> 0]

Next == TokenizePass \/ CodeScan
Spec == Init /\ [][Next]_vars

----------------------------------------------------------------------------
(* Properties. *)

\* What the coefficients are worth when the scans 1 .. n have been sent: the bits from the
\* last Al of each upwards.
Approximation(c, b, k, n) ==
  LET scans == {i \in 1 .. n : Contains(script[i].comps, c) /\ k \in Band(script[i])}
      v == image[c].blocks[b][k]
      Al == script[Max(scans)].Al
  IN  IF scans = {} THEN 0 ELSE IF k = 0 THEN (v \div 2^Al) * 2^Al ELSE Shifted(v, Al) * 2^Al

\* After every scan the decoder has exactly the bits that the scans so far have sent, has
\* read the scan to its end, and has accepted its parameters: zero runs, end-of-block runs
\* that are taken back and extended, refinement bits kept apart from their tokens, padding
\* blocks and restarts agree between tokenizer, writer and decoder.
ScansDecode ==
  /\ decoder.ok
  /\ \A c \in Comps : \A b \in DOMAIN image[c].blocks, k \in 0 .. K :
       decoded[c][b][k] = Approximation(c, b, k, written)

\* No array of the tokenizer is written beyond its end: the token arrays and their number,
\* the refinement tokens (zero runs that are taken back included), the end-of-block runs.
TokensFit == m.fits

\* The refinement scans of a pass write no more refinement bits than TokenizeJpeg has allocated
\* for it: JPEGLI_DASSERT(m->next_refinement_bit <= refinement_bits + num_refinement_bits).
RefinementBitsFit == m.bits_fit
=============================================================================
