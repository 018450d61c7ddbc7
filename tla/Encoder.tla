------------------------------ MODULE Encoder ------------------------------
(***************************************************************************)
(* The compressor of lib/jpegli: jpegli_start_compress, write_scanlines,   *)
(* write_raw_data, write_coefficients, write_tables, finish_compress and   *)
(* abort_compress, with the row rings behind them, the bit writer and the  *)
(* destination managers.  A row of samples is abstracted to the number of  *)
(* the line it came from, and the compressed stream to its markers and to  *)
(* two units per coded iMCU row (or one per scan).                         *)
(***************************************************************************)
EXTENDS Integers, Sequences, FiniteSets, SequencesExt

CONSTANTS Images,      \* parameter records of the images (see Image below)
          LaterImages, \* those of them that a session may have after its first
          Dests,       \* destinations: [kind : {"stdio", "mem", "app"}, size : Nat]
          MemVars,     \* what *outbuffer is at a later jpegli_mem_dest
          LineCounts,  \* values of num_lines
          MaxImages,   \* bound: images and table streams of a session
          MaxRefusals, \* bound: buffers that the destination does not take
          MaxAborts,   \* bound: jpegli_abort_compress calls in the middle of an image
          Densities    \* tokens of a coded block, 2 to 64

DCTSIZE == 8
Garbage == -1
NULL == 0
DivCeil(a, b) == (a + b - 1) \div b

\* The parameters a run gives for an image: image_height, total_iMCU_cols, the
\* sampling factors and quantization tables of the components, the index of the
\* luma component, the input mode and the coding options.
Image == [height : Nat, cols : Nat, h : Seq(1 .. 4), v : Seq(1 .. 4), q : Seq(0 .. 3),
          ychan : 1 .. 4, mode : {"pixels", "raw", "coeffs"}, smoothing : BOOLEAN,
          aq : BOOLEAN, optimize : BOOLEAN, psnr : BOOLEAN, restart : BOOLEAN,
          scans : Nat \ {0}, app : 0 .. 1, all_tables : BOOLEAN]

ASSUME ImagesAssumption == LaterImages \subseteq Images /\ Images \subseteq Image /\ Images # {}
ASSUME DestsAssumption == Dests \subseteq [kind : {"stdio", "mem", "app"}, size : Nat]
ASSUME CountsAssumption == LineCounts \subseteq Nat /\ Densities \subseteq 2 .. 64

VARIABLES
  global_state,   \* cinfo->global_state
  failed,         \* JPEGLI_ERROR has been raised and the application came back by longjmp
  next_scanline,  \* cinfo->next_scanline
  img,            \* the parameters of the current or last image
  call,           \* the loop of jpegli_write_scanlines: its next line, lines left
  m,              \* cinfo->master: row rings, coded rows, token array, bit writer
  dest,           \* cinfo->dest
  heap,           \* malloc'ed output buffers and the ones the application keeps
  tables,         \* quantization and Huffman tables and their sent_table flags
  known,          \* the tables a decoder has received in the session's streams
  finished,       \* what the stream that term_destination has just ended is
  budget          \* what is left of the bounds

vars == <<global_state, failed, next_scanline, img, call, m, dest, heap, tables, known,
          finished, budget>>

----------------------------------------------------------------------------
(* Geometry: ProcessCompressionParams. *)

Comps(p) == DOMAIN p.v
max_v_samp_factor(p) == Max({p.v[c] : c \in Comps(p)})
max_h_samp_factor(p) == Max({p.h[c] : c \in Comps(p)})
v_factor(p, c) == max_v_samp_factor(p) \div p.v[c]
h_factor(p, c) == max_h_samp_factor(p) \div p.h[c]
iMCU_height(p) == DCTSIZE * max_v_samp_factor(p)
total_iMCU_rows(p) == DivCeil(p.height, iMCU_height(p))
ysize_blocks(p) == total_iMCU_rows(p) * max_v_samp_factor(p)

\* The blocks of each of the (at most four) components.
blocks_per_iMCU_row(p) ==
  LET Blocks(c) == IF c \in Comps(p) THEN p.h[c] * p.v[c] ELSE 0
  IN  p.cols * (Blocks(1) + Blocks(2) + Blocks(3) + Blocks(4))

\* What ProcessCompressionParams does not refuse: an image with lines, one to four
\* components, integral sampling ratios.
ASSUME ShapeAssumption ==
  \A p \in Images :
    /\ p.height >= 1 /\ p.ychan \in Comps(p)
    /\ Comps(p) \subseteq 1 .. 4 /\ DOMAIN p.h = Comps(p) /\ DOMAIN p.q = Comps(p)
    /\ \A c \in Comps(p) : /\ max_v_samp_factor(p) % p.v[c] = 0
                           /\ max_h_samp_factor(p) % p.h[c] = 0

\* Adaptive quantization is switched off for a subsampled luma channel, and stays
\* off for the images that follow.
use_adaptive_quantization(p, t) ==
  /\ p.aq
  /\ t.aq
  /\ p.v[p.ychan] = max_v_samp_factor(p)
  /\ p.h[p.ychan] = max_h_samp_factor(p)

IsStreamingSupported(p) ==
  /\ p.mode # "coeffs"
  /\ ~p.restart
  /\ p.scans = 1
  /\ ~p.psnr

WritesBits(p) == IsStreamingSupported(p) /\ ~p.optimize
progressive_mode(p) == p.scans > 1

\* What a reader of row y has to find: the line, or the nearest one beyond the
\* border.  Lines below the image repeat the last one, except for raw data, where
\* the application supplies all rows.
Want(p, y) ==
  LET last == IF p.mode = "raw" THEN ysize_blocks(p) * DCTSIZE - 1 ELSE p.height - 1
  IN  IF y < 0 THEN 0 ELSE IF y > last THEN last ELSE y

----------------------------------------------------------------------------
(* RowBuffer: a ring of rows. *)

Slot(buf, y) == (Cardinality(DOMAIN buf) + y) % Cardinality(DOMAIN buf)
Row(buf, y) == buf[Slot(buf, y)]
CopyRow(buf, dst, src) == [buf EXCEPT ![Slot(buf, dst)] = Row(buf, src)]
NewRing(n) == [s \in 0 .. n - 1 |-> Garbage]

\* Mutant: two iMCU rows.
InputRingOfTwo(p, c) ==
  NewRing(2 * DCTSIZE * (IF p.mode = "raw" THEN p.v[c] ELSE max_v_samp_factor(p)))

\* The three iMCU rows of each component.
InputRing(p, c) ==
  NewRing(3 * DCTSIZE * (IF p.mode = "raw" THEN p.v[c] ELSE max_v_samp_factor(p)))

AllocateBuffers(p, aq) ==
  [use_adaptive_quantization |-> aq, next_input_row |-> 0, next_iMCU_row |-> 0,
   input_buffer |-> [c \in Comps(p) |-> InputRing(p, c)],
   pre_erosion |-> NewRing(6 * max_v_samp_factor(p)),
   right |-> TRUE,                         \* the rows coded so far were right
   cur_token_array |-> 0, allocated |-> FALSE, num_tokens |-> 0,
   ta_num_tokens |-> 0, total_num_tokens |-> 0,
   bw |-> <<>>, output_pos |-> 0, markers |-> 0, used |-> <<>>]

ReadInputRow(p, s, line) ==
  [s EXCEPT !.input_buffer = [c \in Comps(p) |->
               LET buf == s.input_buffer[c]
               IN  [buf EXCEPT ![Slot(buf, s.next_input_row)] = line]],
            !.next_input_row = @ + 1]

\* The last line is repeated down to a whole number of iMCU rows.
PadInputBuffer(p, s) ==
  LET padded == p.height .. ysize_blocks(p) * DCTSIZE - 1
      Pad(buf) == [t \in DOMAIN buf |->
                     IF \E y \in padded : Slot(buf, y) = t THEN Row(buf, p.height - 1)
                     ELSE buf[t]]
  IN  IF s.next_input_row # p.height THEN s
      ELSE [s EXCEPT !.input_buffer = [c \in Comps(p) |-> Pad(@[c])],
                     !.next_input_row = ysize_blocks(p) * DCTSIZE]

----------------------------------------------------------------------------
(* One iMCU row: smoothing, downsampling, adaptive quantization. *)

\* Rows -1 and last + 1 of the ring are copies of the first and the last row.
CopyBorders(p, s, buf) ==
  LET last == ysize_blocks(p) * DCTSIZE - 1
      top == IF s.next_iMCU_row = 0 THEN CopyRow(buf, -1, 0) ELSE buf
  IN  IF s.next_iMCU_row + 1 = total_iMCU_rows(p) THEN CopyRow(top, last + 1, last) ELSE top

ApplyInputSmoothing(p, s) ==
  IF ~p.smoothing \/ p.mode = "raw" THEN s
  ELSE [s EXCEPT !.input_buffer = [c \in Comps(p) |-> CopyBorders(p, s, @[c])]]

\* Row y of smooth_input[c] is made of the rows it should be made of.
SmoothInputRight(p, s, c, y) ==
  \A d \in IF p.smoothing THEN {-1, 0, 1} ELSE {0} :
     Row(s.input_buffer[c], y + d) = Want(p, y + d)

\* ChooseDownsampleMethods: the rows and columns that the method averages.  For a
\* ratio of 3 rows the code chooses the method for 2.
downsample_method(p, c) ==
  <<h_factor(p, c), IF v_factor(p, c) = 3 THEN 2 ELSE v_factor(p, c)>>

\* These methods first shrink the rows they read in place.
ShrinksInPlace(method) == method[2] >= 2 /\ (method[1] >= 3 \/ method = <<2, 4>>)

\* Row y of raw_data[c] is made of the rows it should be made of.
RawDataRight(p, s, c, y) ==
  IF p.mode = "raw" THEN Row(s.input_buffer[c], y) = y
  ELSE \A iy \in 0 .. downsample_method(p, c)[2] - 1 :
          SmoothInputRight(p, s, c, y * v_factor(p, c) + iy)

\* What is left of the input rows: without smoothing they are the rows that the
\* method shrinks.
DownsampleInputBuffer(p, s) ==
  LET H == iMCU_height(p)
      rows == s.next_iMCU_row * H .. s.next_iMCU_row * H + H - 1
      Left(c) ==
        LET buf == s.input_buffer[c]
        IN  [t \in DOMAIN buf |->
               IF \E y \in rows : /\ Slot(buf, y) = t
                                  /\ y % v_factor(p, c) < downsample_method(p, c)[2]
               THEN Garbage ELSE buf[t]]
  IN  IF p.mode = "raw" \/ p.smoothing THEN s
      ELSE [s EXCEPT !.input_buffer = [c \in Comps(p) |->
              IF ShrinksInPlace(downsample_method(p, c)) THEN Left(c) ELSE @[c]]]

\* Row y of pre_erosion sums the differences of four rows to their neighbours.
PreErosionRight(p, s, y) ==
  \A d \in -1 .. 4 : Row(s.input_buffer[p.ychan], 4 * y + d) = Want(p, 4 * y + d)

\* The rows of pre_erosion computed with this iMCU row: they run half a block
\* ahead, so that the erosion below has a row of context.
PreErosionRows(p, s) ==
  LET y0 == s.next_iMCU_row * iMCU_height(p)
      from == IF y0 = 0 THEN 0 ELSE y0 + 4
      len == iMCU_height(p) + (IF y0 = 0 THEN 4 ELSE 0)
             - (IF s.next_iMCU_row + 1 = total_iMCU_rows(p) THEN 4 ELSE 0)
  IN  from \div 4 .. (from + len) \div 4 - 1

ComputePreErosion(p, s) ==
  LET rows == PreErosionRows(p, s)
      buf == [t \in DOMAIN s.pre_erosion |->
                IF \E y \in rows : Slot(s.pre_erosion, y) = t
                THEN LET y == Max({x \in rows : Slot(s.pre_erosion, x) = t})
                     IN  IF PreErosionRight(p, s, y) THEN y ELSE Garbage
                ELSE s.pre_erosion[t]]
      last == ysize_blocks(p) * 2 - 1
      top == IF s.next_iMCU_row = 0 THEN CopyRow(buf, -1, 0) ELSE buf
  IN  IF s.next_iMCU_row + 1 = total_iMCU_rows(p) THEN CopyRow(top, last + 1, last) ELSE top

\* FuzzyErosion and PerBlockModulations read one row of context of pre_erosion,
\* and the rows of the blocks themselves.
QuantFieldRight(p, s) ==
  LET n == 2 * max_v_samp_factor(p)
      first == s.next_iMCU_row * n
      last == ysize_blocks(p) * 2 - 1
      H == iMCU_height(p)
  IN  /\ \A y \in first - 1 .. first + n :
            Row(s.pre_erosion, y) = (IF y < 0 THEN 0 ELSE IF y > last THEN last ELSE y)
      /\ \A y \in s.next_iMCU_row * H .. s.next_iMCU_row * H + H - 1 :
            Row(s.input_buffer[p.ychan], y) = Want(p, y)

ComputeAdaptiveQuantField(p, s) ==
  IF ~s.use_adaptive_quantization THEN s
  ELSE LET s1 == [s EXCEPT !.input_buffer[p.ychan] = CopyBorders(p, s, @)]
       IN  [s1 EXCEPT !.pre_erosion = ComputePreErosion(p, s1)]

----------------------------------------------------------------------------
(* Token arrays and bits of one iMCU row. *)

MaxNumTokensPerMCURow(p) == 64 * blocks_per_iMCU_row(p)
SizeT == 2^30    \* size_t, cut to TLC's integers

EstimateNumTokens(mcu_y, ysize_mcus, num_tokens, max_per_row) ==
  LET estimate == IF mcu_y = 0 THEN 16 * max_per_row
                  ELSE (4 * ysize_mcus * num_tokens) \div (3 * mcu_y)
      more == (estimate - num_tokens) % SizeT
      rest == (ysize_mcus - mcu_y) * max_per_row
  IN  Min({rest, Max({max_per_row, more})})

\* Mutant: room for the tokens of the last row is not asked for.
ReserveTokensOnce(p, s) ==
  IF s.allocated THEN s
  ELSE [s EXCEPT !.num_tokens = EstimateNumTokens(0, 1, 0, MaxNumTokensPerMCURow(p)),
                 !.allocated = TRUE]

\* A new token array when the current one may not hold another iMCU row.
ReserveTokens(p, s) ==
  LET max == MaxNumTokensPerMCURow(p)
      total == s.total_num_tokens + (IF s.allocated THEN s.ta_num_tokens ELSE 0)
  IN  IF s.ta_num_tokens + max <= s.num_tokens THEN s
      ELSE [s EXCEPT !.total_num_tokens = total,
                     !.cur_token_array = IF s.allocated THEN @ + 1 ELSE @,
                     !.num_tokens = EstimateNumTokens(s.next_iMCU_row, total_iMCU_rows(p),
                                                      total, max),
                     !.ta_num_tokens = 0, !.allocated = TRUE]

RowUnits(r) == <<<<"row", r, 1>>, <<"row", r, 2>>>>

\* Mode coefficients, tokens (density: the tokens of a block, 2 to 64) or bits.
EncodeiMCURow(p, s, density) ==
  CASE WritesBits(p) -> [s EXCEPT !.bw = @ \o RowUnits(s.next_iMCU_row)]
    [] IsStreamingSupported(p) /\ p.optimize ->
         [ReserveTokens(p, s) EXCEPT !.ta_num_tokens = @ + density * blocks_per_iMCU_row(p)]
    [] OTHER -> s

ProcessiMCURow(p, s, density) ==
  LET smoothed == ApplyInputSmoothing(p, s)
      right == \A c \in Comps(p) :
                 LET n == DCTSIZE * p.v[c]
                 IN  \A y \in s.next_iMCU_row * n .. s.next_iMCU_row * n + n - 1 :
                        RawDataRight(p, smoothed, c, y)
      aq == ComputeAdaptiveQuantField(p, DownsampleInputBuffer(p, smoothed))
      field_right == s.use_adaptive_quantization => QuantFieldRight(p, aq)
  IN  [EncodeiMCURow(p, aq, density) EXCEPT
         !.right = @ /\ s.next_iMCU_row < total_iMCU_rows(p) /\ right /\ field_right,
         !.next_iMCU_row = @ + 1]

\* One iMCU row behind the input, and two after the last line.
ProcessiMCURows(p, s, density) ==
  LET H == iMCU_height(p)
      s1 == IF s.next_input_row % H = 0 /\ s.next_input_row > H
            THEN ProcessiMCURow(p, s, density) ELSE s
  IN  IF s.next_input_row >= p.height THEN ProcessiMCURow(p, s1, density) ELSE s1
----------------------------------------------------------------------------
(* Destination managers.  A unit of the stream is <<kind, a, b>>; the buffer   *)
(* of the destination holds size units.                                        *)

free_in_buffer(d) == d.size - Len(d.buf)
Gain(d, j) == IF d.kind = "mem" THEN d.size * (2^j - 1) ELSE d.size * j

\* j calls of empty_output_buffer make room for n units, and none of them is made
\* before the buffer is full.
Enough(d, n, j) == free_in_buffer(d) + Gain(d, j) >= n
EachNeeded(d, n, j) == \A i \in 0 .. j - 1 : ~Enough(d, n, i)

\* The stdio and the application's manager deliver a full buffer and start again;
\* the memory manager doubles its buffer.
Fill(d, units, j) ==
  LET n == Min({Len(units), free_in_buffer(d) + Gain(d, j)})
      all == d.buf \o SubSeq(units, 1, n)
  IN  IF d.kind = "mem" THEN [d EXCEPT !.buf = all, !.size = @ * 2^j]
      ELSE [d EXCEPT !.file = @ \o SubSeq(all, 1, j * d.size),
                     !.buf = SubSeq(all, j * d.size + 1, Len(all))]

\* The j buffers that MemoryDestinationManager allocates, each freeing the last.
Grow(h, d, j) ==
  IF d.kind # "mem" \/ j = 0 THEN h
  ELSE [h EXCEPT !.live = (@ \ {h.temp}) \cup {h.fresh + j - 1}, !.fresh = @ + j,
                 !.temp = h.fresh + j - 1, !.output = h.fresh + j - 1,
                 !.outsize = d.size * 2^(j - 1)]

Stream(d) == SubSeq(d.file \o d.buf, d.base + 1, Len(d.file) + Len(d.buf))

\* (file is what was delivered of the current stream.)
init_destination(d) ==
  LET e == IF d.kind = "mem" THEN d ELSE [d EXCEPT !.buf = <<>>]
  IN  [e EXCEPT !.base = Len(e.buf), !.file = <<>>, !.ready = FALSE]

term_destination(d) ==
  IF d.kind = "mem" THEN d ELSE [d EXCEPT !.file = @ \o d.buf, !.buf = <<>>]

----------------------------------------------------------------------------
(* Marker segments. *)

Seg(kind, a) == <<kind, a, 0>>
Slots == 0 .. 3
QSlots(p, t) == {t.qno[c] : c \in Comps(p)}

\* The tables that are not flagged as sent, each as a unit of its own.
EncodeDQT(t, slots) ==
  LET DQT(i) == IF i \in slots /\ ~t.qsent[i] THEN <<<<"DQT", i, t.q[i]>>>> ELSE <<>>
  IN  [units |-> DQT(0) \o DQT(1) \o DQT(2) \o DQT(3),
       tables |-> [t EXCEPT !.qsent = [i \in Slots |-> @[i] \/ i \in slots]]]

\* The codes made for the image are never flagged; the flag of the fixed ones is
\* the application's.
EncodeDHT(p, t) ==
  IF p.optimize \/ progressive_mode(p) THEN <<Seg("DHT", "own")>>
  ELSE IF t.hsent THEN <<>> ELSE <<Seg("DHT", "fixed")>>

WriteFrameHeader(p, t) ==
  LET dqt == EncodeDQT(t, QSlots(p, t))
  IN  [units |-> Append(dqt.units, Seg("SOF", 0)), tables |-> dqt.tables]

\* The first scan, with the codes of all scans before it; see HuffmanSlots for the
\* codes of progressive AC scans.
WriteScanHeader(p, t) == Append(EncodeDHT(p, t), Seg("SOS", 1))

\* The data of the scans, and the headers of those after the first.
ScansAfterHeader(p) ==
  [k \in 1 .. 2 * p.scans - 1 |-> IF k % 2 = 1 THEN Seg("scan", (k + 1) \div 2)
                                  ELSE Seg("SOS", k \div 2 + 1)]

jpegli_suppress_tables(t, suppress) ==
  [t EXCEPT !.qsent = [i \in Slots |-> suppress], !.hsent = suppress]

\* Mutant: the new tables keep the flags of the old ones.
SetQuantMatricesKeepSent(t, add_two_chroma_tables, p) ==
  [t EXCEPT !.q = [i \in Slots |-> IF i < 2 THEN t.next ELSE @[i]], !.next = @ + 1]

\* quality: two tables; distance and the PSNR search: three, the last component
\* moving to the third.
SetQuantMatrices(t, add_two_chroma_tables, p) ==
  LET n == IF add_two_chroma_tables THEN 3 ELSE 2
  IN  [t EXCEPT !.q = [i \in Slots |-> IF i < n THEN t.next ELSE @[i]],
                !.qsent = [i \in Slots |-> i >= n /\ @[i]],
                !.qno = IF add_two_chroma_tables /\ Len(@) >= 3 THEN [@ EXCEPT ![3] = 2] ELSE @,
                !.next = @ + 1]

\* The versions of the tables that the coefficients are quantized with.
InitQuantizer(p, t) == [c \in Comps(p) |-> t.q[t.qno[c]]]

\* The search tries tables until one is right, sets that one and quantizes again.
QuantizetoPSNR(p, t) == SetQuantMatrices(t, TRUE, p)
----------------------------------------------------------------------------
(* What the environment of a step may do: a full buffer is taken, or refused   *)
(* (the application's manager returns FALSE, fwrite fails).                     *)

\* Mutant: what went out before a refusal is forgotten.
UnitsMovedForgotten(d, n, j) == 0

UnitsMoved(d, n, j) == Min({n, free_in_buffer(d) + Gain(d, j)})

\* WriteOutput: units reach the destination d, or empty_output_buffer fails, which is
\* an error.  last: term_destination follows, where fwrite may fail too.
WriteOutput(d, units, last, ok) ==
  \E j \in 0 .. Len(units) :
    /\ EachNeeded(d, Len(units), j)
    /\ IF ok THEN Enough(d, Len(units), j)
       ELSE ~Enough(d, Len(units), j) \/ (last /\ d.kind = "stdio")
    /\ ok \/ (d.kind # "mem" /\ budget.refusals > 0)
    /\ dest' = IF ok /\ last THEN term_destination(Fill(d, units, j)) ELSE Fill(d, units, j)
    /\ heap' = LET h == Grow(heap, d, j)
               IN  IF ok /\ last /\ d.kind = "mem" THEN [h EXCEPT !.outsize = Len(dest'.buf)]
                   ELSE h
    /\ failed' = ~ok

Idle == [pc |-> "idle", line |-> 0, left |-> 0]
Spend(ok) == [budget EXCEPT !.refusals = IF ok THEN @ ELSE @ - 1]

\* EmptyBitWriterBuffer on the state s of the encoder: the bytes that were moved
\* before the destination refused are not moved again.
EmptyBitWriterBuffer(s, ok) ==
  LET pending == SubSeq(s.bw, s.output_pos + 1, Len(s.bw))
  IN  \E j \in 0 .. Len(pending) :
        /\ EachNeeded(dest, Len(pending), j)
        /\ ok = Enough(dest, Len(pending), j)
        /\ ok \/ (dest.kind # "mem" /\ budget.refusals > 0)
        /\ dest' = Fill(dest, pending, j)
        /\ heap' = Grow(heap, dest, j)
        /\ m' = IF ok THEN [s EXCEPT !.bw = <<>>, !.output_pos = 0]
                ELSE [s EXCEPT !.output_pos = @ + UnitsMoved(dest, Len(pending), j)]
        /\ budget' = Spend(ok)
        /\ failed' = (~ok /\ dest.kind = "stdio")

\* What a decoder knows after a stream: the tables that precede its first scan.
Learn(k, stream) ==
  LET Before(i) == \A j \in 1 .. i : stream[j][1] # "SOS"
      Sent(kind, a) ==
        {i \in DOMAIN stream : Before(i) /\ stream[i][1] = kind /\ (kind = "DQT" => stream[i][2] = a)}
  IN  [k EXCEPT !.q = [s \in Slots |-> IF Sent("DQT", s) = {} THEN @[s]
                                       ELSE stream[Max(Sent("DQT", s))][3]],
                !.h = IF Sent("DHT", 0) = {} THEN @ ELSE stream[Max(Sent("DHT", 0))][2]]

----------------------------------------------------------------------------
(* The API.  Idle calls of the application: *)

Ready(state) == ~failed /\ call = Idle /\ global_state = state

\* Mutant: temp_buffer keeps the result of the last image.
TempOfFirst(h) == IF h.temp = NULL THEN h.fresh ELSE h.temp

\* The buffer that jpegli_mem_dest allocates for a NULL *outbuffer.
TempBuffer(h) == h.fresh

\* jpegli_stdio_dest, jpegli_mem_dest, or a manager of the application.
SetDest(d, var) ==
  /\ Ready("kEncStart") /\ ~dest.ready /\ budget.images > 0
  /\ IF dest.kind \notin {"none", d.kind}
     THEN failed' = TRUE /\ UNCHANGED <<dest, heap>>
     ELSE /\ d.kind = "mem" /\ var = "same" => heap.output # NULL /\ heap.outsize > 0
          /\ dest' = [kind |-> d.kind, buf |-> <<>>, file |-> <<>>, base |-> 0, ready |-> TRUE,
                      size |-> IF d.kind = "mem" /\ var = "same" THEN heap.outsize ELSE d.size]
          /\ heap' = IF d.kind # "mem" \/ var = "same" THEN heap
                     ELSE [live |-> heap.live \cup {heap.fresh}, fresh |-> heap.fresh + 1,
                           kept |-> heap.kept \cup ({heap.output} \ {NULL}),
                           output |-> heap.fresh, outsize |-> d.size,
                           temp |-> IF var = "fresh" THEN TempBuffer(heap) ELSE heap.temp]
          /\ UNCHANGED failed
  /\ finished' = "no"
  /\ UNCHANGED <<global_state, next_scanline, img, call, m, tables, known, budget>>

\* jpegli_set_quality and jpegli_set_distance.
SetQuality(two_chroma) ==
  /\ Ready("kEncStart") /\ budget.qualities > 0
  /\ tables' = SetQuantMatrices(tables, two_chroma, img)
  /\ budget' = [budget EXCEPT !.qualities = @ - 1]
  /\ finished' = "no"
  /\ UNCHANGED <<global_state, failed, next_scanline, img, call, m, dest, heap, known>>

\* InitCompress for jpegli_start_compress and jpegli_write_coefficients.  The
\* application leaves out tables only if the decoder has all that were sent.
StartCompress(p) ==
  /\ Ready("kEncStart") /\ budget.images > 0 /\ dest.kind # "none"
  /\ p.all_tables \/ known.sound
  /\ LET aq == use_adaptive_quantization(p, tables)
         t0 == [tables EXCEPT !.qno = p.q, !.aq = IF p.mode = "coeffs" THEN @ ELSE aq]
         t == IF p.all_tables \/ p.mode = "coeffs" THEN jpegli_suppress_tables(t0, FALSE) ELSE t0
         start == IF p.mode = "coeffs" THEN p.height ELSE 0
     IN  /\ global_state' = IF p.mode = "coeffs" THEN "kEncWriteCoeffs" ELSE "kEncHeader"
         /\ tables' = t
         /\ m' = [AllocateBuffers(p, aq) EXCEPT !.used = InitQuantizer(p, t),
                                                !.next_input_row = start]
         /\ next_scanline' = start
         /\ \E ok \in BOOLEAN :
              \/ /\ \A c \in Comps(p) : t.q[t.qno[c]] # NULL
                 /\ WriteOutput(init_destination(dest), <<Seg("SOI", 0)>>, FALSE, ok)
                 /\ budget' = [Spend(ok) EXCEPT !.images = @ - 1]
              \/ /\ \E c \in Comps(p) : t.q[t.qno[c]] = NULL   \* missing quantization table
                 /\ failed' = TRUE
                 /\ budget' = [budget EXCEPT !.images = @ - 1]
                 /\ UNCHANGED <<dest, heap>>
  /\ img' = p /\ finished' = "no"
  /\ UNCHANGED <<call, known>>

\* The stream of tables alone.
WriteTables ==
  /\ Ready("kEncStart") /\ budget.images > 0 /\ dest.kind # "none"
  /\ LET dqt == EncodeDQT(tables, {i \in Slots : tables.q[i] # NULL})
         dht == IF tables.hsent THEN <<>> ELSE <<Seg("DHT", "fixed")>>
         units == <<Seg("SOI", 0)>> \o dqt.units \o dht \o <<Seg("EOI", 0)>>
     IN  \E ok \in BOOLEAN :
           /\ WriteOutput(init_destination(dest), units, TRUE, ok)
           /\ budget' = [Spend(ok) EXCEPT !.images = @ - 1]
           /\ tables' = IF ok THEN jpegli_suppress_tables(dqt.tables, TRUE) ELSE dqt.tables
           /\ known' = IF ok THEN Learn(known, Stream(dest')) ELSE known
           /\ finished' = IF ok THEN "tables" ELSE "no"
  /\ UNCHANGED <<global_state, next_scanline, img, call, m>>

WriteMarker ==
  /\ Ready("kEncHeader") \/ Ready("kEncWriteCoeffs")
  /\ m.markers < img.app
  /\ \E ok \in BOOLEAN :
       /\ WriteOutput(dest, <<Seg("APP", m.markers)>>, FALSE, ok)
       /\ budget' = Spend(ok)
  /\ m' = [m EXCEPT !.markers = @ + 1]
  /\ UNCHANGED <<global_state, next_scanline, img, call, tables, known, finished>>

----------------------------------------------------------------------------
(* jpegli_write_scanlines and jpegli_write_raw_data: the call, then its loop. *)

\* The lines of the call.
Lines(n) == IF n + next_scanline > img.height THEN img.height - next_scanline ELSE n

\* The headers precede the first line of an image whose bits are written at once.
BeginWrite(n) ==
  /\ Ready("kEncHeader") \/ Ready("kEncReadImage")
  /\ LET headers == global_state = "kEncHeader" /\ WritesBits(img)
         frame == WriteFrameHeader(img, tables)
         units == frame.units \o WriteScanHeader(img, frame.tables)
     IN  \E ok \in BOOLEAN :
           /\ WriteOutput(dest, IF headers THEN units ELSE <<>>, FALSE, ok)
           /\ budget' = Spend(ok)
           /\ tables' = IF headers THEN frame.tables ELSE tables
           /\ call' = IF ~ok THEN Idle
                      ELSE [pc |-> IF img.mode = "raw" THEN "raw" ELSE "lag",
                            line |-> next_scanline,
                            left |-> IF img.mode = "raw" THEN n ELSE Lines(n)]
  /\ global_state' = "kEncReadImage"
  /\ UNCHANGED <<next_scanline, img, m, known, finished>>

\* Lines taken by an earlier call that the destination then suspended.
input_lag == Min({img.height, m.next_input_row}) - next_scanline

\* Mutant: the lines of the lag are not counted.
LagUncounted == next_scanline

LagCounted == next_scanline + input_lag

CatchUp ==
  /\ ~failed /\ call.pc = "lag"
  /\ \/ /\ input_lag > call.left
        /\ failed' = TRUE /\ call' = Idle
        /\ UNCHANGED <<next_scanline, m, dest, heap, budget>>
     \/ /\ input_lag = 0
        /\ call' = IF call.left = 0 THEN Idle ELSE [call EXCEPT !.pc = "loop"]
        /\ UNCHANGED <<failed, next_scanline, m, dest, heap, budget>>
     \/ /\ input_lag \in 1 .. call.left
        /\ \E ok \in BOOLEAN :
             /\ EmptyBitWriterBuffer(m, ok)
             /\ next_scanline' = IF ok THEN LagCounted ELSE next_scanline
             /\ call' = IF ~ok \/ input_lag = call.left THEN Idle
                        ELSE [pc |-> "loop", line |-> call.line + input_lag,
                              left |-> call.left - input_lag]
  /\ UNCHANGED <<global_state, img, tables, known, finished>>

TokensPerBlock == IF img.optimize THEN Densities ELSE {2}

\* One line of the loop of jpegli_write_scanlines.
WriteLine ==
  /\ ~failed /\ call.pc = "loop"
  /\ \E density \in TokensPerBlock, ok \in BOOLEAN :
       LET read == PadInputBuffer(img, ReadInputRow(img, m, call.line))
       IN  /\ EmptyBitWriterBuffer(ProcessiMCURows(img, read, density), ok)
           /\ next_scanline' = IF ok THEN next_scanline + 1 ELSE next_scanline
           /\ call' = IF ~ok \/ call.left = 1 THEN Idle
                      ELSE [call EXCEPT !.line = @ + 1, !.left = @ - 1]
  /\ UNCHANGED <<global_state, img, tables, known, finished>>

\* The rows of each component of one iMCU row.
ReadRawRows(p, s) ==
  LET iMCU_y == s.next_input_row \div iMCU_height(p)
      Filled(c) ==
        LET n == DCTSIZE * p.v[c]
            rows == iMCU_y * n .. iMCU_y * n + n - 1
            buf == s.input_buffer[c]
        IN  [t \in DOMAIN buf |-> IF \E y \in rows : Slot(buf, y) = t
                                  THEN CHOOSE y \in rows : Slot(buf, y) = t ELSE buf[t]]
  IN  [s EXCEPT !.input_buffer = [c \in Comps(p) |-> Filled(c)],
                !.next_input_row = @ + iMCU_height(p)]

WriteRawRows ==
  /\ ~failed /\ call.pc = "raw"
  /\ \/ /\ next_scanline >= img.height
        /\ UNCHANGED <<failed, next_scanline, m, dest, heap, budget>>
     \/ /\ next_scanline < img.height /\ call.left < iMCU_height(img)
        /\ failed' = TRUE
        /\ UNCHANGED <<next_scanline, m, dest, heap, budget>>
     \/ /\ next_scanline < img.height /\ call.left >= iMCU_height(img)
        /\ \E density \in TokensPerBlock, ok \in BOOLEAN :
             /\ EmptyBitWriterBuffer(
                  IF next_scanline < m.next_input_row THEN m
                  ELSE ProcessiMCURows(img, ReadRawRows(img, m), density), ok)
             /\ next_scanline' = IF ~ok THEN next_scanline
                                ELSE IF next_scanline < m.next_input_row THEN m.next_input_row
                                ELSE next_scanline + iMCU_height(img)
  /\ call' = Idle
  /\ UNCHANGED <<global_state, img, tables, known, finished>>

----------------------------------------------------------------------------
(* The end of an image. *)

ScanUnits(p, t) == WriteScanHeader(p, t) \o ScansAfterHeader(p)

HasOwnCodes(p) == p.optimize \/ progressive_mode(p)

\* Everything that is still to be written goes out without suspension; then
\* jpegli_abort_compress resets the state.
FinishCompress ==
  /\ Ready("kEncReadImage") \/ Ready("kEncWriteCoeffs")
  /\ \/ /\ next_scanline < img.height      \* Incomplete image
        /\ failed' = TRUE
        /\ UNCHANGED <<global_state, m, dest, heap, tables, known, finished, budget>>
     \/ /\ next_scanline >= img.height
        /\ LET t == IF img.psnr THEN QuantizetoPSNR(img, tables) ELSE tables
               frame == WriteFrameHeader(img, t)
               units == IF WritesBits(img) THEN SubSeq(m.bw, m.output_pos + 1, Len(m.bw))
                        ELSE frame.units \o ScanUnits(img, frame.tables)
           IN  \E ok \in BOOLEAN :
                 /\ WriteOutput(dest, Append(units, Seg("EOI", 0)), TRUE, ok)
                 /\ budget' = Spend(ok)
                 /\ tables' = IF WritesBits(img) THEN tables ELSE frame.tables
                 /\ m' = [m EXCEPT !.used = IF img.psnr THEN InitQuantizer(img, t) ELSE @]
                 /\ known' = IF ~ok THEN known
                             ELSE [Learn(known, Stream(dest')) EXCEPT
                                     !.sound = (@ \/ img.all_tables) /\ ~HasOwnCodes(img)]
                 /\ finished' = IF ok THEN "image" ELSE "no"
                 /\ global_state' = IF ok THEN "kEncStart" ELSE global_state
  /\ UNCHANGED <<next_scanline, img, call>>

\* After an error, or because the application gives the image up.
AbortCompress ==
  /\ call = Idle
  /\ \/ failed /\ UNCHANGED budget
     \/ /\ ~failed /\ global_state # "kEncStart" /\ budget.aborts > 0
        /\ budget' = [budget EXCEPT !.aborts = @ - 1]
  /\ global_state' = "kEncStart"
  /\ failed' = FALSE
  /\ finished' = "no"
  /\ known' = [known EXCEPT !.sound = FALSE]
  /\ UNCHANGED <<next_scanline, img, call, m, dest, heap, tables>>

----------------------------------------------------------------------------
AnImage == CHOOSE p \in Images : TRUE

\* jpegli_CreateCompress, then jpegli_set_defaults (its tables are version 1).
Init ==
  /\ global_state = "kEncStart" /\ failed = FALSE /\ next_scanline = 0
  /\ img = AnImage /\ call = Idle
  /\ m = AllocateBuffers(AnImage, FALSE)
  /\ dest = [kind |-> "none", size |-> 0, buf |-> <<>>, file |-> <<>>, base |-> 0, ready |-> FALSE]
  /\ heap = [live |-> {}, fresh |-> 1, temp |-> NULL, output |-> NULL, outsize |-> 0, kept |-> {}]
  /\ tables = [q |-> [i \in Slots |-> IF i < 2 THEN 1 ELSE NULL], qno |-> AnImage.q,
               qsent |-> [i \in Slots |-> FALSE], hsent |-> FALSE, next |-> 2, aq |-> TRUE]
  /\ known = [q |-> [i \in Slots |-> NULL], h |-> "none", sound |-> TRUE]
  /\ finished = "no"
  /\ budget = [images |-> MaxImages, qualities |-> MaxImages - 1, aborts |-> MaxAborts,
               refusals |-> MaxRefusals]

Next ==
  \/ \E d \in Dests, var \in MemVars : SetDest(d, var)
  \/ \E two_chroma \in BOOLEAN : SetQuality(two_chroma)
  \/ \E p \in IF budget.images = MaxImages THEN Images ELSE LaterImages : StartCompress(p)
  \/ WriteTables
  \/ WriteMarker
  \/ \E n \in LineCounts : BeginWrite(n)
  \/ CatchUp
  \/ WriteLine
  \/ WriteRawRows
  \/ FinishCompress
  \/ AbortCompress

\* The application goes on with the image it has started: every call returns, it
\* writes lines while there are some left, then finishes, and aborts after an error.
Advance ==
  \/ \E n \in LineCounts : next_scanline < img.height /\ BeginWrite(n)
  \/ CatchUp \/ WriteLine \/ WriteRawRows
  \/ next_scanline >= img.height /\ FinishCompress
  \/ failed /\ AbortCompress

Started == global_state # "kEncStart" \/ failed

Complete == Started /\ ~failed /\ next_scanline >= img.height

\* WF_vars(Advance), with ENABLED Advance written out (some step is always possible
\* in an image that was started), and the call that ends a complete image is made
\* some day.
Fairness ==
  /\ []<>~Started \/ []<><<Advance>>_vars
  /\ []<>~Complete \/ []<><<FinishCompress>>_vars

Spec == Init /\ [][Next]_vars /\ Fairness

----------------------------------------------------------------------------
(* Properties. *)

States == {"kEncStart", "kEncHeader", "kEncReadImage", "kEncWriteCoeffs"}

\* Types, and the ranges of the counters of jpegli_write_scanlines.
TypeOK ==
  /\ global_state \in States /\ failed \in BOOLEAN /\ img \in Images
  /\ next_scanline \in 0 .. ysize_blocks(img) * DCTSIZE
  /\ m.next_input_row \in 0 .. ysize_blocks(img) * DCTSIZE
  /\ m.next_iMCU_row \in 0 .. total_iMCU_rows(img)
  /\ m.output_pos \in 0 .. Len(m.bw)
  /\ call.pc \in {"idle", "lag", "loop", "raw"} /\ call.line \in 0 .. ysize_blocks(img) * DCTSIZE
  /\ dest.kind \in {"none", "stdio", "mem", "app"} /\ Len(dest.buf) <= dest.size
  /\ heap.kept \subseteq 1 .. heap.fresh - 1
  /\ tables.qsent \in [Slots -> BOOLEAN] /\ tables.hsent \in BOOLEAN
  /\ finished \in {"no", "image", "tables"}

\* Every iMCU row is coded once, in order, and from the samples of its own lines and
\* of the lines around it (smoothing, downsampling, adaptive quantization read
\* beyond their rows): the ring of three iMCU rows never gives a line that is not
\* there yet, was overwritten, or was shrunk in place, and a line taken before a
\* suspension is not taken again.
RowsCodedFromTheirInput ==
  m.right

\* The units of the first r iMCU rows.
RowsOfUnits(r) == [k \in 1 .. 2 * r |-> RowUnits((k - 1) \div 2)[((k - 1) % 2) + 1]]

\* The units of a whole image with n quantization tables and l sets of codes, each
\* in the only place where a decoder may find it.
WholeStream(p, markers, n, l) ==
  <<Seg("SOI", 0)>> \o [i \in 1 .. markers |-> Seg("APP", i - 1)]
  \o [i \in 1 .. n |-> Seg("DQT", 0)] \o <<Seg("SOF", 0)>>
  \o [i \in 1 .. l |-> Seg("DHT", 0)] \o <<Seg("SOS", 1)>>
  \o (IF WritesBits(p) THEN RowsOfUnits(total_iMCU_rows(p)) ELSE ScansAfterHeader(p))
  \o <<Seg("EOI", 0)>>

\* The units of a stream without what is in the tables.
Outline(stream) ==
  [i \in 1 .. Len(stream) |-> IF stream[i][1] \in {"DQT", "DHT"} THEN Seg(stream[i][1], 0)
                              ELSE stream[i]]

\* What has reached the destination, the bytes in the bit writer after it, is a
\* beginning of the image's stream, whatever buffers the destination refused; and
\* all of it once jpegli_finish_compress has returned.
StreamIsTheImage ==
  LET pending == SubSeq(m.bw, m.output_pos + 1, Len(m.bw))
  IN  /\ global_state # "kEncStart" /\ ~failed
            => \E n \in 0 .. 4, l \in 0 .. 1 :
                  IsPrefix(Outline(Stream(dest) \o pending), WholeStream(img, m.markers, n, l))
      /\ finished = "image"
            => \E n \in 0 .. 4, l \in 0 .. 1 :
                  Outline(Stream(dest)) = WholeStream(img, m.markers, n, l)

\* A decoder that has read the streams of the session can decode the last one: it
\* has the quantization tables that the coefficients were divided by, and the
\* Huffman codes, although tables flagged as sent are left out.
DecoderHasTheTables ==
  finished = "image" =>
     /\ \A c \in Comps(img) : known.q[tables.qno[c]] = m.used[c]
     /\ known.h = IF HasOwnCodes(img) THEN "own" ELSE "fixed"

\* A coded block takes at most 32 bits per coefficient, doubled by byte stuffing.
MaxBytesOfBlock == DCTSIZE * DCTSIZE * 8

\* The bit writer's buffer holds the iMCU rows coded between two flushes, and the
\* token arrays the tokens written without a check.
BuffersSuffice ==
  /\ (Len(m.bw) \div 2) * blocks_per_iMCU_row(img) * MaxBytesOfBlock
        <= blocks_per_iMCU_row(img) * (DCTSIZE * DCTSIZE * 16 + 8) + 2^16
  /\ m.ta_num_tokens <= m.num_tokens
  /\ m.cur_token_array < Max({1, img.scans * DivCeil(img.height, DCTSIZE)})

\* The memory destination frees no buffer the application still has as a result.
NoResultFreed ==
  (heap.kept \cup ({heap.output} \ {NULL})) \subseteq heap.live

\* An image that was started ends: every line is taken at last although the
\* destination suspends, and the finished or failed image leaves kEncStart.
StartedImageEnds == (global_state # "kEncStart") ~> (global_state = "kEncStart")

----------------------------------------------------------------------------
(* Why they hold: the parts of the inductive invariant.                       *)

\* The rows of component c in an iMCU row of its ring, and the row of that component
\* that the input has reached.
Unit(p, c) == DCTSIZE * (IF p.mode = "raw" THEN p.v[c] ELSE max_v_samp_factor(p))
RowsIn(p, s, c) ==
  IF p.mode = "raw" THEN (s.next_input_row \div iMCU_height(p)) * Unit(p, c)
  ELSE s.next_input_row

\* The coded rows follow the rows of the input, one iMCU row behind.
CountInv(p, s) ==
  LET n == s.next_input_row
      r == s.next_iMCU_row
      H == iMCU_height(p)
  IN  /\ n \in Nat /\ r \in Nat
      /\ p.mode = "coeffs" => r = 0
      /\ p.mode = "raw" => n % H = 0
      /\ p.mode # "coeffs" /\ n < p.height => r = IF n < H THEN 0 ELSE n \div H - 1
      /\ p.mode # "coeffs" /\ n >= p.height => /\ r = total_iMCU_rows(p)
                                              /\ n = total_iMCU_rows(p) * H

\* A ring holds the rows from the next one to be coded (smoothing: from the one
\* above it) to the last one read.
RingsInv(p, s) ==
  /\ DOMAIN s.input_buffer = Comps(p)
  /\ \A c \in Comps(p) :
       /\ DOMAIN s.input_buffer[c] = 0 .. 3 * Unit(p, c) - 1
       /\ p.mode # "coeffs" => \A y \in 0 .. RowsIn(p, s, c) - 1 :
            y >= s.next_iMCU_row * Unit(p, c) - (IF p.smoothing THEN 1 ELSE 0)
              => Row(s.input_buffer[c], y) = Want(p, y)

\* The pre-erosion runs one row ahead of the coded rows, and the row before is kept.
ErosionInv(p, s) ==
  LET y == s.next_iMCU_row * 2 * max_v_samp_factor(p)
  IN  /\ DOMAIN s.pre_erosion = 0 .. 6 * max_v_samp_factor(p) - 1
      /\ s.use_adaptive_quantization => /\ p.v[p.ychan] = max_v_samp_factor(p)
                                        /\ p.h[p.ychan] = max_h_samp_factor(p)
      /\ s.use_adaptive_quantization /\ s.next_iMCU_row \in 1 .. total_iMCU_rows(p) - 1
            => Row(s.pre_erosion, y - 1) = y - 1 /\ Row(s.pre_erosion, y) = y

\* The token arrays, and at most two iMCU rows in the bit writer.
TokensInv(p, s) ==
  /\ s.ta_num_tokens \in Nat /\ s.num_tokens \in Nat /\ s.total_num_tokens \in Nat
  /\ s.cur_token_array \in Nat /\ s.allocated \in BOOLEAN
  /\ s.ta_num_tokens <= s.num_tokens
  /\ IF s.allocated THEN IsStreamingSupported(p) /\ s.cur_token_array < s.next_iMCU_row
     ELSE s.ta_num_tokens = 0 /\ s.num_tokens = 0 /\ s.cur_token_array = 0
BitsInv(s) ==
  LET r == s.next_iMCU_row
  IN  s.bw \in {<<>>, RowUnits(r - 1), RowUnits(r - 2) \o RowUnits(r - 1)}

\* The lines that the application counts as taken, and the loop that takes them.
LinesInv ==
  LET n == m.next_input_row
  IN  /\ next_scanline \in Nat /\ next_scanline <= n
      /\ m.bw # <<>> => next_scanline < n /\ next_scanline < img.height
      /\ img.mode # "raw" => next_scanline <= img.height
      /\ global_state \in {"kEncHeader", "kEncReadImage"} => img.mode # "coeffs"
      /\ call # Idle => ~failed /\ global_state = "kEncReadImage" /\ call.left \in Nat
      /\ call.pc \in {"idle", "raw", "lag", "loop"}
      /\ call.pc = "idle" => call = Idle
      /\ call.pc = "raw" => img.mode = "raw"
      /\ call.pc = "lag" => /\ img.mode = "pixels" /\ call.line = next_scanline
                            /\ next_scanline + call.left <= img.height
      /\ call.pc = "loop" => /\ img.mode = "pixels" /\ m.bw = <<>> /\ call.left >= 1
                             /\ call.line = n /\ next_scanline = n /\ n + call.left <= img.height

\* The buffers that are allocated, and the ones given away.
HeapInv(h) ==
  /\ h.fresh \in Nat \ {0} /\ h.live \subseteq 1 .. h.fresh - 1
  /\ h.temp = h.output /\ h.output \in h.live \cup {NULL}
  /\ h.kept \subseteq h.live \ {h.temp}

EncoderInv ==
  /\ img \in Images
  /\ CountInv(img, m) /\ RingsInv(img, m) /\ ErosionInv(img, m)
  /\ TokensInv(img, m) /\ BitsInv(m) /\ LinesInv
=============================================================================
