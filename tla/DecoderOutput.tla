--------------------------- MODULE DecoderOutput ----------------------------
(***************************************************************************)
(* The decoder's API and its output side: lib/jpegli/decode.cc and         *)
(* ProcessOutput of render.cc, over the input side as InputPass has it.    *)
(* One step is one iteration of a loop of an API function: a call of       *)
(* ConsumeInput or of ProcessOutput.  The application follows the protocol *)
(* of the tests: it repeats a call that suspended, reads any number of     *)
(* lines at a time, and in buffered-image mode shows any scan, stops       *)
(* reading early and consumes input on its own when it likes.              *)
(*                                                                         *)
(* Coefficients are sets of pairs <<scan, iMCU row>>: the contributions    *)
(* decoded into them.  A row of samples is its number and the coefficients *)
(* it was computed from.                                                   *)
(***************************************************************************)
EXTENDS Integers, FiniteSetsExt, SequencesExt

CONSTANTS
  image_height,
  h_samp_factor, v_samp_factor,   \* sequences, one entry per component
  scale_num, scale_denom, do_fancy_upsampling,
  Modes,          \* records: buffered_image, is_multiscan_, two_pass, smoothing,
                  \* and api: "scanlines", "raw" or "coefficients"
  LineCounts,     \* the numbers of lines the application asks for
  MaxScans,       \* bound: scans in a file
  MaxSuspensions, \* bound: how often the source suspends
  MaxPasses       \* bound: output passes in buffered-image mode

ASSUME OutputAssumption ==
  /\ image_height \in Nat /\ image_height >= 1 /\ image_height <= 65535
  /\ DOMAIN h_samp_factor = DOMAIN v_samp_factor /\ DOMAIN v_samp_factor # {}
  /\ \A c \in DOMAIN v_samp_factor :
       h_samp_factor[c] \in 1 .. 4 /\ v_samp_factor[c] \in 1 .. 4
  /\ scale_num \in Nat \ {0} /\ scale_denom \in Nat \ {0}
  /\ do_fancy_upsampling \in BOOLEAN
  /\ LineCounts \subseteq Nat \ {0}
  /\ MaxScans \in Nat \ {0} /\ MaxSuspensions \in Nat /\ MaxPasses \in Nat \ {0}

\* Only progressive files are smoothed (do_smoothing), and every progressive
\* file counts as one of several scans (ProcessSOS).
ASSUME SmoothingIsProgressive == \A m \in Modes : m.smoothing => m.is_multiscan_

-----------------------------------------------------------------------------
(* ProcessSOF and jpegli_calc_output_dimensions.                           *)
DCTSIZE == 8
DivCeil(a, b) == (a + b - 1) \div b
Components == DOMAIN v_samp_factor
max_v_samp_factor == Max(Range(v_samp_factor))
max_h_samp_factor == Max(Range(h_samp_factor))
total_iMCU_rows == DivCeil(image_height, max_v_samp_factor * DCTSIZE)
height_in_blocks(c) ==
  DivCeil(DivCeil(image_height, max_v_samp_factor \div v_samp_factor[c]), DCTSIZE)

scaled == scale_num # 1 \/ scale_denom # 1
min_scaled_dct_size ==
  IF scaled
  THEN Max({d \in 1 .. 16 : scale_num * DCTSIZE > scale_denom * (d - 1)})
  ELSE DCTSIZE
output_height == IF scaled THEN DivCeil(image_height * min_scaled_dct_size, DCTSIZE)
                           ELSE image_height

\* How often IDCT scaling replaces 2x upsampling.
Doublings(c) ==
  IF ~scaled THEN 0
  ELSE Max({n \in 0 .. 2 :
         /\ (max_v_samp_factor \div v_samp_factor[c]) % 2^n = 0
         /\ (max_h_samp_factor \div h_samp_factor[c]) % 2^n = 0
         /\ n > 0 => min_scaled_dct_size * 2^(n - 1) < DCTSIZE})
scaled_dct_size(c) == min_scaled_dct_size * 2^Doublings(c)
v_factor(c) == (max_v_samp_factor \div v_samp_factor[c]) \div 2^Doublings(c)

\* AllocateOutputBuffers: the size of the ring of sample rows.
need_context_rows_ == do_fancy_upsampling /\ \E c \in Components : v_factor(c) = 2
cheight(c) == v_samp_factor[c] * scaled_dct_size(c)

\* Mutant: the ring holds two iMCU rows.
RingSizeOfTwo(c) == cheight(c) * (IF need_context_rows_ THEN 2 ELSE 1)

RingSize(c) == cheight(c) * (IF need_context_rows_ THEN 3 ELSE 1)
raw_height_(c) == height_in_blocks(c) * scaled_dct_size(c)
imcu_height == max_v_samp_factor * min_scaled_dct_size

ASSUME IntegralSubsampling ==
  \A c \in Components : /\ max_v_samp_factor % v_samp_factor[c] = 0
                        /\ max_h_samp_factor % h_samp_factor[c] = 0

-----------------------------------------------------------------------------
VARIABLES
  params,                                                \* one of Modes
  global_state, input_scan_number, input_iMCU_row, found_eoi_,
  streaming_mode_, coef_arrays,
  output_scan_number, output_iMCU_row, output_scanline,
  raw_output_,           \* per component, a ring of sample rows
  pc,                    \* the API function that is running, or "app"
  stage,                 \* what the application has got to
  max_lines, num_output_rows,
  suspensions, passes,
  received,              \* history: lines the application got in this pass
  decoded, looked        \* history: coefficients decoded; rows this pass has read

inputVars  == <<global_state, input_scan_number, input_iMCU_row, found_eoi_>>
outputVars == <<output_scan_number, output_iMCU_row, output_scanline, raw_output_,
                looked>>
callVars   == <<pc, stage, max_lines, num_output_rows, suspensions, passes, received>>
vars == <<params, inputVars, streaming_mode_, coef_arrays, decoded, outputVars,
          callVars>>

Input == INSTANCE InputPass

Rows == 0 .. total_iMCU_rows - 1
NoRow == [row |-> -1, coefs |-> {}]
EmptyRing == [c \in Components |-> [i \in 0 .. RingSize(c) - 1 |-> NoRow]]

Init ==
  /\ params \in Modes
  /\ Input!Init
  /\ streaming_mode_ = FALSE /\ coef_arrays = [r \in Rows |-> {}] /\ decoded = {}
  /\ output_scan_number = 0 /\ output_iMCU_row = 0 /\ output_scanline = 0
  /\ raw_output_ = EmptyRing /\ looked = {}
  /\ pc = "app" /\ stage = "header"
  /\ max_lines = 0 /\ num_output_rows = 0
  /\ suspensions = 0 /\ passes = 0 /\ received = 0

-----------------------------------------------------------------------------
(* ConsumeInput.                                                           *)

\* Mutant: every iMCU row uses the one-row buffer of streaming mode.
SlotFirst(row) == 0

\* Where the coefficients of an iMCU row are.
Slot(row) == IF streaming_mode_ THEN 0 ELSE row

\* Mutant: the input also waits when it is level with the output.
InputIsAheadOrLevel ==
  /\ global_state = "kDecProcessScan" /\ streaming_mode_
  /\ input_iMCU_row >= output_iMCU_row
InputIsAhead ==
  /\ global_state = "kDecProcessScan" /\ streaming_mode_
  /\ input_iMCU_row > output_iMCU_row

AddCoefs(new) ==
  /\ coef_arrays' = [coef_arrays EXCEPT ![Slot(input_iMCU_row)] = @ \cup new]
  /\ decoded' = decoded \cup new

\* PrepareForiMCURow: the row that ProcessScan decodes into.
ScanRowOf == input_iMCU_row

\* A row of the scan is decoded, or a part of it.
DecodeScan ==
  LET new == {<<input_scan_number, ScanRowOf>>}
  IN \/ Input!RowCompleted /\ AddCoefs(new)
     \/ Input!ScanCompleted /\ AddCoefs(new)
     \/ Input!IncompleteScan /\ \E part \in {{}, new} : AddCoefs(part)

\* ProcessSOS rejects a second scan of components that the first one covered.
ParseMarkers ==
  /\ \/ Input!HeaderDone
     \/ /\ global_state = "kDecProcessMarkers" /\ params.is_multiscan_
        /\ input_scan_number < MaxScans
        /\ Input!PrepareForScan
     \/ global_state = "kDecProcessMarkers" /\ Input!ReachedEOI
  /\ UNCHANGED <<coef_arrays, decoded>>

\* Mutant: the two rows of context that smoothing needs are not waited for.
IsInputReadyEarly ==
  \/ found_eoi_
  \/ input_scan_number > output_scan_number
  \/ /\ input_scan_number = output_scan_number
     /\ \/ input_iMCU_row = total_iMCU_rows
        \/ input_iMCU_row > output_iMCU_row

IsInputReady ==
  \/ found_eoi_
  \/ input_scan_number > output_scan_number
  \/ /\ input_scan_number = output_scan_number
     /\ \/ input_iMCU_row = total_iMCU_rows
        \/ input_iMCU_row > output_iMCU_row + (IF streaming_mode_ THEN 0 ELSE 2)

\* The loop conditions of the API functions around ConsumeInput.
WantsInput ==
  CASE pc \in {"read_header", "consume_input"} -> TRUE
    [] pc = "start_decompress" -> params.is_multiscan_ /\ ~found_eoi_
    [] pc \in {"read_scanlines", "output_pass"} ->
         num_output_rows < max_lines /\ ~IsInputReady
    [] pc = "read_raw_data" -> ~IsInputReady
    [] pc \in {"read_coefficients", "finish_decompress"} -> ~found_eoi_
    [] pc = "finish_output" -> input_scan_number <= output_scan_number /\ ~found_eoi_
    [] OTHER -> FALSE

\* jpegli_read_header and jpegli_consume_input return when ConsumeInput does
\* (the header is one step here).
ConsumeInput ==
  /\ WantsInput /\ ~InputIsAhead
  /\ DecodeScan \/ ParseMarkers
  /\ pc' = IF pc \in {"read_header", "consume_input"} THEN "app" ELSE pc
  /\ stage' = IF pc = "read_header" THEN "start" ELSE stage
  /\ UNCHANGED <<params, streaming_mode_, outputVars, max_lines, num_output_rows,
                 suspensions, passes, received>>

\* Mutant: lines rendered before a suspension are not reported.
SuspendReturnsNothing ==
  /\ WantsInput
  /\ InputIsAhead \/ suspensions < MaxSuspensions
  /\ suspensions' = IF InputIsAhead THEN suspensions ELSE suspensions + 1
  /\ pc' = "app"
  /\ received' = received
  /\ UNCHANGED <<params, inputVars, streaming_mode_, coef_arrays, decoded, outputVars,
                 stage, max_lines, num_output_rows, passes>>

\* ConsumeInput returns JPEG_SUSPENDED: the API function returns, and
\* jpegli_read_scanlines returns the lines it has.
Suspend ==
  /\ WantsInput
  /\ InputIsAhead \/ suspensions < MaxSuspensions
  /\ suspensions' = IF InputIsAhead THEN suspensions ELSE suspensions + 1
  /\ pc' = "app"
  /\ received' = IF pc = "read_scanlines" THEN received + num_output_rows ELSE received
  /\ UNCHANGED <<params, inputVars, streaming_mode_, coef_arrays, decoded, outputVars,
                 stage, max_lines, num_output_rows, passes>>

-----------------------------------------------------------------------------
(* Starting.                                                               *)
ReadHeader ==
  /\ pc = "app" /\ stage = "header"
  /\ IF global_state = "kDecStart" THEN Input!InitializeImage ELSE UNCHANGED inputVars
  /\ pc' = "read_header"
  /\ UNCHANGED <<params, streaming_mode_, coef_arrays, decoded, outputVars, stage,
                 max_lines, num_output_rows, suspensions, passes, received>>

StreamingMode ==
  ~params.is_multiscan_ /\ ~params.buffered_image /\ ~params.two_pass

UnexpectedState == global_state # "kDecHeaderDone" /\ ~params.is_multiscan_

\* jpegli_start_decompress, up to its loop over the input.
StartDecompress ==
  /\ pc = "app" /\ stage = "start" /\ params.api # "coefficients"
  /\ IF UnexpectedState
     THEN /\ pc' = "error"
          /\ UNCHANGED <<inputVars, streaming_mode_, coef_arrays, output_scan_number,
                         raw_output_, stage>>
     ELSE IF global_state = "kDecHeaderDone"
     THEN /\ streaming_mode_' = StreamingMode
          /\ coef_arrays' = [r \in Rows |-> {}]
          /\ Input!PrepareForScan
          /\ raw_output_' = EmptyRing
          /\ output_scan_number' = 0
          /\ pc' = IF params.buffered_image THEN "app" ELSE "start_decompress"
          /\ stage' = IF params.buffered_image THEN "between passes" ELSE stage
     ELSE /\ pc' = "start_decompress"
          /\ UNCHANGED <<inputVars, streaming_mode_, coef_arrays, output_scan_number,
                         raw_output_, stage>>
  /\ UNCHANGED <<params, decoded, output_iMCU_row, output_scanline, looked, max_lines,
                 num_output_rows, suspensions, passes, received>>

\* PrepareForOutput and, with two-pass quantization, the start of ReadOutputPass.
PrepareForOutput ==
  /\ output_iMCU_row' = 0 /\ output_scanline' = 0 /\ looked' = {} /\ received' = 0
  /\ IF params.two_pass
     THEN /\ pc' = "output_pass" /\ num_output_rows' = 0 /\ max_lines' = output_height
          /\ stage' = stage
     ELSE /\ pc' = "app" /\ stage' = "reading" /\ UNCHANGED <<num_output_rows, max_lines>>

\* The rest of jpegli_start_decompress, after the last scan if there are several.
StartDecompressEnd ==
  /\ pc = "start_decompress" /\ ~WantsInput
  /\ output_scan_number' = input_scan_number
  /\ PrepareForOutput
  /\ UNCHANGED <<params, inputVars, streaming_mode_, coef_arrays, decoded, raw_output_,
                 suspensions, passes>>

\* jpegli_start_output
StartOutput ==
  /\ pc = "app" /\ stage = "between passes" /\ passes < MaxPasses
  /\ passes' = passes + 1
  /\ \E scan_number \in 0 .. MaxScans + 1 :
       output_scan_number' = IF found_eoi_
                             THEN Min({Max({1, scan_number}), input_scan_number})
                             ELSE Max({1, scan_number})
  /\ PrepareForOutput
  /\ UNCHANGED <<params, inputVars, streaming_mode_, coef_arrays, decoded, raw_output_,
                 suspensions>>

-----------------------------------------------------------------------------
(* ProcessOutput.                                                          *)
context == IF need_context_rows_ THEN 1 ELSE 0
AllDecoded == output_iMCU_row = total_iMCU_rows

CanOutput ==
  \/ AllDecoded
  \/ /\ output_iMCU_row > context
     /\ output_scanline < (output_iMCU_row - context) * imcu_height

\* One past the last line that can be output now.
yend == IF AllDecoded THEN output_height ELSE (output_iMCU_row - context) * imcu_height

\* The rows of samples that line y of the output is computed from.
RowsUsed(c, y) ==
  LET yc   == ((y \div max_v_samp_factor) * max_v_samp_factor) \div v_factor(c)
      ymid == yc + (y % max_v_samp_factor) \div v_factor(c)
  IN {ymid} \cup IF do_fancy_upsampling /\ v_factor(c) = 2
                 THEN {Max({0, ymid - 1}),
                       IF ymid + 1 = raw_height_(c) THEN ymid ELSE ymid + 1}
                 ELSE {}

RenderedRow(c, row) == raw_output_[c][row % RingSize(c)]

\* The sample rows of an iMCU row.
RowsOf(c, imcu) ==
  imcu * cheight(c) ..
    Min({(imcu + 1) * v_samp_factor[c], height_in_blocks(c)}) * scaled_dct_size(c) - 1

\* PredictSmooth looks at the blocks two rows below.
LooksAt(imcu) ==
  IF params.smoothing
  THEN {r \in Rows : \E c \in Components :
          r \in imcu .. ((imcu + 1) * v_samp_factor[c] + 1) \div v_samp_factor[c]}
  ELSE {imcu}

\* Mutant: the one-row coefficient buffer is not cleared.
CoefsAfterReadingKept == coef_arrays

CoefsAfterReading ==
  IF streaming_mode_ THEN [coef_arrays EXCEPT ![0] = {}] ELSE coef_arrays

DecodeCurrentiMCURow ==
  /\ raw_output_' =
       [c \in Components |->
          [i \in 0 .. RingSize(c) - 1 |->
             LET rows == {r \in RowsOf(c, output_iMCU_row) : r % RingSize(c) = i}
             IN IF rows = {} THEN raw_output_[c][i]
                ELSE [row |-> Max(rows), coefs |-> coef_arrays[Slot(output_iMCU_row)]]]]
  /\ coef_arrays' = CoefsAfterReading
  /\ looked' = looked \cup LooksAt(output_iMCU_row)
  /\ output_iMCU_row' = output_iMCU_row + 1

InOutputLoop ==
  /\ pc \in {"read_scanlines", "output_pass"}
  /\ num_output_rows < max_lines /\ IsInputReady

OutputLines ==
  /\ InOutputLoop /\ CanOutput
  /\ LET end == Max({output_scanline,
                     Min({yend, output_scanline + max_lines - num_output_rows})})
     IN /\ output_scanline' = end
        /\ num_output_rows' = num_output_rows + (end - output_scanline)
  /\ UNCHANGED <<params, inputVars, streaming_mode_, coef_arrays, decoded, raw_output_,
                 output_scan_number, output_iMCU_row, looked, pc, stage, max_lines,
                 suspensions, passes, received>>

DecodeRow ==
  /\ InOutputLoop /\ ~CanOutput
  /\ DecodeCurrentiMCURow
  /\ UNCHANGED <<params, inputVars, streaming_mode_, decoded, output_scan_number,
                 output_scanline, callVars>>

-----------------------------------------------------------------------------
(* Reading.                                                                *)

Request(n) == Min({n, output_height - output_scanline})

\* jpegli_read_scanlines (jpegli_skip_scanlines is the same without a buffer).
ReadScanlines ==
  /\ pc = "app" /\ stage = "reading" /\ params.api = "scanlines"
  /\ output_scanline < output_height
  /\ IF IF params.buffered_image THEN output_scan_number = 0
                                 ELSE params.is_multiscan_ /\ ~found_eoi_
     THEN pc' = "error" /\ UNCHANGED <<max_lines, num_output_rows>>
     ELSE /\ \E n \in LineCounts : max_lines' = Request(n)
          /\ num_output_rows' = 0 /\ pc' = "read_scanlines"
  /\ UNCHANGED <<params, inputVars, streaming_mode_, coef_arrays, decoded, outputVars,
                 stage, suspensions, passes, received>>

ReadScanlinesEnd ==
  /\ pc = "read_scanlines" /\ num_output_rows >= max_lines
  /\ pc' = "app" /\ received' = received + num_output_rows
  /\ UNCHANGED <<params, inputVars, streaming_mode_, coef_arrays, decoded, outputVars,
                 stage, max_lines, num_output_rows, suspensions, passes>>

\* ReadOutputPass, the first pass of two-pass quantization, is over.
OutputPassEnd ==
  /\ pc = "output_pass" /\ num_output_rows >= max_lines
  /\ output_scanline' = 0 /\ output_iMCU_row' = 0
  /\ pc' = "app" /\ stage' = "reading"
  /\ UNCHANGED <<params, inputVars, streaming_mode_, coef_arrays, decoded,
                 output_scan_number, raw_output_, looked, max_lines, num_output_rows,
                 suspensions, passes, received>>

\* jpegli_read_raw_data
ReadRawData ==
  /\ pc = "app" /\ stage = "reading" /\ params.api = "raw"
  /\ output_scanline < output_height
  /\ pc' = "read_raw_data"
  /\ UNCHANGED <<params, inputVars, streaming_mode_, coef_arrays, decoded, outputVars,
                 stage, max_lines, num_output_rows, suspensions, passes, received>>

ReadRawDataEnd ==
  /\ pc = "read_raw_data" /\ IsInputReady /\ output_iMCU_row < total_iMCU_rows
  /\ DecodeCurrentiMCURow
  /\ output_scanline' = output_scanline + max_v_samp_factor * DCTSIZE
  /\ received' = received + max_v_samp_factor * DCTSIZE
  /\ pc' = "app"
  /\ UNCHANGED <<params, inputVars, streaming_mode_, decoded, output_scan_number, stage,
                 max_lines, num_output_rows, suspensions, passes>>

\* jpegli_read_coefficients
ReadCoefficients ==
  /\ pc = "app" /\ stage = "start" /\ params.api = "coefficients"
  /\ streaming_mode_' = FALSE
  /\ IF global_state = "kDecHeaderDone"
     THEN coef_arrays' = [r \in Rows |-> {}] /\ Input!PrepareForScan
     ELSE UNCHANGED <<coef_arrays, inputVars>>
  /\ pc' = "read_coefficients"
  /\ UNCHANGED <<params, decoded, outputVars, stage, max_lines, num_output_rows,
                 suspensions, passes, received>>

ReadCoefficientsEnd ==
  /\ pc = "read_coefficients" /\ ~WantsInput
  /\ output_scanline' = output_height
  /\ pc' = "app" /\ stage' = "reading"
  /\ UNCHANGED <<params, inputVars, streaming_mode_, coef_arrays, decoded,
                 output_scan_number, output_iMCU_row, raw_output_, looked, max_lines,
                 num_output_rows, suspensions, passes, received>>

-----------------------------------------------------------------------------
(* Buffered-image mode, and the end.                                       *)

\* jpegli_finish_output, whether or not all lines were read.
FinishOutput ==
  /\ pc = "app" /\ stage \in {"reading", "finishing pass"} /\ params.buffered_image
  /\ pc' = "finish_output" /\ stage' = "finishing pass"
  /\ UNCHANGED <<params, inputVars, streaming_mode_, coef_arrays, decoded, outputVars,
                 max_lines, num_output_rows, suspensions, passes, received>>

FinishOutputEnd ==
  /\ pc = "finish_output" /\ ~WantsInput
  /\ pc' = "app" /\ stage' = "between passes"
  /\ UNCHANGED <<params, inputVars, streaming_mode_, coef_arrays, decoded, outputVars,
                 max_lines, num_output_rows, suspensions, passes, received>>

\* jpegli_consume_input between other calls.
CallConsumeInput ==
  /\ pc = "app" /\ params.buffered_image /\ ~found_eoi_
  /\ stage \in {"between passes", "reading", "finishing pass"}
  /\ pc' = "consume_input"
  /\ UNCHANGED <<params, inputVars, streaming_mode_, coef_arrays, decoded, outputVars,
                 stage, max_lines, num_output_rows, suspensions, passes, received>>

\* jpegli_finish_decompress; it reads up to EOI.
FinishDecompress ==
  /\ pc = "app"
  /\ \/ stage = "finishing"
     \/ params.buffered_image /\ stage = "between passes"
     \/ ~params.buffered_image /\ stage = "reading" /\ output_scanline >= output_height
  /\ pc' = "finish_decompress" /\ stage' = "finishing"
  /\ UNCHANGED <<params, inputVars, streaming_mode_, coef_arrays, decoded, outputVars,
                 max_lines, num_output_rows, suspensions, passes, received>>

FinishDecompressEnd ==
  /\ pc = "finish_decompress" /\ ~WantsInput
  /\ Input!Abort
  /\ pc' = "app" /\ stage' = "done"
  /\ UNCHANGED <<params, streaming_mode_, coef_arrays, decoded, outputVars, max_lines,
                 num_output_rows, suspensions, passes, received>>

Done == (stage = "done" \/ pc = "error") /\ UNCHANGED vars

Next ==
  \/ ConsumeInput \/ Suspend
  \/ ReadHeader \/ StartDecompress \/ StartDecompressEnd \/ StartOutput
  \/ OutputLines \/ DecodeRow
  \/ ReadScanlines \/ ReadScanlinesEnd \/ OutputPassEnd
  \/ ReadRawData \/ ReadRawDataEnd
  \/ ReadCoefficients \/ ReadCoefficientsEnd
  \/ FinishOutput \/ FinishOutputEnd \/ CallConsumeInput
  \/ FinishDecompress \/ FinishDecompressEnd
  \/ Done

Spec == Init /\ [][Next]_vars

\* One thread; the application goes on calling until it is done.
FairSpec == Spec /\ WF_vars(Next)

-----------------------------------------------------------------------------
(* Properties.                                                             *)

\* The types of the decoder's state.
TypeOK ==
  /\ params \in Modes
  /\ global_state \in {"kDecStart", "kDecInHeader", "kDecHeaderDone",
                       "kDecProcessMarkers", "kDecProcessScan"}
  /\ input_scan_number \in 0 .. MaxScans /\ input_iMCU_row \in 0 .. total_iMCU_rows
  /\ found_eoi_ \in BOOLEAN /\ streaming_mode_ \in BOOLEAN
  /\ decoded \subseteq (1 .. MaxScans) \X Rows
  /\ coef_arrays \in [Rows -> SUBSET decoded]
  /\ output_scan_number \in 0 .. MaxScans + 1
  /\ output_iMCU_row \in 0 .. total_iMCU_rows
  /\ output_scanline \in 0 .. total_iMCU_rows * max_v_samp_factor * DCTSIZE
  /\ DOMAIN raw_output_ = Components
  /\ \A c \in Components : \A i \in 0 .. RingSize(c) - 1 :
       /\ raw_output_[c][i].row \in -1 .. raw_height_(c) - 1
       /\ raw_output_[c][i].coefs \subseteq decoded
  /\ num_output_rows \in 0 .. output_height /\ max_lines \in Nat
  /\ looked \subseteq Rows /\ received \in Nat
  /\ suspensions \in 0 .. MaxSuspensions /\ passes \in 0 .. MaxPasses

\* The sample rows that the lines the decoder can output now are made of, and
\* the ones that jpegli_read_raw_data has just delivered.
RowsShown(c) ==
  IF InOutputLoop /\ CanOutput
  THEN UNION {RowsUsed(c, y) : y \in output_scanline .. yend - 1}
  ELSE IF pc = "app" /\ stage = "reading" /\ params.api = "raw" /\ output_iMCU_row > 0
  THEN RowsOf(c, output_iMCU_row - 1)
  ELSE {}

\* Whatever the height, the sampling factors and the scale, and however few
\* lines are read at a time: when ProcessOutput reads a row of samples and its
\* neighbours above and below, the ring of raw_output_ still, and already,
\* holds them.
RingHoldsContext ==
  \A c \in Components : \A r \in RowsShown(c) : RenderedRow(c, r).row = r

\* A line shows all that is ever decoded of the scans up to the one displayed,
\* and nothing of another row: in streaming mode the one-row coefficient buffer
\* is neither overwritten before it was read nor left dirty for the next row.
ShowsWholeScans ==
  \A c \in Components : \A r \in RowsShown(c) :
    LET here == {d \in decoded : d[2] = r \div cheight(c)}
    IN /\ {d \in here : d[1] <= output_scan_number} \subseteq RenderedRow(c, r).coefs
       /\ RenderedRow(c, r).coefs \subseteq here

\* The rows an output pass has looked at, two rows ahead with block smoothing,
\* are final: IsInputReady held back the output until the displayed scan had
\* passed them.
NothingArrivesLate ==
  [][\A d \in decoded' \ decoded :
       d[2] \in looked => d[1] > output_scan_number]_vars

\* The test's EXPECT_EQ(total_output_lines, cinfo->output_scanline): lines
\* rendered before a suspension are returned, none is lost or repeated.
NoLineLost == pc = "app" /\ stage = "reading" /\ params.api # "coefficients"
                => received = output_scanline

\* Without buffered-image mode the image is complete after finitely many calls,
\* although the source may suspend in any of them and the application repeats
\* the call, as input_suspension_test.cc does: no call loops for ever at the end
\* of the image, none refuses the state a suspended one has left, and the guard
\* that keeps the input from getting ahead of the output in streaming mode never
\* stops both.  (One scan with two-pass quantization is not among the modes:
\* there jpegli_start_decompress does refuse to be repeated.)
ImageEnds == params.buffered_image \/ <>(stage = "done")

-----------------------------------------------------------------------------
(* Why they hold: the parts of the inductive invariant.                    *)

\* Which call the application can be in at which stage of the image.
CallInv ==
  /\ pc = "read_header" => stage = "header" /\ global_state = "kDecInHeader"
  /\ pc = "start_decompress" => stage = "start" /\ params.api # "coefficients"
  /\ pc = "output_pass" => params.two_pass /\ stage \in {"start", "between passes"}
  /\ pc = "read_scanlines" => stage = "reading" /\ params.api = "scanlines"
  /\ pc = "read_raw_data" => stage = "reading" /\ params.api = "raw"
  /\ pc = "read_coefficients" => stage = "start" /\ params.api = "coefficients"
  /\ pc = "consume_input" => stage \in {"between passes", "reading", "finishing pass"}
  /\ stage = "header" => global_state \in {"kDecStart", "kDecInHeader"}
  /\ global_state = "kDecStart" => stage \in {"header", "done"}
  /\ global_state = "kDecInHeader" => stage = "header"
  /\ global_state = "kDecHeaderDone" => stage = "start"
  /\ global_state \in {"kDecInHeader", "kDecHeaderDone"} => pc \in {"app", "read_header"}
  /\ pc = "finish_output" => stage = "finishing pass" /\ params.buffered_image
  /\ pc = "finish_decompress" => stage = "finishing"
  /\ stage = "between passes" => params.buffered_image
  /\ stage = "done" => pc = "app"

\* Where the input and the output are.
ProgressInv ==
  /\ input_scan_number \in Nat /\ input_iMCU_row \in 0 .. total_iMCU_rows
  /\ output_scan_number \in Nat /\ output_iMCU_row \in 0 .. total_iMCU_rows
  /\ global_state = "kDecProcessScan" => input_iMCU_row < total_iMCU_rows
  /\ found_eoi_ => global_state = "kDecProcessMarkers" \/ stage = "done"
  /\ stage = "header" \/ global_state \in {"kDecInHeader", "kDecHeaderDone"} =>
       output_iMCU_row = 0 /\ looked = {} /\ decoded = {}

\* The lines the application has and the ones the running call has rendered.
LinesInv ==
  /\ {max_lines, num_output_rows, output_scanline, received} \subseteq Nat
  /\ pc = "output_pass" => received = 0
  /\ stage = "reading" /\ params.api # "coefficients" =>
       output_scanline =
         received + (IF pc = "read_scanlines" THEN num_output_rows ELSE 0)

\* Rows that the scan on display has passed, and that no later step decodes into.
Passed(r) ==
  \/ found_eoi_
  \/ input_scan_number > output_scan_number
  \/ input_scan_number = output_scan_number /\ input_iMCU_row > r

LookedInv ==
  /\ looked \subseteq Rows /\ \A r \in looked : Passed(r)
  /\ \A r \in 0 .. output_iMCU_row - 1 : r \in looked

\* The contributions to an iMCU row.
Of(row) == {d \in decoded : d[2] = row}

\* The coefficient buffer holds what was decoded: all rows of it, or in streaming
\* mode the one row between input and output.
StreamingInv ==
  /\ StreamingMode /\ params.api # "coefficients" /\ stage # "header"
  /\ stage = "start" => output_iMCU_row = 0
  /\ stage = "reading" => input_scan_number = output_scan_number
  /\ global_state = "kDecProcessScan" => input_iMCU_row >= output_iMCU_row
  /\ coef_arrays[0] = Of(output_iMCU_row)
  /\ \A d \in decoded : d[2] <= output_iMCU_row

CoefInv ==
  /\ decoded \subseteq Nat \X Rows
  /\ DOMAIN coef_arrays = Rows /\ streaming_mode_ \in BOOLEAN
  /\ streaming_mode_ => StreamingInv
  /\ ~streaming_mode_ => \A row \in Rows : coef_arrays[row] = Of(row)

\* The rendered iMCU rows that ProcessOutput may still read from the ring.
Kept == {imcu \in 0 .. output_iMCU_row - 1 :
           imcu >= output_iMCU_row - (IF need_context_rows_ THEN 3 ELSE 1)}

RingInv ==
  \A c \in Components : \A imcu \in Kept : \A r \in RowsOf(c, imcu) :
    /\ RenderedRow(c, r).row = r
    /\ RenderedRow(c, r).coefs \subseteq Of(imcu)
    /\ {d \in Of(imcu) : d[1] <= output_scan_number} \subseteq RenderedRow(c, r).coefs

\* ProcessOutput decodes a row only when it is out of lines.
LineStartInv ==
  pc = "output_pass" \/ (stage = "reading" /\ params.api = "scanlines") =>
    output_scanline >= (output_iMCU_row - 1 - context) * imcu_height

OutputInv ==
  /\ params \in Modes
  /\ CallInv /\ ProgressInv /\ LinesInv /\ LookedInv /\ CoefInv /\ RingInv
  /\ LineStartInv
=============================================================================
