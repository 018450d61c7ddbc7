# Formal models of jpegli

TLA+ models of the parts of jpegli whose correctness lies in control: the order
of steps, suspension and resumption, threads, ring buffers, counters at their
limits. TLC checks them on small instances; for the thread pool, the decoder's
input and output, the encoder and the slots of its Huffman tables the central
properties are proved with TLAPS for every value of the constants (section 5).

## 1. Inventory of the system

jpegli is a JPEG encoder and decoder with the API of libjpeg
(`lib/jpegli`), a thread pool (`lib/threads`, `lib/base`), readers and writers
for other formats and image metrics (`lib/extras`), color management
(`lib/cms`) and command line tools (`tools`).

| Component | State | Operations | Interacts with | Hard behaviour | What makes it correct |
|---|---|---|---|---|---|
| Thread pool: `thread_parallel_runner_internal.{h,cc}`, `data_parallel.h` | `depth_`, `workers_ready_`, `worker_start_command_`, `num_reserved_`, `has_error_`, the threads | constructor, destructor, `Runner`, `RunOnEachThread`, `ThreadFunc`, `RunRange`, `ThreadPool::Run` | called by the codecs and tools with a data function | interleavings, two condition variables, unlocked atomics, spurious wakeups, wrap-around | each number once, success means all succeeded, nobody runs after the return, every call returns |
| Decoder input: `ConsumeInput`, `decode_marker.cc`, `decode_scan.cc`, `source_manager.cc` | source buffer, `input_buffer_`, `global_state`, found markers, position in the scan, saved MCU state | `jpegli_consume_input`, marker parsers, `ProcessScan`, `fill_input_buffer`, `resync_to_restart`, marker processors | callbacks of the application, `JPOOL_IMAGE`, feeds the output side | suspension at any byte, undoing half an MCU, cut-off and corrupt files, hand-off to callbacks | no byte lost or repeated, blocks are those of the file, always ends |
| Decoder API and output: `decode.cc`, `ProcessOutput` of `render.cc` | `output_scan_number`, `output_iMCU_row`, `output_scanline`, the ring `raw_output_`, `coef_arrays`, `streaming_mode_` | `jpegli_read_header` .. `jpegli_finish_decompress`, buffered-image mode | drives the input side, reads coefficients while they are decoded | input and output beside each other, retry after suspension, context rows, scaling | the ring holds what is read, complete scans are shown, no line lost, calls return |
| Encoder API and pipeline: `encode.cc`, `encode_streaming.cc`, `encode_finish.cc` | `global_state`, `next_scanline`, `next_input_row`, `next_iMCU_row`, input ring, tokens, coefficients, `sent_table` | setters, `jpegli_start_compress`, `write_scanlines`, `write_raw_data`, `write_coefficients`, `write_tables`, `finish_compress`, `abort_compress` | bit writer, destination manager | output suspension, rows coded one behind the input, padding at the end, a second image | rows coded from their own lines, complete stream, decoder has the tables |
| Scan scripts, tokens: `SetDefaultScanScript`, `ValidateScanScript`, `entropy_coding.cc`, `WriteScanData` | `scan_info`, tokens, refinement bits, end-of-block runs | build, validate, tokenize, write | encoder, decoder's `ProcessSOS` and `decode_scan.cc` | bits of each coefficient over several scans, runs across restarts, arrays sized by estimates | the decoder has the bits sent so far, arrays suffice |
| Huffman tables: `entropy_coding.cc`, `huffman.cc`, `bitstream.cc` | histograms, clusters, slots | cluster, build, send, look up | encoder, decoder | more tables than slots, code length limit | the decoder has the codes a scan is written with |
| Bit writer, destinations: `bit_writer.*`, `destination_manager.cc` | buffer positions, bit register, growing buffer | `WriteBits`, `EmptyBitWriterBuffer`, `empty_output_buffer`, `term_destination` | application's buffer | partial writes, reuse for a second image | bytes out are bytes in |
| ICC profiles | `icc_index_`, `icc_total_` | write, collect, read, find the CICP tag | markers | one-byte counters, a tag beyond the first segment | profile read is profile written |
| Transforms, colors, color maps | none across calls | DCT, IDCT of every size, color transforms, sample formats, color maps | both pipelines | special cases by size, space and format | equal to their definition, or inverse to each other |
| Color management: `lib/cms` | `ColorEncoding`, ICC bytes | make, read, describe, parse, convert | codecs and tools | fields recognised from profiles | description, profile and conversion mean the encoding |
| Image files: `lib/extras` | `PackedImage` | PNM, PFM, PAM, PGX both ways; `cjpegli`, `djpegli` | the API | pixel bytes like headers, bit depths, byte order, shrunken images | the image read is the image written |
| Benchmark: `tools/benchmark` | `StatPrinter`, statistics per task | `DoCompress`, `TaskDone`, `RunTasks` | thread pool | tasks end in any order and fail in several ways | report in order, errors returned |
| Quantization, adaptive quantization | numerical | | encoder | which rows are read | in `Encoder`: rows and tables only |
| Memory manager, errors, wrapper, metrics, JNI, base | pools; none of their own | | | | not modelled |

`PROJECT.json` lists every component with its status, and the hazards at their
source lines; those without a property say why.

## 2. Modules

```
ParallelFor  <--implements--  ThreadParallelRunner
  <--proofs--  ThreadParallelRunner_proofs
       <--  ThreadParallelRunner_spurious
InputPass    <--implements--  DecoderInput
  <--proofs--  DecoderInput_proofs (InputPass)
InputPass    <--is built on-- DecoderOutput  <--proofs--  DecoderOutput_proofs
Encoder  <--proofs--  Encoder_proofs  <--  Encoder_stream
TokenCoding: a state machine of its own
Benchmark  <--proofs--  Benchmark_proofs
HuffmanSlots (state machine)  <--proofs--  HuffmanSlots_proofs
HuffmanSlots, and HuffmanCodes, BitIO, Transforms, Colors, ColorQuantize, ColorManagement,
  IccSegments, ImageFiles (operators)  --all in-->  MCAlgorithms
MC<X>: the files, modes and ranges that TLC checks <X> with
```

### ThreadParallelRunner

One application thread and `NumWorkers` workers. A section under `mutex_` is
one step, every atomic access outside it is one step; `wait` on a condition
variable is a location that a notification or a spurious wakeup leaves. A
64-bit worker command is the pair of its halves, so the reserved commands are
pairs at the top of the 32-bit range, whose size is the constant `UInt32` with
real wrap-around. `ThreadPool::Run` with its `RunCallState` is part of the
module: `has_error_` is read before and written after the data function, which
may fail, and may call `Runner` again. `calls` and `completed` are history.

`ParallelFor` is the contract of `parallel_runner.h` in terms of calls only;
`ImplementsContract` maps the runner to it (checked, and proved).

### DecoderInput

`ConsumeInput` as the loop it is: enter a parser (`BeginParse`), parse one
marker or one MCU per step, then deal with the status (`HandleRestart`,
`CallMarkerProcessor`, `FillInputBuffer`, `FillSuspends`, `Return`). Bytes are
bytes: marker codes, lengths, 0xff 0x00 escapes, the fake EOI of the source
managers and the switch between the source's buffer and `input_buffer_` are
the code's. Payloads are cut down to what steers the parser. The Huffman code
is replaced by one of nibbles that has what matters: codes of different
lengths, codes over a byte boundary and over an escape, values relative to the
previous block, runs that span blocks, invalid symbols, and zeros past the
end. `kMaxMCUByteSize` is scaled down with it.

The sources are the three the repository has: the whole file in memory, a
source that delivers chunks, and the suspending source of
`input_suspension_test.cc`. The application is that of the tests in
buffered-image mode: it calls on until EOI and starts the next image if bytes
are left.

### InputPass

What the output side sees of the input: `global_state`, `input_scan_number`,
`input_iMCU_row`, `found_eoi_` and the seven ways they change. `DecoderInput`
implements it (checked as a PROPERTY, and proved), `DecoderOutput` uses its
actions instead of bytes.

### DecoderOutput

Every function of the decoder's API is a location `pc`; one step is one
iteration of its loop, that is one call of `ConsumeInput` or of
`ProcessOutput`. Coefficients are sets of `<<scan, iMCU row>>`, so it is
visible whose data a line was made of; a row of samples is its number and
these coefficients, and `raw_output_` is the ring of the code with the code's
sizes (`AllocateOutputBuffers`), sampling factors and scaled DCT sizes.
Cropping, sample values, the colormap, `coef_bits` and the progress monitor
are left out. The application repeats a call that suspended, reads any number
of lines from `LineCounts`, and in buffered-image mode picks any scan, stops
early and consumes input between the calls.

### Encoder

A session of one compressor. A row of samples is the number of the line it came
from; the input ring, its borders, `PadInputBuffer`, smoothing, downsampling
and the three stages of adaptive quantization are the code's index arithmetic
over such rows, so that a row that has been overwritten is seen where it is
read. One line of `jpegli_write_scanlines` is one step, with the iMCU row it
may complete. The stream is markers and two units per coded iMCU row; the bit
writer's buffer, `EmptyBitWriterBuffer` and the three kinds of destination
(stdio, memory that doubles, the application's that may refuse) move units.
`heap` has the malloc'ed buffers and who still holds them; `tables` the
`sent_table` flags; `known`, history, what a decoder of the session's streams
has been told.

### TokenCoding

An image of a few blocks, a script, and all of `TokenizeJpeg` with its passes
and its estimates, `WriteScanData` and the scan decoder with refinement,
interleaving, end-of-block runs and restarts. `K`, `ZRL` and `MaxRefBits`
scale the format's 63, 15 and 255 down so that six blocks reach them.

### HuffmanSlots and the modules of operators

`HuffmanSlots` is the state machine of `ClusterJpegHistograms`: histograms are
taken one by one, merged or put into a slot by any choice the costs could make,
then sent scan by scan. The others are pure: each translates the code on both
sides of a conversion and states, as an operator, that the second undoes the
first or that the result is the definition.

- `HuffmanCodes`: counts to code lengths, tables, lookup tables, symbols.
- `BitIO`: the writer's register and escapes, the reader's look-ahead.
- `Transforms`: the DCT and every IDCT against the sum of cosines. Numbers are
  taken in finite fields with the needed roots of unity, so that identities
  between cosines are decided exactly.
- `Colors`: a pixel from the application through the file to the reader.
- `ColorQuantize`: one-pass and two-pass color maps, the inverse map.
- `ColorManagement`: encodings, descriptions, profiles, plans of conversions.
- `IccSegments`: segments, and the search for the CICP tag as the encoder does it
  in a profile and in the segments.
- `ImageFiles`: PNM, PFM, PAM, PGX, packed pixels, planes, the two tools.

### Benchmark

`RunTasks` on the threads of the pool: a task runs `DoCompress` (with what can
go wrong in it), then `TaskDone` under the mutex, then counts its errors. The loops
of `TaskDone` that print what is ready are the number they reach (`Through`) and
the items up to it.

## 3. Runs

| Run | Instance | Result |
|---|---|---|
| `runner_short` | 3 workers, two jobs out of a short, an empty and an inverted range and `RunOnEachThread`, one re-entrant call | all properties hold, `ImplementsContract` and `CallsReturn` included |
| `runner_long` | 2 workers, 17 numbers (so chunks of 2), two spurious worker wakeups | no number is handed out twice |
| `runner_sequential` | no workers, four jobs | the same contract |
| `runner_spurious` | one spurious wakeup | violation, see findings |
| `input` | two files whole, one cut off at every byte after its first SOS, four corrupt ones; three kinds of source, chunks of 1, 2, 5 bytes in any mixture | no byte lost, whole MCUs only, no false error, always ends, implements `InputPass` |
| `output_direct` | four iMCU rows, chroma halved both ways; scanlines, raw, coefficients, two-pass; one or two scans | all properties hold |
| `output_buffered` | buffered-image mode, smoothing, two-pass, factors 4:2:1 at scale 1/8, two output passes | all properties hold |
| `encoder` | thirteen kinds of images, then a second one or tables, three destinations | all properties hold |
| `tokens` | every choice of three out of seven blocks, gray and subsampled; every valid script of the defaults and five others; four kinds of restarts | all properties hold |
| `tokens_uneven` | bands begun with different precision, refined together | violation, see findings |
| `benchmark` | two images, two codecs, three threads, five outcomes of a task, three ways to print, the report of the first or second method unwritable | all properties hold |
| `algorithms` | ten kinds of frames for `HuffmanSlots`; some 100000 inputs of the pure algorithms, one initial state each | all properties hold |

Bounds and why they are enough:

- `NumWorkers = 3` has a first, a last and a middle worker at the barrier; two
  consecutive jobs are needed for a worker of one job to meet the next. The
  widths `UInt32 = 12` and `64` only have to leave room for ranges and reserved
  commands. The proofs remove these bounds.
- `runner_long`: chunks of two numbers start at `8 * NumWorkers` numbers.
- The files have every kind of segment, a restart in both scans, an escape in
  the data and in the padding, a code that spans three bytes, an end-of-block
  run up to the end of the scan; chunks of 1 byte suspend at every byte, and
  mixtures with 2 and 5 make the private buffer grow, shrink and empty.
- One cut position is left out (between the code and the length of the second
  SOS), because there the fake EOI bytes are taken for the length of the
  segment and 32 thousand of them must be read.
- Four iMCU rows are one more than the ring holds; a height that is no multiple
  of the iMCU height gives a partly filled last row. `LineCounts` has a number
  that does not divide the iMCU height and one beyond it. One suspension per
  behaviour may fall at every call.
- Two scans and two output passes let a pass display an earlier, the current
  and a later scan than the input is in.
- Encoder: up to five iMCU rows, where the ring holds three; heights just above
  a multiple; luma or chroma subsampled by 2, 3 and 4. Buffers of 2 to 4 units
  are smaller than an image, so that every write can meet a full buffer; one
  refusal and one abort may come at any step. Blocks have 2 or 64 tokens, so
  that the estimate of the token arrays is as wrong as it can be.
- Tokens: with five coefficients, runs of two zeros and four refinement bits
  per token, six blocks split, take back and restart end-of-block runs in every
  place. The run limit 0x7fff itself is not reached.
- Benchmark: two methods with two images are what the order of details and
  lines needs; three threads leave one task waiting for the others.
- Algorithms: the parameters scale the tables (codes of 4 bits with a root
  table of 2, bytes of 2 bits with a register of 8, ICC segments of 5 bytes
  counted in 3 bits) so that limits are passed by small inputs; transforms and
  colors are at full size.

Deadlock is checked in all runs except where the system may stop: `runner_long`,
where spurious wakeups can make the barrier wait for ever, and `encoder`,
`tokens`, `tokens_uneven` and `algorithms`, whose sessions, scripts and
computations end.

Fairness. The decoder runs on one thread in calls that end, and the
application of the tests calls on until the image is done: weak fairness of
`Next` says no more than that. In the thread pool every thread that can run
does so eventually (weak fairness of each worker's and the application's
steps); data functions return; nothing is assumed about spurious wakeups,
about which worker gets a chunk, or that the application makes another call.

The application of the encoder goes on as those of the tests do: as long as an
image is started some step of it happens again and again, and when all lines
are taken `jpegli_finish_compress` is called some day. The destination refuses
finitely often (`MaxRefusals`); a refused call is repeated.

## 4. Properties

- Thread pool: `NoStrayCall` (each number at most once, none outside),
  `SuccessMeansAllSucceeded`, `QuiescentOnReturn` (the closure of a finished
  call is never used), `ReentryIsNeverForgotten`, `RangeNeverRepeated` (what
  survives spurious wakeups), `ImplementsContract`, `CallsReturn`.
- Decoder input: `NoByteLostOrRepeated`, `HandOffIsExact` (callbacks and the
  next image read on at the right byte), `DecodedIsCoded` (the blocks are those
  of the file up to the current MCU, zero beyond), `SoundInputNeverFails`,
  `EveryMarkerOnce`, `ImplementsInputPass`,
  `EndsEventually`.
- Decoder output: `RingHoldsContext`, `ShowsWholeScans`, `NothingArrivesLate`,
  `NoLineLost`, `ImageEnds`.
- Encoder: `RowsCodedFromTheirInput` (no stage reads a row that is not yet or no
  longer there), `StreamIsTheImage` (what the destination has is at any time a
  prefix of the stream, at the end all of it), `DecoderHasTheTables`,
  `BuffersSuffice`, `NoResultFreed`, `StartedImageEnds`.
- Tokens: `ScansDecode` (after each scan the decoder has exactly the bits sent),
  `TokensFit`.
- Benchmark: `ReportIsInOrder`, `ReturnsTheErrors`.
- Algorithms: `DecoderHasTheCodes` (no slot is overwritten before its last use),
  `SymbolsAndBitsComeBack`, `TransformsAreDefined`, `ColorsComeBack`,
  `ColormapsAreNearest`, `ColorsAreManaged`, `ProfilesComeBack`,
  `FilesKeepTheImage`.

Each is violated by a mutant: a definition of the model changed the way a slip
in the code would change it (`PROJECT.json`, "mutants").

## 5. What is proved

Every theorem below is a statement `Spec => ...` about all values of the
constants: any number of workers, any files and chunks, any image height,
sampling and scale, any number of images, calls, scans and refusals. Each rests
on an inductive invariant, which stands at the end of the component's module (or,
where said, with the proofs), is
written in named parts, and was checked with TLC on the instances of section 3
before it was proved. The proofs have one lemma per action, and a lemma for each
operator the action is built from.

### Thread pool

`ThreadParallelRunner_proofs`:

- `TypeCorrect`: `Spec => []TypeOK`, spurious wakeups and wrap-around included.
- `Invariant`: `Spec => []IndInv`.
- `AtMostOnce`, `NoCallOutlivesRun`, `ExactlyOnceOnSuccess`: `NoStrayCall`,
  `QuiescentOnReturn` and `SuccessMeansAllSucceeded`.
- `ReentryFailsEveryLaterRun`: `ReentryIsNeverForgotten`.
- `RunnerImplementsContract`: `Spec => ImplementsContract`. Every step of a
  thread is a step of `ParallelFor` under the refinement mapping, or stutters.

`ThreadParallelRunner_spurious`, for any number of spurious wakeups:

- `FirstRangeNeverRepeated`: `Spec => [](runs <= 1 => RangeNeverRepeated)`.
- `RangesNeverRepeated`:
  `Spec /\ LaterCallsFindWorkersWaiting => []RangeNeverRepeated`. After a spurious
  wakeup a call may return while a worker executes its command
  (`runner_spurious`), and a second `Run` would reset the counter under it; the
  hypothesis is that no later call begins in such a state.

`TypeCorrect` assumes nothing. The other theorems of the first module assume
`MaxSpurious = 0` (`runner_spurious` shows that it is needed) and `RangesFit` (no
sum of `RunRange` wraps); those of the second assume `SpuriousRangesFit`, which adds
a chunk for every worker and every spurious wakeup: for the few thousand numbers
of the codec's ranges, millions of wakeups fit in 32 bits. The re-entry theorem needs besides
`MaxRuns + MaxReentries < UInt32`, since `depth_` is a 32-bit counter that 2^32
calls would bring back to zero.

The argument. `NoStrayCall` is not inductive: nothing in it says why the next
call is with a new number. `IndInv` adds
`ControlInv` (for each location of the application thread, where the workers
can be; in the barrier `workers_ready_` is the number of waiting workers, so
the barrier ends exactly when all are back), `RangeOK`, `ReservationInv` (a
worker that is calling holds an interval below the reserved part of the range,
intervals of different workers are disjoint, a worker that stopped saw the
range exhausted, and `num_reserved_` overshoots by at most one chunk for each
worker that stopped), `CallsInv` (the numbers called are exactly those reserved
and no longer owed by a worker), `ErrorInv` (without an error every call that
ended is in `completed`) and `SeqInv` for the sequential path. The reservation
step and the end of the barrier carry the weight. `IndInv` is also an invariant
of `runner_short`. With spurious wakeups most of `ControlInv` is false: a worker can
execute the range command before `notify_all`, again after it reported, and after
the barrier has opened, and `num_reserved_` can overshoot more often.
`SpuriousInv`, which stands in `ThreadParallelRunner_spurious` and was checked on
the instance of `runner_long`, keeps the disjoint intervals and the
numbers called wherever the application thread is, and pays for the overshoot:
a worker that is woken or busy (`Active`) has one chunk still to come, and each
notification and each spurious wakeup buys at most one more (`Overshoots`).
`DepthInv` bounds `depth_` from below by the re-entries plus
the `Run` in progress: what a nested `Runner` added is never taken back.

### Decoder input

`DecoderInput_proofs`:

- `InputImplementsInputPass`: `Spec => ImplementsInputPass`, for any file, intact
  or not. `DecoderOutput`, which is built on the actions of `InputPass`, thereby
  rests on the code that reads bytes. The invariant is `PassInv`: `ControlInv`
  (which markers are found and which rows counted in which `global_state`) and
  `ScanInv` (`input_iMCU_row` is the iMCU row of the MCU row being decoded, so the
  last MCU of the scan completes the last iMCU row).
- `BytesAreReadOnce`: `Spec /\ []RestartsAreRestarts => []NoByteLostOrRepeated`.
- `HandsOffExactly`: `Spec /\ []RestartsAreRestarts => []HandOffIsExact`.

`FilesAssumption` says that a file is a sequence of bytes, no more. The
hypothesis `RestartsAreRestarts` leaves out the files in which, where a restart
marker is due, the decoder finds EOI or a marker with a processor. Files that are
cut off there are among them, because the source then supplies an EOI. Without it
both statements are false (section 6).

The argument. Positions are counted from the start of the input: `here` is what
has been parsed, `chunkStart` the beginning of the chunk that the source handed
out last. `BytesInv` says that the source's buffer is the end of what was
delivered and that the private buffer, if in use, has all that is unread. That is
not enough for the hand-off, where the source's buffer alone must have the unread
bytes. `LeftInv` adds why the decoder asked for another chunk: between `here` and
the new chunk there is no marker, or only the start of a segment (`Undecided`).
So a marker is found only when its end is in the last chunk, and a marker that is
handed over waits in `unread_marker` only while the source's buffer is in use.
`PaddingInv`: a scan stops in the middle of a byte only with two more bytes
there, so an escape is never split by a change of buffers.

### Decoder output

`DecoderOutput_proofs`, for every height, sampling factors, scale, set of modes
and number of scans and passes:

- `OutputInvariant`: `Spec => []OutputInv`.
- `LinesAreAccounted`, `RingIsLargeEnough`, `LinesShowWholeScans`: `NoLineLost`,
  `RingHoldsContext` and `ShowsWholeScans`.
- `LookedAtIsFinal`: `NothingArrivesLate`, an action property.

Assumptions on the constants: `OutputAssumption` (what `ProcessSOF` and
`jpegli_calc_output_dimensions` leave possible), `IntegralSubsampling`, and
`SmoothingIsProgressive`: `do_smoothing` (`render.cc:360`) is false unless the
file is progressive, and every progressive file has `is_multiscan_` set
(`decode_marker.cc:223`), hence is not streamed.

The argument. The ring of `AllocateOutputBuffers` is a count of rows; that it
suffices depends on how far `ProcessOutput` may be ahead of the lines it has
returned. `LineStartInv` bounds it: a row is decoded only when the lines before
it are used up. `RingInv` then says for the one or three last iMCU rows (`Kept`)
that each row of samples is at its place and made of the right coefficients; a
row read with context is among them by the arithmetic of `imcu_height` and
`context`, proved for every scale. What "right" means comes from `LookedInv` (a
row the output has looked at has been passed by the input in the displayed scan,
or the scan is over) and `CoefInv` with `StreamingInv` (what `coef_arrays`
holds; in streaming mode there is one row, and the input is never ahead of the
output by more). `CallInv` and `ProgressInv` say which call can be in progress
where.

### Encoder

For images of any size and sampling, any number of them, any order of the calls and
any refusals of the destination. `Encoder_proofs`:

- `EncoderInvariant`: `Spec => []EncoderInv`.
- `RowsAreRight`, `BuffersAreLargeEnough`: `RowsCodedFromTheirInput` and
  `BuffersSuffice`.
- `ResultsStay`: `NoResultFreed`, if `MemVars \subseteq {"fresh", "same"}`: each
  image starts with a NULL `*outbuffer` or with the last result's buffer (for the
  application's own buffer see section 6).

`Encoder_stream`:

- `StreamIsRight`: `StreamIsTheImage`, for every kind and size of buffer.
- `DecoderIsReady`: `DecoderHasTheTables`, over all streams of a session.

Assumptions: `DestsAssumption` (a destination has a kind and a size),
`ImagesAssumption` and `ShapeAssumption`, which is what
`ProcessCompressionParams` does not refuse (`encode.cc:243`), and
`CountsAssumption`: `jpegli_write_scanlines` takes a number, and a block gives 2
to 64 tokens (a DC and an end-of-block or the last coefficient).

The argument. `RowsCodedFromTheirInput` only says that no read has gone wrong so
far. `RingsInv` has, for each ring, the window of lines that it holds, as a
function of `next_input_row` and `next_iMCU_row`; `ErosionInv` that the
pre-erosion of adaptive quantization is one row ahead of the coded rows and
still has the row before; `CountInv` ties the two counters, so that coding is
one iMCU row behind the lines until the padding at the end. The reads of a step
are shown to lie in the windows for each stage, in the case of the first, an
inner and the last iMCU row. `TokensInv` ties the token arrays to the iMCU rows
coded, `BitsInv` says that the bit writer never holds more than the last two
iMCU rows. `HeapInv` says which malloc'ed buffer the destination owns, and that
it is none of those given away.

`StreamIsTheImage` speaks of what is out, but a call that is refused has moved
bytes already, and is repeated. `StreamInv` has the sum that these moves leave
alone: what has gone out, what is in the destination's buffer and what the bit
writer still holds is together (`Wrote`) the header segments written so far and
the units of the coded rows (`AfterHeaders`, `Going`), and after the last
`term_destination` it is the stream with nothing pending (`Done`). One lemma says
that `EmptyBitWriterBuffer` keeps the concatenation whatever the buffer takes; every
other action adds to one end. For the tables, `HasSent` says of each table flagged
as sent that the decoder knows it or that its segment is in the part of this stream
that precedes the scan; an image with `write_all_tables` sets the flags back, an
abbreviated one relies on an earlier stream that was completed. `StreamInv` was
checked on the instance of `encoder`.

### Huffman slots

`HuffmanSlots_proofs`, for frames of any number of scans, however their histograms
are merged:

- `DecoderCanDecode`: `Spec => []DecoderHasTheCodes`.

`FramesAssumption` says of each frame what `ValidateScanScript` lets pass
(`IsFrame`), and that the application's tables are for sequential frames.

The argument. A decoder has four slots of each kind; a progressive frame may need
more tables, and a table is sent when the first scan with a new one comes. While
histograms are clustered, slots are given out in a circle and hold the last four
histograms; histograms are numbered by their first context, and one that has lost
its slot gets no more contexts, so its contexts end before its successor's begin
(`ClusterInv`). `AreTables` carries this over to the tables sent: the first ones
have slots of their own, the later ones are AC tables in the order in which they
start, and of two in one slot the first ends before the second starts. `SentOf`
says that the decoder has in each slot the last table sent for it, that all
contexts of the scans so far have had their table sent, and that each table sent
after the first ones has a context in a scan already begun. So if a scan's table
had been replaced, its successor would start in a scan already begun, that is
before the last context of its predecessor. `SlotsInv`, their conjunction, is an
invariant of the instance of `algorithms`.

### Benchmark

`Benchmark_proofs`, for any number of images, codecs and threads and anything that
can happen to a task:

- `ReportsAreInOrder`: `Spec => []ReportIsInOrder`.
- `ErrorsAreReturned`: `Spec => []ReturnsTheErrors`.

`ArgumentsAssumption` asks for an image and a codec (the tool aborts without
images; without a codec there is nothing to run or print) and says nothing of the
outcomes, the cores or `--num_threads`.

The argument. `ReportIsInOrder` says what is printed, not why the next thread
prints the right thing. `BenchInv` adds, for each mode, how far the printer is
(`LineByLineInv`, `AtTheEndInv`): all lines up to `stats_printed_` are of methods
whose tasks were all reported, and the method after them is either not complete or
held up by a report that cannot be written (`HeldUp`). A line is compared with the
tasks it counts although later steps change their statistics: `LinesAreRight` says
that its errors are as many as the images that did not come back (`Lacking`), which nothing
changes after the report. The error counted for a line that could not be printed
falls on a task (`Charged`) that is in no line printed later, because its method is
the one that is held up or one already printed; this is what keeps the sums of later
lines equal to the images that are missing. `ErrorsInv` relates the counters of the
threads to the statistics without knowing which thread ran which task. The sums are
recursive functions over a range; what the proof needs of them, that a sum of ones
and zeros is a cardinality and that a sum is zero when its terms are, follows from
the least number for which it fails (`SumCounts`, `SumIsZero`). `BenchInv`
stands in `Benchmark_proofs` and was checked on the instance of `benchmark`.

### What stays with TLC

- Liveness: `CallsReturn`, `EndsEventually`, `ImageEnds`, `StartedImageEnds`.
  Temporal reasoning under fairness is beyond the prover.
- What folds and recursive functions compute, which needs induction over data:
  all properties of `MCAlgorithms`, `ScansDecode` and `TokensFit` of `TokenCoding`.
- `DecodedIsCoded`, `EveryMarkerOnce`, `SoundInputNeverFails`: they compare the
  decoder with values that each file of the instance is written to have.

## 6. Findings and deviations

Findings, each with a run that TLC refutes:

1. `runner_spurious`: comments say "Safely handle spurious worker wakeups", but
   the command stays set until the barrier ends; a worker that wakes spuriously
   in that time runs it again and is counted twice, so the call can return
   while another worker is still in its data function.
2. `tokens_uneven`: for a valid script whose bands start with different
   precision and share a later refinement scan, `TokenizeJpeg` tokenizes the
   shared scan in a pass whose array of refinement bits was sized for another,
   against the assertion at `entropy_coding.cc:504`.

Cases that the properties exclude because the code does otherwise there; each
is met by removing the named restriction of the instance:

- A range that ends at 2^32 - 1: `begin + num_reserved_` wraps
  (`thread_parallel_runner_internal.cc:97`; `RangesFit`).
- A scan that breaks off within an MCU while many bytes follow: the state that
  is restored was saved for another MCU (`decode_scan.cc:538`; the files).
- A restart marker with a wrong number: the scan is reported as completed, but
  decoding goes on (`decode.cc:354`; the files). If the marker found there is
  EOI or has a processor, it stays unread, and is handed over after the scan, when
  the private buffer may be in use. With `Start \o SosAC` (of
  `MCDecoderInput`) and then
  `<<101, 255, m, 22, 255, 217, 0, 4, 5, 5, 5, 255, 217>>`, m = 217 or 230, as
  the file and chunks of one byte, the assertion of `decode.cc:361` fails and a
  byte is lost. Hence the hypothesis `RestartsAreRestarts` of section 5.
- Two-pass quantization of a single scan: `jpegli_start_decompress` may suspend,
  and the repeated call is refused (`decode.cc:471`; the modes).
- Raw data is read at scale 1 only: `jpegli_read_raw_data` advances by unscaled
  lines.
- A second image into the application's own buffer frees the first result
  (`destination_manager.cc:75`; `MemVars`).
- `restart_in_rows` with scans of different widths gives a second DRI, which the
  decoder refuses (`decode_marker.cc:379`; `Init` of `TokenCoding`).
- `write_all_tables = FALSE` after an aborted stream (`known.sound`), and
  `jpegli_set_psnr` with `jpegli_write_coefficients` (`encode.cc:1242`).
- Gray input in a YCbCr file gets chroma 0 (`color_transform.cc:264`).
- ICC profiles of more segments than fit in a byte (`encode.cc:1111`).
- A CICP tag that is not whole in the first ICC segment: the loop of
  `LookupCICPTransferFunctionFromAppData` does not advance past a segment it has
  read (`enc/jpegli.cc:211`), reads it again, finds its index out of order and
  answers unknown, so PQ and HLG images get the quantization tables of other
  images (`in_first` of `CicpIsFound`).
- Two unknown transfer functions compare as equal, and the conversion is skipped
  (`jpegli_cms.cc:1163`; `TransformReaches`).
- Perceptual sRGB is printed as "sRGB" but parsed with the relative intent
  (`color_description.cc:228`; `DescriptionParses`).
- PGX samples of other depths than 8 and 16 are read with the range of 16 bits;
  the PAM writer names reserved extra channels as the reader refuses
  (`FileIsTheImage`).
- A benchmark task whose compressions all fail is never reported, although
  `benchmark_args.cc:77` says that error counts stay visible
  (`benchmark_xl.cc:183`; `ReportIsInOrder` is about reported tasks). A line that
  could not be printed counts as an error of the task reported last, whatever its
  method (`benchmark_xl.cc:1067`); so the errors printed in a line are compared with
  the images that did not come back.

## 7. Plan

Done: `ThreadParallelRunner` with `ParallelFor`; `DecoderInput` with `InputPass`;
`DecoderOutput` over `InputPass`; `Encoder`; `TokenCoding`; `HuffmanSlots` and
the algorithms; `Benchmark`. Proofs of the safety and the refinement of the
thread pool, of the refinement and the bytes of the decoder's input, of the
decoder's output, of rows, buffers, results, stream and tables of the encoder, of
the slots of Huffman tables, and of the benchmark.

To do:

1. Proofs: `ScansDecode`, with sequences instead of folds.
2. Decoder: `coef_bits` and the smoothing latch (`render.cc:440`), the progress
   monitor, cropping.

## 8. Not modelled

- Floating-point rounding, SIMD lanes, quantization values, adaptive
  quantization values, metrics: numerical, without a definition to check against
  that is simpler than the code. The models have which data these read.
- The cost that decides which histograms are merged: every choice is allowed.
- Memory pools: the models use that `JPOOL_IMAGE` dies with the image.
- PNG, GIF, EXR and libjpeg bindings, NPY, JNI, argument parsing: calls of other
  libraries and I/O.
- Errors: `error_exit` does not return, so an error is a final location of the
  model; their wording is left out.
- Applications that break the call protocol of the tests.
