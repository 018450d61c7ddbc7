---------------------------- MODULE DecoderInput ----------------------------
(***************************************************************************)
(* The input side of the decoder: ConsumeInput (lib/jpegli/decode.cc), the *)
(* marker parser (decode_marker.cc), the scan decoder (decode_scan.cc) and *)
(* the source managers, in buffered-image mode, where the application      *)
(* drives the input with jpegli_consume_input.  Sources are "mem" and      *)
(* "fill" (source_manager.cc) and "suspend", whose fill_input_buffer       *)
(* returns FALSE as in input_suspension_test.cc; init_source does nothing. *)
(*                                                                         *)
(* A file is a sequence of bytes.  Marker codes, marker lengths, the       *)
(* 0xff 0x00 escapes and the fake EOI are those of the code; payloads are  *)
(* cut down to what steers the parser: the restart interval in DRI and     *)
(* Ss in SOS.  The frame's geometry is constant.  An MCU is one block, and *)
(* its Huffman code is made of nibbles instead of bits:                    *)
(*   0               no symbol                                             *)
(*   1..5, 7         a block with this value                               *)
(*   6               an end-of-block run of two blocks (AC scans only)     *)
(*   8..15, x, y     a block with a long value                             *)
(* A scan codes one component (Ss = 0: differences of DC values, else AC). *)
(***************************************************************************)
EXTENDS Integers, Sequences, FiniteSetsExt

CONSTANTS
  Files,              \* the files and what they hold
  Kinds,              \* source managers: subset of {"mem", "fill", "suspend"}
  ChunkSizes,         \* how many bytes a source may deliver at once
  MCUs_per_row, MCU_rows_in_scan, mcu_rows_per_iMCU_row_,
  MaxScans,           \* bound: scans in a file
  kMaxMCUByteSize,    \* no MCU of an intact file is within 2 bytes of it
  Processors,         \* markers with a processor set by the application
  MarkersToSave       \* markers of jpegli_save_markers

Byte == 0 .. 255
MCUs == 1 .. MCUs_per_row * MCU_rows_in_scan
Scans == 1 .. MaxScans
total_iMCU_rows ==
  (MCU_rows_in_scan + mcu_rows_per_iMCU_row_ - 1) \div mcu_rows_per_iMCU_row_

\* Files is a set of records: the bytes, the values the scans code (a function
\* of Scans and MCUs), the APP markers of the last image, and where the file
\* ends: "whole", in a "scan", in a marker "segment"; or "corrupt".

ASSUME FilesAssumption == \A f \in Files : f.bytes \in Seq(Byte)

ASSUME InputAssumption ==
  /\ Kinds \subseteq {"mem", "fill", "suspend"}
  /\ ChunkSizes \subseteq Nat \ {0}
  /\ MCUs_per_row \in Nat \ {0} /\ MCU_rows_in_scan \in Nat \ {0}
  /\ mcu_rows_per_iMCU_row_ \in Nat \ {0} /\ MaxScans \in Nat \ {0}
  /\ kMaxMCUByteSize \in Nat

VARIABLES
  file, kind,                  \* chosen in Init
  global_state,
  src,                         \* the bytes next_input_byte points to
  input_buffer_, input_buffer_pos_,
  delivered, consumed,         \* history: bytes the source handed out, bytes read
  pc, pos, status,             \* ConsumeInput's control and locals
  unread_marker, found, restart_interval, Ss,
  marker_list, seen,           \* markers saved, markers given to the processor
  input_scan_number, input_iMCU_row,
  scan,                        \* the coding state of the scan
  mcu_,                        \* what SaveMCUCodingState saved
  coefs

config == <<file, kind>>
source == <<src, input_buffer_, input_buffer_pos_, delivered, consumed>>
header == <<unread_marker, found, restart_interval, Ss, marker_list, seen>>
frame  == <<input_scan_number, input_iMCU_row, scan, mcu_, coefs>>
vars == <<config, global_state, source, pc, pos, status, header, frame>>

-----------------------------------------------------------------------------
SOI == 216
EOI == 217
SOS == 218
DQT == 219
DRI == 221
SOFs == {192, 193, 194}
DHT == 196
RST(n) == 208 + n

\* kIsValidMarker
ValidMarkers == SOFs \cup {DHT, DRI, 254} \cup 208 .. 219 \cup 224 .. 239

States == {"kDecStart", "kDecInHeader", "kDecHeaderDone",
           "kDecProcessMarkers", "kDecProcessScan"}
Statuses == {"none", "kNeedMoreInput", "kHandleRestart",
             "kHandleMarkerProcessor", "JPEG_SUSPENDED", "JPEG_REACHED_SOS",
             "JPEG_REACHED_EOI", "JPEG_ROW_COMPLETED", "JPEG_SCAN_COMPLETED"}

\* The i-th byte of the input: the file, then fake EOI markers for ever.
StreamByte(f, i) == IF i <= Len(f.bytes) THEN f.bytes[i]
                    ELSE IF (i - Len(f.bytes)) % 2 = 1 THEN 255 ELSE EOI

Slice(f, from, to) == [i \in 1 .. to - from |-> StreamByte(f, from + i)]

\* The end of a chunk of at most n bytes that starts after `delivered' bytes.
ChunkEnd(n) == IF delivered < Len(file.bytes)
               THEN Min({delivered + n, Len(file.bytes)})
               ELSE delivered + 2

\* What ConsumeInput parses: its own buffer if it has one, else the source's.
data == IF input_buffer_ = <<>> THEN src
        ELSE SubSeq(input_buffer_, input_buffer_pos_ + 1, Len(input_buffer_))
len == Len(data)
At(p) == data[p + 1]

\* The first position from p on of a 0xff before one of the bytes given, or, if
\* there is none yet, the last byte.
SkipTo(p, bytes) ==
  LET hits == {q \in p .. len - 2 : At(q) = 255 /\ At(q + 1) \in bytes}
  IN IF hits # {} THEN Min(hits) ELSE Max({p, len - 1})

NoScan == [row |-> 0, col |-> 0, bits_ahead |-> 0, last_dc |-> 0, eobrun |-> 0,
           restarts_to_go |-> 0, next_restart |-> 0]

Init ==
  /\ file \in Files /\ kind \in Kinds
  /\ global_state = "kDecStart"
  /\ delivered = IF kind = "mem" THEN Len(file.bytes) ELSE 0
  /\ src = Slice(file, 0, delivered) /\ consumed = 0
  /\ input_buffer_ = <<>> /\ input_buffer_pos_ = 0
  /\ pc = "app" /\ pos = 0 /\ status = "none"
  /\ unread_marker = 0 /\ found = {} /\ restart_interval = 0 /\ Ss = 0
  /\ marker_list = <<>> /\ seen = <<>>
  /\ input_scan_number = 0 /\ input_iMCU_row = 0 /\ scan = NoScan
  /\ mcu_ = [last_dc |-> 0, eobrun |-> 0, coef |-> 0]
  /\ coefs = [s \in Scans |-> [m \in MCUs |-> 0]]

(***************************************************************************)
(* The application.                                                        *)
(***************************************************************************)

\* jpegli_consume_input: the first call of an image initializes it; then
\* ConsumeInput is entered.
CallConsumeInput ==
  /\ pc = "app" /\ global_state # "kDecHeaderDone"
  /\ "eoi" \in found => global_state = "kDecStart"
  /\ status = "JPEG_SUSPENDED" => kind # "suspend"
  /\ pc' = "loop" /\ status' = "none"
  /\ IF global_state = "kDecStart"
     THEN /\ global_state' = "kDecInHeader"
          /\ input_buffer_' = <<>> /\ input_buffer_pos_' = 0
          /\ unread_marker' = 0 /\ found' = {} /\ restart_interval' = 0
          /\ input_scan_number' = 0 /\ input_iMCU_row' = 0
          /\ marker_list' = <<>>
          /\ scan' = [scan EXCEPT !.bits_ahead = 0]
          /\ UNCHANGED <<src, delivered, consumed, Ss, seen>>
     ELSE UNCHANGED <<global_state, source, header, input_scan_number,
                      input_iMCU_row, scan>>
  /\ UNCHANGED <<config, pos, mcu_, coefs>>

\* Mutant: input_iMCU_row is reset for the first scan only.
PrepareForScanKeepsRow ==
  /\ scan' = [NoScan EXCEPT !.restarts_to_go = restart_interval]
  /\ input_scan_number' = input_scan_number + 1
  /\ input_iMCU_row' = IF input_scan_number = 0 THEN 0 ELSE input_iMCU_row
  /\ global_state' = "kDecProcessScan"

\* PrepareForScan
PrepareForScan ==
  /\ scan' = [NoScan EXCEPT !.restarts_to_go = restart_interval]
  /\ input_scan_number' = input_scan_number + 1
  /\ input_iMCU_row' = 0
  /\ global_state' = "kDecProcessScan"

\* jpegli_start_decompress in buffered-image mode: a zeroed coefficient
\* buffer, and the scan whose SOS ended the header.
StartDecompress ==
  /\ pc = "app" /\ global_state = "kDecHeaderDone"
  /\ coefs' = [s \in Scans |-> [m \in MCUs |-> 0]]
  /\ PrepareForScan
  /\ UNCHANGED <<config, source, pc, pos, status, header, mcu_>>

\* The suspending application keeps the bytes the decoder has not read and
\* appends the next chunk (at the end of the file: a fake EOI).
LoadNextChunk ==
  /\ pc = "app" /\ kind = "suspend" /\ status = "JPEG_SUSPENDED"
  /\ \E n \in ChunkSizes : delivered' = ChunkEnd(n)
  /\ src' = src \o Slice(file, delivered, delivered')
  /\ status' = "none"
  /\ UNCHANGED <<config, global_state, input_buffer_, input_buffer_pos_,
                 consumed, pc, pos, header, frame>>

\* jpegli_finish_decompress at EOI (and jpegli_read_header on a file that only
\* has tables): jpegli_abort returns the decoder to its start state.  The
\* application goes on with the next image if there are bytes left.
FinishDecompress ==
  /\ pc = "app" /\ "eoi" \in found /\ global_state # "kDecStart"
  /\ global_state' = "kDecStart"
  /\ pc' = IF consumed < Len(file.bytes) THEN pc ELSE "done"
  /\ UNCHANGED <<config, source, pos, status, header, frame>>

(***************************************************************************)
(* ConsumeInput: one iteration of its loop runs one of the parsers.        *)
(***************************************************************************)
BeginParse ==
  /\ pc = "loop"
  /\ pos' = 0
  /\ IF global_state = "kDecProcessScan" /\ len = 0
     THEN pc' = "post" /\ status' = "kNeedMoreInput"
     ELSE /\ pc' = IF global_state = "kDecProcessScan" THEN "scan" ELSE "markers"
          /\ status' = status
  /\ UNCHANGED <<config, global_state, source, header, frame>>

Fail == pc' = "error"

-----------------------------------------------------------------------------
(* ProcessNextMarker.  A marker found but not processed stays in           *)
(* unread_marker while the decoder waits for the rest of the segment.      *)
MarkerPos == IF unread_marker = 0 THEN SkipTo(pos, ValidMarkers) ELSE pos
HasMarker == unread_marker # 0 \/ MarkerPos + 2 <= len
Marker == IF unread_marker = 0 THEN At(MarkerPos + 1) ELSE unread_marker
SegStart == IF unread_marker = 0 THEN MarkerPos + 2 ELSE pos
HasLength == Marker \notin {SOI, EOI}
LengthIncomplete == HasLength /\ SegStart + 2 > len
SegLen == IF HasLength /\ ~LengthIncomplete
          THEN 256 * At(SegStart) + At(SegStart + 1) ELSE 0

NoSOI == "soi" \notin found /\ (Marker # SOI \/ MarkerPos > pos)

NeedMoreForMarker ==
  /\ pc = "markers" /\ ~HasMarker
  /\ pc' = "post" /\ status' = "kNeedMoreInput" /\ pos' = MarkerPos
  /\ UNCHANGED <<config, global_state, source, header, frame>>

MarkerForProcessor ==
  /\ pc = "markers" /\ HasMarker /\ ~NoSOI
  /\ Marker \in Processors
  /\ unread_marker' = Marker
  /\ pc' = "post" /\ status' = "kHandleMarkerProcessor" /\ pos' = SegStart
  /\ UNCHANGED <<config, global_state, source, found, restart_interval, Ss,
                 marker_list, seen, frame>>

SegmentIncomplete == LengthIncomplete \/ SegStart + SegLen > len

\* Mutant: the marker is saved before its segment is complete.
NeedMoreForSegmentSaves ==
  /\ pc = "markers" /\ HasMarker /\ ~NoSOI /\ Marker \notin Processors
  /\ SegmentIncomplete
  /\ marker_list' = IF Marker \in MarkersToSave /\ ~LengthIncomplete
                    THEN <<Marker>> \o marker_list ELSE marker_list
  /\ unread_marker' = Marker
  /\ pc' = "post" /\ status' = "kNeedMoreInput" /\ pos' = SegStart
  /\ UNCHANGED <<config, global_state, source, found, restart_interval, Ss, seen,
                 frame>>

NeedMoreForSegment ==
  /\ pc = "markers" /\ HasMarker /\ ~NoSOI /\ Marker \notin Processors
  /\ SegmentIncomplete
  /\ unread_marker' = Marker
  /\ pc' = "post" /\ status' = "kNeedMoreInput" /\ pos' = SegStart
  /\ UNCHANGED <<config, global_state, source, found, restart_interval, Ss,
                 marker_list, seen, frame>>

\* What ProcessSOI, ProcessSOF, ProcessSOS, ProcessDQT, ProcessDRI and
\* ProcessNextMarker itself reject.
BadSegment ==
  \/ HasLength /\ SegLen < 2
  \/ Marker = SOI /\ "soi" \in found
  \/ Marker \in SOFs /\ "sof" \in found
  \/ Marker = SOS /\ ("sof" \notin found \/ SegLen # 3)
  \/ Marker = DQT /\ "sos" \in found
  \/ Marker = DRI /\ ("dri" \in found \/ SegLen # 4)
  \/ Marker \in 208 .. 215

FlagOf(marker) == CASE marker = SOI -> {"soi"} [] marker \in SOFs -> {"sof"}
                    [] marker = SOS -> {"sos"} [] marker = DRI -> {"dri"}
                    [] marker = EOI -> {"eoi"} [] OTHER -> {}

\* A complete segment: SaveMarker, then the Process function of the marker.
ProcessSegment ==
  /\ pc = "markers" /\ HasMarker /\ ~NoSOI /\ Marker \notin Processors
  /\ ~SegmentIncomplete /\ ~BadSegment
  /\ marker_list' = IF Marker \in MarkersToSave THEN <<Marker>> \o marker_list
                                                ELSE marker_list
  /\ found' = found \cup FlagOf(Marker)
  /\ restart_interval' = IF Marker = DRI
                         THEN 256 * At(SegStart + 2) + At(SegStart + 3)
                         ELSE restart_interval
  /\ Ss' = IF Marker = SOS THEN At(SegStart + 2) ELSE Ss
  /\ pos' = SegStart + SegLen
  /\ unread_marker' = 0
  /\ CASE Marker = SOS -> pc' = "post" /\ status' = "JPEG_REACHED_SOS"
       [] Marker = EOI -> pc' = "post" /\ status' = "JPEG_REACHED_EOI"
       [] OTHER        -> pc' = pc /\ status' = status
  /\ UNCHANGED <<config, global_state, source, seen, frame>>

MarkerError ==
  /\ pc = "markers" /\ HasMarker
  /\ \/ NoSOI
     \/ Marker \notin Processors /\ ~SegmentIncomplete /\ BadSegment
  /\ Fail
  /\ UNCHANGED <<config, global_state, source, pos, status, header, frame>>

-----------------------------------------------------------------------------
(* ProcessScan.                                                            *)
mcu == scan.row * MCUs_per_row + scan.col + 1
AtRestart == restart_interval > 0 /\ scan.restarts_to_go = 0

\* FinishScan: skip the padding of the last byte (two bytes if it is escaped).
AfterPadding(p, bits) == IF bits = 0 THEN p
                         ELSE IF At(p) = 255 THEN p + 2 ELSE p + 1
Finished(s) == [s EXCEPT !.eobrun = 0, !.last_dc = 0, !.bits_ahead = 0]

RestartStops == Byte \ {0, 255}

\* The restart interval is over: find the next marker.
ScanRestart ==
  /\ pc = "scan" /\ AtRestart /\ scan.eobrun = 0
  /\ LET p == SkipTo(AfterPadding(pos, scan.bits_ahead), RestartStops)
     IN IF p + 2 > len
        THEN pos' = p /\ status' = "kNeedMoreInput" /\ unread_marker' = unread_marker
        ELSE pos' = p + 2 /\ status' = "kHandleRestart" /\ unread_marker' = At(p + 1)
  /\ scan' = Finished(scan)
  /\ pc' = "post"
  /\ UNCHANGED <<config, global_state, source, found, restart_interval, Ss,
                 marker_list, seen, input_scan_number, input_iMCU_row, mcu_,
                 coefs>>

\* BitReaderState: the entropy-coded bytes end before a marker or at the end
\* of the data.
MarkersFrom(p) == {q \in p .. len - 2 : At(q) = 255 /\ At(q + 1) # 0}
DataEnd(p) == IF MarkersFrom(p) = {} THEN len ELSE Min(MarkersFrom(p))

\* GetNextByte: where the next bytes are (an MCU takes at most two and a half).
\* A 0x00 after 0xff is not one of them.
ByteAfter(q) == IF q < len /\ At(q) = 255 THEN q + 2 ELSE q + 1
DataBytes(p) == <<p, ByteAfter(p), ByteAfter(ByteAfter(p))>>

\* Past the end of the data the reader returns zeros.
Nibble(bytes, k) ==
  LET q == bytes[k \div 2 + 1]
  IN IF q >= DataEnd(pos) THEN 0
     ELSE IF k % 2 = 0 THEN At(q) \div 16 ELSE At(q) % 16

\* DecodeDCTBlock: the nibbles it reads, the block's value (or the one it
\* had), the coding state after it and whether the symbol was valid.
DecodeDCTBlock(bytes, k) ==
  LET sym   == Nibble(bytes, k)
      long  == sym >= 8
      value == IF long THEN 256 * sym + 16 * Nibble(bytes, k + 1) + Nibble(bytes, k + 2)
                       ELSE sym
      coef  == IF Ss = 0 THEN scan.last_dc + value ELSE value
      old   == coefs[input_scan_number][mcu]
      Block(n, c, dc, eob, ok) ==
        [n |-> n, coef |-> c, last_dc |-> dc, eobrun |-> eob, ok |-> ok]
  IN CASE scan.eobrun > 0 -> Block(0, old, scan.last_dc, scan.eobrun - 1, TRUE)
       [] scan.eobrun = 0 /\ sym = 6 -> Block(1, old, scan.last_dc, 1, Ss # 0)
       [] scan.eobrun = 0 /\ sym = 0 -> Block(1, old, scan.last_dc, 0, FALSE)
       [] OTHER -> Block(IF long THEN 3 ELSE 1, coef, IF Ss = 0 THEN coef ELSE scan.last_dc,
                         0, TRUE)

\* The MCU at pos: the block, where reading stopped and whether the data has
\* the last nibble read (FinishStream).
ReadMCU ==
  LET bytes == DataBytes(pos)
      block == DecodeDCTBlock(bytes, scan.bits_ahead)
      k     == scan.bits_ahead + block.n
  IN [block |-> block,
      pos   |-> Min({bytes[k \div 2 + 1], DataEnd(pos)}),
      bits  |-> k % 2,
      ok    |-> k = 0 \/ bytes[(k + 1) \div 2] < DataEnd(pos)]

\* A code read within the last two bytes may have been cut off.
TooClose(p) == p + 2 > len

\* SaveMCUCodingState, unless the rest of the buffer surely holds the MCU.
MayRunOut == pos + kMaxMCUByteSize > len

SaveMCUCodingState ==
  mcu_' = IF MayRunOut
          THEN [last_dc |-> scan.last_dc, eobrun |-> scan.eobrun,
                coef |-> coefs[input_scan_number][mcu]]
          ELSE mcu_

\* Mutant: the DC predictor is not restored.
RestoreEobrunOnly(bits) ==
  /\ scan' = [scan EXCEPT !.eobrun = mcu_'.eobrun, !.bits_ahead = bits,
                          !.last_dc = ReadMCU.block.last_dc]
  /\ coefs' = [coefs EXCEPT ![input_scan_number][mcu] = mcu_'.coef]

RestoreMCUCodingState(bits) ==
  /\ scan' = [scan EXCEPT !.last_dc = mcu_'.last_dc, !.eobrun = mcu_'.eobrun,
                          !.bits_ahead = bits]
  /\ coefs' = [coefs EXCEPT ![input_scan_number][mcu] = mcu_'.coef]

\* Reading stopped within the last two bytes: undo the MCU and wait.
NeedMoreForMCU ==
  /\ pc = "scan" /\ ~AtRestart
  /\ TooClose(ReadMCU.pos)
  /\ SaveMCUCodingState
  /\ RestoreMCUCodingState(scan.bits_ahead)
  /\ pc' = "post" /\ status' = "kNeedMoreInput"
  /\ UNCHANGED <<config, global_state, source, pos, header, input_scan_number,
                 input_iMCU_row>>

\* Mutant: a marker inside the MCU is taken for the end of a row.
IncompleteRow ==
  /\ pc = "scan" /\ ~AtRestart
  /\ ~TooClose(ReadMCU.pos) /\ ~ReadMCU.ok
  /\ SaveMCUCodingState
  /\ RestoreMCUCodingState(ReadMCU.bits)
  /\ pos' = ReadMCU.pos
  /\ pc' = "post" /\ status' = "JPEG_ROW_COMPLETED"
  /\ UNCHANGED <<config, global_state, source, header, input_scan_number,
                 input_iMCU_row>>

\* A marker inside the MCU: undo the MCU and end the scan.
IncompleteScan ==
  /\ pc = "scan" /\ ~AtRestart
  /\ ~TooClose(ReadMCU.pos) /\ ~ReadMCU.ok
  /\ SaveMCUCodingState
  /\ RestoreMCUCodingState(ReadMCU.bits)
  /\ pos' = ReadMCU.pos
  /\ pc' = "post" /\ status' = "JPEG_SCAN_COMPLETED"
  /\ UNCHANGED <<config, global_state, source, header, input_scan_number,
                 input_iMCU_row>>

DecodedMCU == ~TooClose(ReadMCU.pos) /\ ReadMCU.ok /\ ReadMCU.block.ok
LastInScan == mcu = MCUs_per_row * MCU_rows_in_scan
LastInRow == scan.col + 1 = MCUs_per_row
LastIniMCURow == LastInRow /\ (scan.row + 1) % mcu_rows_per_iMCU_row_ = 0

\* The MCU is complete; at the end of the scan FinishScan, at the end of an
\* iMCU row ProcessScan returns.
DecodeMCU ==
  /\ pc = "scan" /\ ~AtRestart
  /\ DecodedMCU
  /\ LastInScan => ReadMCU.block.eobrun = 0
  /\ SaveMCUCodingState
  /\ LET r    == ReadMCU
         next == [scan EXCEPT
                    !.last_dc = r.block.last_dc, !.eobrun = r.block.eobrun,
                    !.bits_ahead = r.bits,
                    !.restarts_to_go = IF @ > 0 THEN @ - 1 ELSE @,
                    !.col = IF LastInRow THEN 0 ELSE @ + 1,
                    !.row = IF LastInRow THEN @ + 1 ELSE @]
     IN /\ coefs' = [coefs EXCEPT ![input_scan_number][mcu] = r.block.coef]
        /\ IF LastInScan
           THEN scan' = Finished(next) /\ pos' = AfterPadding(r.pos, r.bits)
           ELSE scan' = next /\ pos' = r.pos
  /\ IF LastInScan \/ LastIniMCURow
     THEN /\ pc' = "post"
          /\ input_iMCU_row' = input_iMCU_row + 1
          /\ status' = IF input_iMCU_row' < total_iMCU_rows
                       THEN "JPEG_ROW_COMPLETED" ELSE "JPEG_SCAN_COMPLETED"
     ELSE UNCHANGED <<pc, status, input_iMCU_row>>
  /\ UNCHANGED <<config, global_state, source, header, input_scan_number>>

\* Mutant: a symbol is rejected before it is known to be complete.
ScanErrorEarly ==
  /\ pc = "scan"
  /\ \/ AtRestart /\ scan.eobrun > 0
     \/ ~AtRestart /\ ~ReadMCU.block.ok
  /\ Fail
  /\ UNCHANGED <<config, global_state, source, pos, status, header, frame>>

\* An end-of-block run that crosses a restart or the end of the scan, or a
\* symbol that does not exist.
ScanError ==
  /\ pc = "scan"
  /\ \/ AtRestart /\ scan.eobrun > 0
     \/ /\ ~AtRestart /\ ~TooClose(ReadMCU.pos) /\ ReadMCU.ok
        /\ ~ReadMCU.block.ok \/ (LastInScan /\ ReadMCU.block.eobrun > 0)
  /\ Fail
  /\ UNCHANGED <<config, global_state, source, pos, status, header, frame>>

-----------------------------------------------------------------------------
(* The rest of the iteration: pos bytes of data were parsed.  The private  *)
(* buffer is dropped as soon as the bytes left are all in the source's     *)
(* last chunk.                                                             *)
BytesLeft == len - pos

\* Mutant: the private buffer is kept until it is used up.
BackToSourceWhenEmpty == input_buffer_ # <<>> /\ BytesLeft = 0

BackToSource == input_buffer_ # <<>> /\ BytesLeft <= Len(src)
Last(s, n) == SubSeq(s, Len(s) - n + 1, Len(s))

\* Mutant: the position in the private buffer is not advanced.
AdvancedPosStays == input_buffer_pos_

AdvancedSrc == IF input_buffer_ = <<>> \/ BackToSource THEN Last(src, BytesLeft) ELSE src
AdvancedBuffer == IF BackToSource THEN <<>> ELSE input_buffer_
AdvancedPos == IF input_buffer_ = <<>> \/ BackToSource THEN 0 ELSE input_buffer_pos_ + pos

\* A restart marker was found: check it, or have jpegli_resync_to_restart
\* return TRUE with the marker still unread.
HandleRestart ==
  /\ pc = "post" /\ status = "kHandleRestart"
  /\ src' = AdvancedSrc /\ consumed' = consumed + pos
  /\ input_buffer_' = <<>> /\ input_buffer_pos_' = 0
  /\ scan' = [scan EXCEPT !.next_restart = (@ + 1) % 8,
                          !.restarts_to_go = restart_interval]
  /\ IF unread_marker = RST(scan.next_restart)
     THEN unread_marker' = 0 /\ pc' = "loop" /\ UNCHANGED status
     ELSE /\ pc' = "app" /\ status' = "JPEG_SCAN_COMPLETED"
          /\ unread_marker' = unread_marker
  /\ UNCHANGED <<config, global_state, delivered, pos, found, restart_interval,
                 Ss, marker_list, seen, input_scan_number, input_iMCU_row, mcu_,
                 coefs>>

\* The application's marker processor reads the segment from the source.  With
\* less than the length's two bytes it suspends; the rest it skips, reading
\* past the chunk if need be.
CallMarkerProcessor ==
  /\ pc = "post" /\ status = "kHandleMarkerProcessor"
  /\ input_buffer_' = <<>> /\ input_buffer_pos_' = 0
  /\ IF Len(AdvancedSrc) < 2
     THEN /\ pc' = "app" /\ status' = "JPEG_SUSPENDED"
          /\ src' = AdvancedSrc /\ consumed' = consumed + pos
          /\ UNCHANGED <<delivered, unread_marker, seen>>
     ELSE LET n == 256 * AdvancedSrc[1] + AdvancedSrc[2]
          IN /\ consumed' = consumed + pos + n
             /\ delivered' = Max({delivered, consumed'})
             /\ src' = SubSeq(AdvancedSrc, n + 1, Len(AdvancedSrc))
             /\ seen' = Append(seen, unread_marker)
             /\ unread_marker' = 0
             /\ pc' = "loop" /\ status' = "none"
  /\ UNCHANGED <<config, global_state, pos, found, restart_interval, Ss,
                 marker_list, frame>>

\* fill_input_buffer of a source that has more, or makes up an EOI: the new
\* chunk replaces the source's buffer, ConsumeInput keeps the bytes left.
FillInputBuffer ==
  /\ pc = "post" /\ status = "kNeedMoreInput" /\ kind # "suspend"
  /\ consumed' = consumed + pos
  /\ \E n \in ChunkSizes : delivered' = ChunkEnd(n)
  /\ src' = Slice(file, delivered, delivered')
  /\ input_buffer_' = (IF AdvancedBuffer = <<>> THEN AdvancedSrc ELSE AdvancedBuffer)
                      \o src'
  /\ input_buffer_pos_' = AdvancedPos
  /\ pc' = "loop"
  /\ UNCHANGED <<config, global_state, pos, status, header, frame>>

\* fill_input_buffer of a suspending source returns FALSE.
FillSuspends ==
  /\ pc = "post" /\ status = "kNeedMoreInput" /\ kind = "suspend"
  /\ consumed' = consumed + pos
  /\ src' = AdvancedSrc
  /\ input_buffer_' = <<>> /\ input_buffer_pos_' = 0
  /\ pc' = "app" /\ status' = "JPEG_SUSPENDED"
  /\ UNCHANGED <<config, global_state, delivered, pos, header, frame>>

\* Any other status ends ConsumeInput.
Return ==
  /\ pc = "post"
  /\ status \in {"JPEG_REACHED_SOS", "JPEG_REACHED_EOI", "JPEG_ROW_COMPLETED",
                 "JPEG_SCAN_COMPLETED"}
  /\ pc' = "app"
  /\ src' = AdvancedSrc /\ consumed' = consumed + pos
  /\ input_buffer_' = AdvancedBuffer /\ input_buffer_pos_' = AdvancedPos
  /\ IF status = "JPEG_REACHED_SOS" /\ global_state # "kDecInHeader"
     THEN PrepareForScan
     ELSE /\ global_state' =
               CASE status = "JPEG_SCAN_COMPLETED" -> "kDecProcessMarkers"
                 [] status = "JPEG_REACHED_SOS"    -> "kDecHeaderDone"
                 [] OTHER                          -> global_state
          /\ UNCHANGED <<input_scan_number, input_iMCU_row, scan>>
  /\ UNCHANGED <<config, delivered, pos, status, header, mcu_, coefs>>

-----------------------------------------------------------------------------
Done == pc \in {"done", "error"} /\ UNCHANGED vars

Next ==
  \/ CallConsumeInput \/ StartDecompress \/ LoadNextChunk \/ FinishDecompress
  \/ BeginParse
  \/ NeedMoreForMarker \/ MarkerForProcessor \/ NeedMoreForSegment
  \/ ProcessSegment \/ MarkerError
  \/ ScanRestart \/ NeedMoreForMCU \/ IncompleteScan \/ DecodeMCU \/ ScanError
  \/ HandleRestart \/ CallMarkerProcessor \/ FillInputBuffer \/ FillSuspends
  \/ Return
  \/ Done

Spec == Init /\ [][Next]_vars

\* The decoder is a sequence of calls of one thread, and the application of
\* the tests calls on until the end of the image.
FairSpec == Spec /\ WF_vars(Next)
-----------------------------------------------------------------------------
(* Properties.                                                             *)

\* The types of the decoder's state.
TypeOK ==
  /\ file \in Files /\ kind \in Kinds
  /\ global_state \in States
  /\ src \in Seq(Byte) /\ input_buffer_ \in Seq(Byte)
  /\ input_buffer_pos_ \in 0 .. Len(input_buffer_)
  /\ delivered \in Nat /\ consumed \in 0 .. delivered
  /\ pc \in {"app", "loop", "markers", "scan", "post", "done", "error"}
  /\ pos \in Nat /\ (pc \in {"markers", "scan", "post"} => pos <= len)
  /\ status \in Statuses
  /\ unread_marker \in Byte
  /\ found \subseteq {"soi", "sof", "sos", "dri", "eoi"}
  /\ restart_interval \in Nat /\ Ss \in Byte
  /\ marker_list \in Seq(Byte) /\ seen \in Seq(Byte)
  /\ input_scan_number \in 0 .. MaxScans
  /\ input_iMCU_row \in 0 .. total_iMCU_rows
  /\ scan.row \in 0 .. MCU_rows_in_scan /\ scan.col \in 0 .. MCUs_per_row - 1
  /\ scan.bits_ahead \in 0 .. 1 /\ scan.last_dc \in Nat
  /\ scan.eobrun \in Nat /\ scan.restarts_to_go \in 0 .. restart_interval
  /\ scan.next_restart \in 0 .. 7
  /\ coefs \in [Scans -> [MCUs -> Nat]]

\* However the source cuts the file into chunks, and wherever the decoder
\* suspends, the bytes it looks at are the bytes of the input that were
\* delivered and not yet read: none is lost, none is read twice, across the
\* switch from the source's buffer to input_buffer_ and back and from one
\* image to the next.
NoByteLostOrRepeated == data = Slice(file, consumed, delivered)

\* The assertion of ConsumeInput before it calls resync_to_restart or a marker
\* processor, and the same at EOI, when the next image starts: what
\* input_buffer_ holds and was not parsed is in the source's buffer too, so
\* the callback (or the next image) reads on at the right byte.
HandOffIsExact ==
  pc = "post" /\ status \in {"kHandleRestart", "kHandleMarkerProcessor",
                             "JPEG_REACHED_EOI"}
    => /\ Len(AdvancedBuffer) <= AdvancedPos + Len(AdvancedSrc)
       /\ AdvancedSrc = Slice(file, consumed + pos, delivered)

\* The coefficients are those the file codes, up to the MCU the scan has
\* reached, and zero beyond: an MCU that was decoded from bytes that were not
\* there yet leaves no trace.
DecodedIsCoded ==
  global_state \in {"kDecProcessMarkers", "kDecProcessScan"} =>
    \A s \in Scans, m \in MCUs :
      coefs[s][m] = IF \/ s < input_scan_number
                       \/ s = input_scan_number /\ m < mcu
                    THEN file.coefs[s][m] ELSE 0

\* A sound file, whole or cut off in a scan, never raises an error, although
\* the decoder parses bits past the end of the chunk as zeros.
SoundInputNeverFails == file.ends \in {"whole", "scan"} => pc # "error"

IsPrefixOf(s, t) == Len(s) <= Len(t) /\ s = SubSeq(t, 1, Len(s))

\* The application gets every marker it asked for once and in order, saved or
\* through its processor, and the whole file is read at the end, as the
\* destructor of the SourceManager of input_suspension_test.cc expects.
EveryMarkerOnce ==
  LET toSave == SelectSeq(file.app, LAMBDA b : b \in MarkersToSave \ Processors)
      toSee  == SelectSeq(file.app, LAMBDA b : b \in Processors)
      saved  == [i \in 1 .. Len(marker_list) |->
                   marker_list[Len(marker_list) + 1 - i]]
  IN /\ IsPrefixOf(saved, toSave) /\ IsPrefixOf(seen, toSee)
     /\ pc = "done" /\ file.ends = "whole" => saved = toSave /\ seen = toSee /\ data = <<>>

\* The decoder gets to the end of every file, cut off or corrupt, and to an
\* error otherwise: no chunking makes it wait for ever.  A marker processor that
\* suspends is left out where the source does not: more bytes would only come
\* if the processor called fill_input_buffer itself.
EndsEventually ==
  \/ kind = "fill" /\ Range(file.app) \cap Processors # {}
  \/ <>(pc \in {"done", "error"})

\* As the output side sees it: ProcessScan's return ends the scan.
passState == IF pc = "post" /\ status = "JPEG_SCAN_COMPLETED"
             THEN "kDecProcessMarkers" ELSE global_state
Progress == INSTANCE InputPass WITH
  global_state <- passState, found_eoi_ <- "eoi" \in found

\* The input side keeps the promise DecoderOutput relies on: rows and scans are
\* completed in order, input_iMCU_row is that of the current scan, and a scan
\* that breaks off is never taken for a complete one.
ImplementsInputPass == Progress!Spec

-----------------------------------------------------------------------------
(* The inductive invariant behind ImplementsInputPass.                     *)

\* Where ConsumeInput is, which parser runs and why it stopped.
ControlInv ==
  /\ pc \in {"app", "loop", "markers", "scan", "post", "done", "error"}
  /\ global_state \in States
  /\ pc \in {"loop", "markers", "scan", "post"} =>
       global_state \in {"kDecInHeader", "kDecProcessMarkers", "kDecProcessScan"}
  /\ pc = "markers" => global_state # "kDecProcessScan"
  /\ pc = "scan" => global_state = "kDecProcessScan"
  /\ global_state \in {"kDecHeaderDone", "kDecProcessScan"} => "eoi" \notin found
  /\ pc \in {"loop", "markers", "scan"} => "eoi" \notin found
  /\ pc = "post" =>
       /\ status # "JPEG_REACHED_EOI" => "eoi" \notin found
       /\ status = "JPEG_REACHED_SOS" => global_state # "kDecProcessScan"
       /\ status \in {"JPEG_SCAN_COMPLETED", "JPEG_ROW_COMPLETED"} =>
            global_state = "kDecProcessScan"

\* Where the scan is: until it ends, input_iMCU_row is that of the next MCU.
ScanEnds == pc = "post" /\ status = "JPEG_SCAN_COMPLETED"
IsScanState(s) ==
  s = [row |-> s.row, col |-> s.col, bits_ahead |-> s.bits_ahead,
       last_dc |-> s.last_dc, eobrun |-> s.eobrun,
       restarts_to_go |-> s.restarts_to_go, next_restart |-> s.next_restart]
ScanInv ==
  /\ IsScanState(scan)
  /\ input_scan_number \in Nat
  /\ (global_state = "kDecProcessScan" /\ ~ScanEnds) =>
       /\ scan.row \in 0 .. MCU_rows_in_scan - 1
       /\ scan.col \in 0 .. MCUs_per_row - 1
       /\ input_iMCU_row = scan.row \div mcu_rows_per_iMCU_row_

PassInv == ControlInv /\ ScanInv

-----------------------------------------------------------------------------
(* The inductive invariant behind NoByteLostOrRepeated and HandOffIsExact, in *)
(* numbers of bytes since the start of the input.                          *)

\* The bytes parsed, and where the chunk begins that the source handed out last.
here == IF pc \in {"markers", "scan", "post"} THEN consumed + pos ELSE consumed
chunkStart == delivered - Len(src)

\* The source's buffer is the end of what was delivered, the private buffer has
\* all that was not read.
BytesInv ==
  /\ file \in Files
  /\ delivered \in Nat /\ consumed \in 0 .. delivered
  /\ pos \in Nat /\ here \in consumed .. delivered
  /\ src \in Seq(Byte) /\ Len(src) <= delivered /\ src = Slice(file, chunkStart, delivered)
  /\ input_buffer_ \in Seq(Byte) /\ input_buffer_pos_ \in 0 .. Len(input_buffer_)
  /\ kind = "suspend" => input_buffer_ = <<>>
  /\ NoByteLostOrRepeated

\* Why the decoder could not go on with the bytes from a to b: there is no marker
\* in them, or only the start of the segment of a marker already found.
MarkerFree(f, a, b) ==
  \A i \in a + 1 .. b - 1 : StreamByte(f, i) = 255 => StreamByte(f, i + 1) = 0
SegmentOpen(f, a, b) ==
  b < a + 2 \/ b < a + 256 * StreamByte(f, a + 1) + StreamByte(f, a + 2)
Undecided(a, b) ==
  \/ MarkerFree(file, a, b)
  \/ /\ unread_marker \notin {0, SOI, EOI} /\ global_state # "kDecProcessScan"
     /\ SegmentOpen(file, a, b)

\* A marker is therefore found only when its end is in the last chunk.  A marker
\* that is handed over, or ends the image, is in unread_marker at no other time
\* than when the source's buffer is in use.
Handed == Processors \cup {EOI}
LeftInv ==
  /\ Undecided(here, chunkStart)
  /\ unread_marker \in Handed \ {0} =>
       \/ pc = "post" /\ status \in {"kHandleRestart", "kHandleMarkerProcessor"}
       \/ /\ pc \in {"app", "loop", "markers"} /\ global_state # "kDecProcessScan"
          /\ chunkStart <= here
  /\ global_state = "kDecHeaderDone" => unread_marker = 0
  /\ pc = "app" /\ (global_state = "kDecStart" \/ "eoi" \in found) => chunkStart = consumed
  /\ pc = "post" =>
       /\ status = "kNeedMoreInput" => Undecided(here, delivered)
       /\ status \in {"kHandleRestart", "kHandleMarkerProcessor", "JPEG_REACHED_EOI"} =>
            chunkStart <= here
       /\ status \in {"JPEG_REACHED_SOS", "JPEG_REACHED_EOI"} => unread_marker = 0
       /\ status = "kHandleRestart" => scan.bits_ahead = 0
       /\ status = "kHandleMarkerProcessor" => global_state # "kDecProcessScan"

\* A scan goes on in the middle of a byte only if two more bytes are there, so
\* that an escaped one is there whole.
PaddingInv ==
  /\ scan.bits_ahead \in {0, 1}
  /\ global_state = "kDecProcessScan" /\ scan.bits_ahead = 1 => here + 2 <= delivered

SourceInv == BytesInv /\ (pc \notin {"done", "error"} => LeftInv /\ PaddingInv)

\* What the two properties are proved from: where a restart marker is due, no other
\* marker is found that ends the image or has a processor.  (HandleRestart would
\* leave it unread while the scan goes on.)
RestartsAreRestarts ==
  pc = "post" /\ status = "kHandleRestart"
    => unread_marker = RST(scan.next_restart) \/ unread_marker \notin Handed
=============================================================================
