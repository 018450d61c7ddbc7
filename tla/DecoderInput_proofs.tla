------------------------ MODULE DecoderInput_proofs ------------------------
(***************************************************************************)
(* Proofs about DecoderInput for every file, every way of cutting it into  *)
(* chunks and every geometry of the scan.                                  *)
(***************************************************************************)
EXTENDS DecoderInput, TLAPS, SequenceTheorems, WellFoundedInduction

\* The last MCU of a scan is in the last row and column.
LEMMA LastMCU ==
  ASSUME NEW row \in Nat, NEW col \in Nat, NEW rows \in Nat, NEW per \in Nat,
         row < rows, col < per, row * per + col + 1 = per * rows
  PROVE  row = rows - 1 /\ col = per - 1
OBVIOUS

\* The next row is in the same iMCU row, or begins the next one.
LEMMA NextRow ==
  ASSUME NEW a \in Nat, NEW d \in Nat \ {0}
  PROVE  /\ (a + 1) \div d = IF (a + 1) % d = 0 THEN a \div d + 1 ELSE a \div d
         /\ a \div d \in Nat
<1>1. (a + 1) \div d = IF (a + 1) % d = 0 THEN a \div d + 1 ELSE a \div d
  OBVIOUS
<1>2. QED
  BY <1>1

\* Every row of a scan is in one of total_iMCU_rows, the last in the last one.
LEMMA RowsOfScan ==
  ASSUME NEW row \in 0 .. MCU_rows_in_scan - 1
  PROVE  /\ row \div mcu_rows_per_iMCU_row_ + 1 <= total_iMCU_rows
         /\ row = MCU_rows_in_scan - 1 =>
              row \div mcu_rows_per_iMCU_row_ + 1 = total_iMCU_rows
<1> DEFINE d == mcu_rows_per_iMCU_row_
           n == MCU_rows_in_scan - 1
<1>1. d \in Nat \ {0} /\ n \in Nat /\ row \in Nat /\ row <= n
  BY InputAssumption
<1>2. total_iMCU_rows = (n + d) \div d
  <2>1. MCU_rows_in_scan + d - 1 = n + d
    BY InputAssumption
  <2>2. QED
    BY <2>1 DEF total_iMCU_rows
<1> HIDE DEF d, n
<1>3. (n + d) \div d = n \div d + 1
  BY <1>1
<1>4. row \div d <= n \div d
  BY <1>1
<1>5. row \div d \in Nat /\ n \div d \in Nat
  BY <1>1
<1>6. row \div d + 1 <= total_iMCU_rows /\ (row = n => row \div d + 1 = total_iMCU_rows)
  BY <1>2, <1>3, <1>4, <1>5
<1>7. QED
  BY <1>6 DEF d, n

-----------------------------------------------------------------------------
(***************************************************************************)
(* The input side implements InputPass.                                    *)
(***************************************************************************)
PassStep == Progress!Next \/ UNCHANGED Progress!inputVars

\* A step that the output side cannot see.
LEMMA PassStutter ==
  ASSUME passState' = passState, "eoi" \in found' <=> "eoi" \in found,
         UNCHANGED <<input_scan_number, input_iMCU_row>>
  PROVE  PassStep
<1>1. ("eoi" \in found)' = ("eoi" \in found)
  OBVIOUS
<1>2. QED
  BY <1>1 DEF PassStep, Progress!inputVars

\* FinishScan leaves the place in the scan alone.
LEMMA FinishedScan ==
  ASSUME NEW s, NEW t, IsScanState(s), t = Finished(s)
  PROVE  IsScanState(t) /\ t.row = s.row /\ t.col = s.col
BY DEF IsScanState, Finished

LEMMA PassInit ==
  ASSUME Init
  PROVE  PassInv /\ Progress!Init
<1>1. IsScanState(scan)
  BY DEF Init, NoScan, IsScanState
<1>2. PassInv
  BY <1>1 DEF Init, PassInv, ControlInv, ScanInv, States
<1>3. ("eoi" \in found) = FALSE
  BY DEF Init
<1>4. Progress!Init
  BY <1>3 DEF Progress!Init, Init, passState
<1>5. QED
  BY <1>2, <1>4

LEMMA PassCallConsumeInput ==
  ASSUME PassInv, CallConsumeInput
  PROVE  PassInv' /\ PassStep
<1> USE DEF PassInv, CallConsumeInput, States
<1>0. pc = "app" /\ pc' = "loop" /\ status' = "none"
  OBVIOUS
<1>1. CASE global_state = "kDecStart"
  <2>1. /\ global_state' = "kDecInHeader" /\ found' = {}
        /\ input_scan_number' = 0 /\ input_iMCU_row' = 0
        /\ scan' = [scan EXCEPT !.bits_ahead = 0]
    BY <1>1
  <2>2. IsScanState(scan')
    BY <2>1 DEF ScanInv, IsScanState
  <2>3. PassInv'
    BY <1>0, <2>1, <2>2 DEF ControlInv, ScanInv
  <2>4. passState = "kDecStart" /\ passState' = "kDecInHeader"
    BY <1>0, <1>1, <2>1 DEF passState
  <2>5. ("eoi" \in found)' = FALSE
    BY <2>1
  <2>6. Progress!InitializeImage
    BY <2>1, <2>4, <2>5 DEF Progress!InitializeImage
  <2>7. QED
    BY <2>3, <2>6 DEF PassStep, Progress!Next
<1>2. CASE global_state # "kDecStart"
  <2>1. /\ UNCHANGED <<global_state, found, input_scan_number, input_iMCU_row, scan>>
        /\ "eoi" \notin found
    BY <1>2 DEF header
  <2>2. global_state \in {"kDecInHeader", "kDecProcessMarkers", "kDecProcessScan"}
    BY <1>2 DEF ControlInv, States
  <2>3. PassInv'
    BY <1>0, <2>1, <2>2 DEF ControlInv, ScanInv, ScanEnds
  <2>4. QED
    BY <1>0, <2>1, <2>3, PassStutter DEF passState
<1>3. QED
  BY <1>1, <1>2

\* PrepareForScan begins a scan at its first MCU.
LEMMA PassPrepare ==
  ASSUME PassInv, PrepareForScan, "eoi" \notin found, found' = found,
         pc' = "app", passState \in {"kDecHeaderDone", "kDecProcessMarkers"}
  PROVE  PassInv' /\ PassStep
<1>1. /\ scan' = [NoScan EXCEPT !.restarts_to_go = restart_interval]
      /\ input_scan_number' = input_scan_number + 1 /\ input_iMCU_row' = 0
      /\ global_state' = "kDecProcessScan"
  BY DEF PrepareForScan
<1>2. IsScanState(scan') /\ scan'.row = 0 /\ scan'.col = 0
  BY <1>1 DEF NoScan, IsScanState
<1>3. 0 \div mcu_rows_per_iMCU_row_ = 0
  BY InputAssumption
<1>4. /\ 0 \in 0 .. MCU_rows_in_scan - 1 /\ 0 \in 0 .. MCUs_per_row - 1
      /\ input_scan_number' \in Nat
  BY <1>1, InputAssumption DEF PassInv, ScanInv
<1>5. ScanInv'
  BY <1>1, <1>2, <1>3, <1>4 DEF ScanInv
<1>6. ControlInv'
  BY <1>1 DEF ControlInv, States
<1>7. passState' = "kDecProcessScan"
  BY <1>1 DEF passState
<1>8. ("eoi" \in found)' = ("eoi" \in found)
  OBVIOUS
<1>9. Progress!PrepareForScan
  BY <1>1, <1>7, <1>8 DEF Progress!PrepareForScan
<1>10. QED
  BY <1>5, <1>6, <1>9 DEF PassInv, PassStep, Progress!Next

LEMMA PassStartDecompress ==
  ASSUME PassInv, StartDecompress
  PROVE  PassInv' /\ PassStep
<1>1. /\ pc = "app" /\ pc' = "app" /\ global_state = "kDecHeaderDone"
      /\ found' = found /\ PrepareForScan
  BY DEF StartDecompress, header
<1>2. "eoi" \notin found /\ passState = "kDecHeaderDone"
  BY <1>1 DEF PassInv, ControlInv, passState
<1>3. QED
  BY <1>1, <1>2, PassPrepare

LEMMA PassFinishDecompress ==
  ASSUME PassInv, FinishDecompress
  PROVE  PassInv' /\ PassStep
<1>1. /\ pc = "app" /\ pc' \in {"app", "done"} /\ global_state' = "kDecStart"
      /\ UNCHANGED <<found, status, scan, input_scan_number, input_iMCU_row>>
      /\ "eoi" \in found
  BY DEF FinishDecompress, header, frame
<1>2. PassInv'
  BY <1>1 DEF PassInv, ControlInv, ScanInv, States
<1>3. passState' = "kDecStart" /\ ("eoi" \in found)' = ("eoi" \in found)
  BY <1>1 DEF passState
<1>4. Progress!Abort
  BY <1>1, <1>3 DEF Progress!Abort
<1>5. QED
  BY <1>2, <1>4 DEF PassStep, Progress!Next

\* The steps that change neither the state of the decoder nor that of the scan
\* and do not end the input.
LEMMA PassQuiet ==
  ASSUME PassInv,
         UNCHANGED <<global_state, input_scan_number, input_iMCU_row, found>>,
         IsScanState(scan'), scan'.row = scan.row, scan'.col = scan.col,
         ~ScanEnds, ~ScanEnds',
         pc' \in {"app", "loop", "markers", "scan", "post", "error"},
         pc' \in {"loop", "markers", "scan", "post"} =>
           pc \in {"loop", "markers", "scan", "post"} /\ "eoi" \notin found,
         pc' = "markers" => global_state # "kDecProcessScan",
         pc' = "scan" => global_state = "kDecProcessScan",
         pc' = "post" => status' \notin {"JPEG_REACHED_SOS", "JPEG_SCAN_COMPLETED",
                                         "JPEG_ROW_COMPLETED"}
  PROVE  PassInv' /\ PassStep
<1>1. passState' = passState
  BY DEF passState, ScanEnds
<1>2. ScanInv'
  BY DEF PassInv, ScanInv
<1>3. ControlInv'
  BY DEF PassInv, ControlInv
<1>4. QED
  BY <1>1, <1>2, <1>3, PassStutter DEF PassInv

LEMMA PassQuietSteps ==
  ASSUME PassInv,
         \/ LoadNextChunk \/ BeginParse \/ NeedMoreForMarker \/ MarkerForProcessor
         \/ NeedMoreForSegment \/ MarkerError \/ ScanError
         \/ CallMarkerProcessor \/ FillInputBuffer \/ FillSuspends
  PROVE  PassInv' /\ PassStep
<1> USE DEF header, frame
<1>0. IsScanState(scan)
  BY DEF PassInv, ScanInv
<1>1. CASE LoadNextChunk
  BY <1>0, <1>1, PassQuiet DEF LoadNextChunk, ScanEnds
<1>2. CASE BeginParse
  <2>1. pc = "loop" /\ "eoi" \notin found
    BY <1>2 DEF BeginParse, PassInv, ControlInv
  <2>2. QED
    BY <1>0, <1>2, <2>1, PassQuiet DEF BeginParse, ScanEnds
<1>3. CASE \/ NeedMoreForMarker \/ MarkerForProcessor \/ NeedMoreForSegment
           \/ MarkerError
  <2>1. pc = "markers" /\ "eoi" \notin found
    BY <1>3 DEF NeedMoreForMarker, MarkerForProcessor, NeedMoreForSegment,
                MarkerError, PassInv, ControlInv
  <2>2. QED
    BY <1>0, <1>3, <2>1, PassQuiet
       DEF NeedMoreForMarker, MarkerForProcessor, NeedMoreForSegment,
           MarkerError, Fail, ScanEnds
<1>4. CASE ScanError
  BY <1>0, <1>4, PassQuiet DEF ScanError, Fail, ScanEnds
<1>5. CASE CallMarkerProcessor \/ FillInputBuffer \/ FillSuspends
  <2>1. /\ pc = "post" /\ "eoi" \notin found
        /\ status \in {"kHandleMarkerProcessor", "kNeedMoreInput"}
    BY <1>5 DEF CallMarkerProcessor, FillInputBuffer, FillSuspends, PassInv,
                ControlInv
  <2>2. pc' \in {"app", "loop"}
    BY <1>5 DEF CallMarkerProcessor, FillInputBuffer, FillSuspends
  <2>3. QED
    BY <1>0, <1>5, <2>1, <2>2, PassQuiet
       DEF CallMarkerProcessor, FillInputBuffer, FillSuspends, ScanEnds
<1>6. QED
  BY <1>1, <1>2, <1>3, <1>4, <1>5

\* A restart leaves the place in the scan alone, whatever marker was found.
LEMMA PassRestart ==
  ASSUME PassInv, ScanRestart \/ HandleRestart \/ NeedMoreForMCU
  PROVE  PassInv' /\ PassStep
<1> USE DEF header, frame
<1>0. IsScanState(scan)
  BY DEF PassInv, ScanInv
<1>1. CASE ScanRestart
  <2>1. /\ pc = "scan" /\ pc' = "post" /\ scan' = Finished(scan)
        /\ status' \in {"kNeedMoreInput", "kHandleRestart"}
        /\ UNCHANGED <<global_state, input_scan_number, input_iMCU_row, found>>
    BY <1>1 DEF ScanRestart
  <2>2. IsScanState(scan') /\ scan'.row = scan.row /\ scan'.col = scan.col
    BY <1>0, <2>1 DEF Finished, IsScanState
  <2>3. "eoi" \notin found
    BY <2>1 DEF PassInv, ControlInv
  <2>4. QED
    BY <2>1, <2>2, <2>3, PassQuiet DEF ScanEnds
<1>2. CASE HandleRestart
  <2>1. /\ pc = "post" /\ status = "kHandleRestart" /\ pc' \in {"loop", "app"}
        /\ UNCHANGED <<global_state, input_scan_number, input_iMCU_row, found>>
        /\ scan' = [scan EXCEPT !.next_restart = (@ + 1) % 8,
                                !.restarts_to_go = restart_interval]
    BY <1>2 DEF HandleRestart
  <2>2. IsScanState(scan') /\ scan'.row = scan.row /\ scan'.col = scan.col
    BY <1>0, <2>1 DEF IsScanState
  <2>3. "eoi" \notin found
    BY <2>1 DEF PassInv, ControlInv
  <2>4. QED
    BY <2>1, <2>2, <2>3, PassQuiet DEF ScanEnds
<1>3. CASE NeedMoreForMCU
  <2>1. /\ pc = "scan" /\ pc' = "post" /\ status' = "kNeedMoreInput"
        /\ UNCHANGED <<global_state, input_scan_number, input_iMCU_row, found>>
        /\ RestoreMCUCodingState(scan.bits_ahead)
    BY <1>3 DEF NeedMoreForMCU
  <2>2. IsScanState(scan') /\ scan'.row = scan.row /\ scan'.col = scan.col
    BY <1>0, <2>1 DEF IsScanState, RestoreMCUCodingState
  <2>3. "eoi" \notin found
    BY <2>1 DEF PassInv, ControlInv
  <2>4. QED
    BY <2>1, <2>2, <2>3, PassQuiet DEF ScanEnds
<1>4. QED
  BY <1>1, <1>2, <1>3

\* Of the segments only EOI matters to the output side.
LEMMA PassProcessSegment ==
  ASSUME PassInv, ProcessSegment
  PROVE  PassInv' /\ PassStep
<1>1. /\ pc = "markers" /\ found' = found \cup FlagOf(Marker)
      /\ UNCHANGED <<global_state, input_scan_number, input_iMCU_row, scan>>
  BY DEF ProcessSegment, frame
<1>2. /\ "eoi" \notin found
      /\ global_state \in {"kDecInHeader", "kDecProcessMarkers"}
  BY <1>1 DEF PassInv, ControlInv
<1>3. /\ Marker = SOS => pc' = "post" /\ status' = "JPEG_REACHED_SOS"
      /\ Marker = EOI => pc' = "post" /\ status' = "JPEG_REACHED_EOI"
      /\ Marker \notin {SOS, EOI} => pc' = pc /\ status' = status
  BY DEF ProcessSegment, SOS, EOI
<1>4. "eoi" \in FlagOf(Marker) <=> Marker = EOI
  BY DEF FlagOf, SOI, EOI, SOS, DRI, SOFs
<1>5. PassInv'
  BY <1>1, <1>2, <1>3, <1>4 DEF PassInv, ControlInv, ScanInv, ScanEnds
<1>6. passState = global_state /\ passState' = global_state
  BY <1>1, <1>3 DEF passState
<1>7. CASE Marker # EOI
  <2>1. "eoi" \in found' <=> "eoi" \in found
    BY <1>1, <1>4, <1>7
  <2>2. QED
    BY <1>1, <1>5, <1>6, <2>1, PassStutter
<1>8. CASE Marker = EOI
  <2>1. ("eoi" \in found)' = TRUE
    BY <1>1, <1>4, <1>8
  <2>2. Progress!ReachedEOI
    BY <1>1, <1>2, <1>6, <2>1 DEF Progress!ReachedEOI
  <2>3. QED
    BY <1>5, <2>2 DEF PassStep, Progress!Next
<1>9. QED
  BY <1>7, <1>8

\* A scan that breaks off is ended with the iMCU row it has reached.
LEMMA PassIncompleteScan ==
  ASSUME PassInv, IncompleteScan
  PROVE  PassInv' /\ PassStep
<1>1. /\ pc = "scan" /\ pc' = "post" /\ status' = "JPEG_SCAN_COMPLETED"
      /\ UNCHANGED <<global_state, input_scan_number, input_iMCU_row, found>>
      /\ RestoreMCUCodingState(ReadMCU.bits)
  BY DEF IncompleteScan, header
<1>2. /\ global_state = "kDecProcessScan" /\ "eoi" \notin found
      /\ scan.row \in 0 .. MCU_rows_in_scan - 1
      /\ input_iMCU_row = scan.row \div mcu_rows_per_iMCU_row_
  BY <1>1 DEF PassInv, ControlInv, ScanInv, ScanEnds
<1>3. IsScanState(scan')
  BY <1>1 DEF PassInv, ScanInv, IsScanState, RestoreMCUCodingState
<1>4. PassInv'
  BY <1>1, <1>2, <1>3 DEF PassInv, ControlInv, ScanInv, ScanEnds
<1>5. passState = "kDecProcessScan" /\ passState' = "kDecProcessMarkers"
  BY <1>1, <1>2 DEF passState
<1>6. input_iMCU_row < total_iMCU_rows
  <2>1. input_iMCU_row + 1 <= total_iMCU_rows
    BY <1>2, RowsOfScan
  <2>2. input_iMCU_row \in Nat
    BY <1>2, InputAssumption
  <2>3. total_iMCU_rows \in Int
    BY InputAssumption DEF total_iMCU_rows
  <2>4. QED
    BY <2>1, <2>2, <2>3
<1>7. ("eoi" \in found)' = ("eoi" \in found)
  BY <1>1
<1>8. Progress!IncompleteScan
  BY <1>1, <1>5, <1>6, <1>7 DEF Progress!IncompleteScan
<1>9. QED
  BY <1>4, <1>8 DEF PassStep, Progress!Next

\* An MCU is decoded: within an iMCU row that shows nothing; its last MCU
\* completes the row and the last MCU of the scan the scan.
LEMMA PassDecodeMCU ==
  ASSUME PassInv, DecodeMCU
  PROVE  PassInv' /\ PassStep
<1> DEFINE R == mcu_rows_per_iMCU_row_
<1>1. /\ pc = "scan" /\ global_state = "kDecProcessScan" /\ "eoi" \notin found
      /\ UNCHANGED <<global_state, input_scan_number, found>>
      /\ scan.row \in 0 .. MCU_rows_in_scan - 1 /\ scan.col \in 0 .. MCUs_per_row - 1
      /\ input_iMCU_row = scan.row \div R
      /\ IsScanState(scan)
  BY DEF DecodeMCU, header, PassInv, ControlInv, ScanInv, ScanEnds
<1>2. /\ IsScanState(scan')
      /\ scan'.row = IF LastInRow THEN scan.row + 1 ELSE scan.row
      /\ scan'.col = IF LastInRow THEN 0 ELSE scan.col + 1
  <2> DEFINE next ==
        [scan EXCEPT
           !.last_dc = ReadMCU.block.last_dc, !.eobrun = ReadMCU.block.eobrun,
           !.bits_ahead = ReadMCU.bits,
           !.restarts_to_go = IF @ > 0 THEN @ - 1 ELSE @,
           !.col = IF LastInRow THEN 0 ELSE @ + 1,
           !.row = IF LastInRow THEN @ + 1 ELSE @]
  <2>1. scan' = next \/ scan' = Finished(next)
    BY Zenon DEF DecodeMCU
  <2>2. /\ IsScanState(next)
        /\ next.row = IF LastInRow THEN scan.row + 1 ELSE scan.row
        /\ next.col = IF LastInRow THEN 0 ELSE scan.col + 1
    <3> DEFINE b == ReadMCU.block
               bits == ReadMCU.bits
    <3> HIDE DEF b, bits
    <3>1. next = [scan EXCEPT
                    !.last_dc = b.last_dc, !.eobrun = b.eobrun, !.bits_ahead = bits,
                    !.restarts_to_go = IF @ > 0 THEN @ - 1 ELSE @,
                    !.col = IF LastInRow THEN 0 ELSE @ + 1,
                    !.row = IF LastInRow THEN @ + 1 ELSE @]
      BY DEF b, bits
    <3> HIDE DEF next
    <3>2. QED
      BY <1>1, <3>1 DEF IsScanState
  <2> HIDE DEF next
  <2>3. QED
    BY <2>1, <2>2, FinishedScan
<1>3. input_iMCU_row \in Nat /\ total_iMCU_rows \in Int /\ R \in Nat \ {0}
  BY <1>1, InputAssumption DEF total_iMCU_rows
<1>4. /\ input_iMCU_row + 1 <= total_iMCU_rows
      /\ scan.row = MCU_rows_in_scan - 1 => input_iMCU_row + 1 = total_iMCU_rows
  BY <1>1, RowsOfScan
<1>5. LastInScan <=> LastInRow /\ scan.row = MCU_rows_in_scan - 1
  <2>1. LastInScan => LastInRow /\ scan.row = MCU_rows_in_scan - 1
    BY <1>1, LastMCU, InputAssumption DEF LastInScan, LastInRow, mcu
  <2>2. LastInRow /\ scan.row = MCU_rows_in_scan - 1 => LastInScan
    <3> SUFFICES ASSUME LastInRow, scan.row = MCU_rows_in_scan - 1 PROVE LastInScan
      OBVIOUS
    <3>1. mcu = (MCU_rows_in_scan - 1) * MCUs_per_row + MCUs_per_row
      BY <1>1, InputAssumption DEF mcu, LastInRow
    <3>2. QED
      BY <3>1, InputAssumption DEF LastInScan
  <2>3. QED
    BY <2>1, <2>2
<1>6. CASE ~(LastInScan \/ LastIniMCURow)
  <2>1. pc' = pc /\ status' = status /\ input_iMCU_row' = input_iMCU_row
    BY <1>6 DEF DecodeMCU
  <2>2. /\ scan'.row \in 0 .. MCU_rows_in_scan - 1
        /\ scan'.col \in 0 .. MCUs_per_row - 1
    BY <1>1, <1>2, <1>5, <1>6, InputAssumption DEF LastInRow
  <2>3. input_iMCU_row = scan'.row \div R
    <3>1. CASE LastInRow
      <4>1. (scan.row + 1) % R # 0 /\ scan.row \in Nat
        BY <1>1, <1>6, <3>1, InputAssumption DEF LastIniMCURow
      <4>2. (scan.row + 1) \div R = scan.row \div R
        BY <1>3, <4>1, NextRow
      <4>3. QED
        BY <1>1, <1>2, <3>1, <4>2
    <3>2. CASE ~LastInRow
      BY <1>1, <1>2, <3>2
    <3>3. QED
      BY <3>1, <3>2
  <2>4. PassInv'
    BY <1>1, <1>2, <2>1, <2>2, <2>3 DEF PassInv, ControlInv, ScanInv
  <2>5. passState' = passState
    BY <1>1, <2>1 DEF passState
  <2>6. QED
    BY <1>1, <2>1, <2>4, <2>5, PassStutter
<1>7. CASE LastInScan \/ LastIniMCURow
  <2>1. /\ pc' = "post" /\ input_iMCU_row' = input_iMCU_row + 1
        /\ status' = IF input_iMCU_row + 1 < total_iMCU_rows
                     THEN "JPEG_ROW_COMPLETED" ELSE "JPEG_SCAN_COMPLETED"
    BY <1>7 DEF DecodeMCU
  <2>2. passState = "kDecProcessScan" /\ ("eoi" \in found)' = ("eoi" \in found)
    BY <1>1 DEF passState
  <2>3. CASE input_iMCU_row + 1 < total_iMCU_rows
    <3>1. ~LastInScan /\ LastIniMCURow
      BY <1>3, <1>4, <1>5, <1>7, <2>3
    <3>2. /\ LastInRow /\ scan.row \in Nat /\ scan.row + 1 \in 0 .. MCU_rows_in_scan - 1
          /\ (scan.row + 1) % R = 0
      BY <1>1, <1>5, <3>1, InputAssumption DEF LastIniMCURow
    <3>3. (scan.row + 1) \div R = scan.row \div R + 1
      BY <1>3, <3>2, NextRow
    <3>4. 0 \in 0 .. MCUs_per_row - 1
      BY InputAssumption
    <3>5. ScanInv'
      BY <1>1, <1>2, <2>1, <3>2, <3>3, <3>4 DEF PassInv, ScanInv
    <3>6. PassInv'
      BY <1>1, <2>1, <2>3, <3>5 DEF PassInv, ControlInv
    <3>7. passState' = "kDecProcessScan"
      BY <1>1, <2>1, <2>3 DEF passState
    <3>8. Progress!RowCompleted
      BY <1>1, <2>1, <2>2, <2>3, <3>7 DEF Progress!RowCompleted
    <3>9. QED
      BY <3>6, <3>8 DEF PassStep, Progress!Next
  <2>4. CASE ~(input_iMCU_row + 1 < total_iMCU_rows)
    <3>1. input_iMCU_row' = total_iMCU_rows
      BY <1>3, <1>4, <2>1, <2>4
    <3>2. PassInv'
      BY <1>1, <1>2, <2>1, <2>4 DEF PassInv, ControlInv, ScanInv, ScanEnds
    <3>3. passState' = "kDecProcessMarkers"
      BY <2>1, <2>4 DEF passState
    <3>4. Progress!ScanCompleted
      BY <1>1, <2>1, <2>2, <3>1, <3>3 DEF Progress!ScanCompleted
    <3>5. QED
      BY <3>2, <3>4 DEF PassStep, Progress!Next
  <2>5. QED
    BY <2>3, <2>4
<1>8. QED
  BY <1>6, <1>7

\* ConsumeInput returns: the state it leaves is what the parser reported.
LEMMA PassReturn ==
  ASSUME PassInv, Return
  PROVE  PassInv' /\ PassStep
<1>1. pc = "post" /\ pc' = "app" /\ found' = found /\ status' = status
  BY DEF Return, header
<1>2. CASE status = "JPEG_REACHED_SOS"
  <2>1. /\ "eoi" \notin found
        /\ global_state \in {"kDecInHeader", "kDecProcessMarkers"}
        /\ passState = global_state
    BY <1>1, <1>2 DEF PassInv, ControlInv, passState
  <2>2. CASE global_state = "kDecInHeader"
    <3>1. /\ global_state' = "kDecHeaderDone"
          /\ UNCHANGED <<input_scan_number, input_iMCU_row, scan>>
      BY <1>2, <2>2 DEF Return
    <3>2. PassInv'
      BY <1>1, <2>1, <3>1 DEF PassInv, ControlInv, ScanInv, States
    <3>3. passState' = "kDecHeaderDone" /\ ("eoi" \in found)' = ("eoi" \in found)
      BY <1>1, <3>1 DEF passState
    <3>4. Progress!HeaderDone
      BY <2>1, <2>2, <3>1, <3>3 DEF Progress!HeaderDone
    <3>5. QED
      BY <3>2, <3>4 DEF PassStep, Progress!Next
  <2>3. CASE global_state = "kDecProcessMarkers"
    <3>1. PrepareForScan
      BY <1>2, <2>3 DEF Return
    <3>2. QED
      BY <1>1, <2>1, <2>3, <3>1, PassPrepare
  <2>4. QED
    BY <2>1, <2>2, <2>3
<1>3. CASE status = "JPEG_SCAN_COMPLETED"
  <2>1. /\ global_state' = "kDecProcessMarkers"
        /\ UNCHANGED <<input_scan_number, input_iMCU_row, scan>>
    BY <1>3 DEF Return
  <2>2. PassInv'
    BY <1>1, <2>1 DEF PassInv, ControlInv, ScanInv, States
  <2>3. passState = "kDecProcessMarkers" /\ passState' = "kDecProcessMarkers"
    BY <1>1, <1>3, <2>1 DEF passState
  <2>4. QED
    BY <1>1, <2>1, <2>2, <2>3, PassStutter
<1>4. CASE status \in {"JPEG_ROW_COMPLETED", "JPEG_REACHED_EOI"}
  <2>1. UNCHANGED <<global_state, input_scan_number, input_iMCU_row, scan>>
    BY <1>4 DEF Return
  <2>2. PassInv'
    BY <1>1, <1>4, <2>1 DEF PassInv, ControlInv, ScanInv, ScanEnds
  <2>3. passState' = passState
    BY <1>1, <1>4, <2>1 DEF passState
  <2>4. QED
    BY <1>1, <2>1, <2>2, <2>3, PassStutter
<1>5. QED
  BY <1>2, <1>3, <1>4 DEF Return

LEMMA PassUnchanged ==
  ASSUME PassInv, UNCHANGED vars
  PROVE  PassInv' /\ PassStep
<1> USE DEF vars, header, frame
<1>1. PassInv'
  BY DEF PassInv, ControlInv, ScanInv, ScanEnds
<1>2. passState' = passState
  BY DEF passState
<1>3. QED
  BY <1>1, <1>2, PassStutter

LEMMA PassNext ==
  ASSUME PassInv, [Next]_vars
  PROVE  PassInv' /\ PassStep
BY PassCallConsumeInput, PassStartDecompress, PassFinishDecompress, PassQuietSteps,
   PassRestart, PassProcessSegment, PassIncompleteScan, PassDecodeMCU, PassReturn,
   PassUnchanged DEF Next, Done

\* ConsumeInput keeps the promise DecoderOutput is built on, for every file,
\* intact or not, every source and every geometry: rows and scans are completed
\* in order, input_iMCU_row never runs past the scan, a scan that breaks off
\* counts as ended but never as complete, and EOI comes once and last.
THEOREM InputImplementsInputPass == Spec => ImplementsInputPass
<1>1. Init => PassInv /\ Progress!Init
  BY PassInit
<1>2. PassInv /\ [Next]_vars => PassInv' /\ [Progress!Next]_(Progress!inputVars)
  BY PassNext DEF PassStep
<1>3. QED
  BY <1>1, <1>2, PTL DEF Spec, ImplementsInputPass, Progress!Spec

-----------------------------------------------------------------------------
(***************************************************************************)
(* No byte of the input is lost or read twice: the proof, for every file,  *)
(* every source and every way of cutting the file into chunks.             *)
(***************************************************************************)

LEMMA MinIs ==
  ASSUME NEW S, S \subseteq Nat, S # {}
  PROVE  Min(S) \in S
<1>1. PICK x \in S : \A y \in S : <<y, x>> \notin OpToRel(<, Nat)
  BY WFMin, NatLessThanWellFounded
<1>2. \A y \in S : ~(y < x)
  BY <1>1, Zenon DEF OpToRel
<1>3. \A y \in S : x <= y
  BY <1>2
<1>4. QED
  BY <1>3 DEF Min

LEMMA MinMaxOfTwo ==
  ASSUME NEW a \in Int, NEW b \in Int
  PROVE  /\ Min({a, b}) = IF a <= b THEN a ELSE b
         /\ Max({a, b}) = IF a >= b THEN a ELSE b
BY DEF Min, Max

-----------------------------------------------------------------------------
(* Slices of the input.                                                    *)
LEMMA ByteOfStream ==
  ASSUME NEW f \in Files, NEW i \in Nat \ {0}
  PROVE  StreamByte(f, i) \in Byte
<1>1. f.bytes \in Seq(Byte)
  BY FilesAssumption
<1>2. i <= Len(f.bytes) => f.bytes[i] \in Byte
  BY <1>1
<1>3. QED
  BY <1>2 DEF StreamByte, Byte, EOI

LEMMA SliceIs ==
  ASSUME NEW f \in Files, NEW a \in Nat, NEW b \in Nat, a <= b
  PROVE  /\ Slice(f, a, b) \in Seq(Byte) /\ Len(Slice(f, a, b)) = b - a
         /\ \A i \in 1 .. b - a : Slice(f, a, b)[i] = StreamByte(f, a + i)
<1>1. b - a \in Nat
  OBVIOUS
<1>2. \A i \in 1 .. b - a : StreamByte(f, a + i) \in Byte
  BY ByteOfStream
<1>3. QED
  BY <1>1, <1>2 DEF Slice

LEMMA SliceTail ==
  ASSUME NEW f \in Files, NEW a \in Nat, NEW m \in Nat, NEW b \in Nat, a <= m, m <= b
  PROVE  SubSeq(Slice(f, a, b), m - a + 1, b - a) = Slice(f, m, b)
<1> DEFINE s == Slice(f, a, b)
           t == Slice(f, m, b)
           u == SubSeq(s, m - a + 1, b - a)
<1>1. /\ s \in Seq(Byte) /\ Len(s) = b - a
      /\ \A i \in 1 .. b - a : s[i] = StreamByte(f, a + i)
  BY SliceIs
<1>2. /\ t \in Seq(Byte) /\ Len(t) = b - m
      /\ \A i \in 1 .. b - m : t[i] = StreamByte(f, m + i)
  BY SliceIs
<1> HIDE DEF s, t
<1>3. /\ u \in Seq(Byte) /\ Len(u) = b - m
      /\ \A i \in 1 .. b - m : u[i] = s[m - a + i]
  BY <1>1
<1> HIDE DEF u
<1>4. \A i \in 1 .. b - m : u[i] = t[i]
  BY <1>1, <1>2, <1>3
<1>5. u = t
  BY <1>2, <1>3, <1>4, SeqEqual
<1>6. QED
  BY <1>5 DEF s, t, u

LEMMA SliceJoin ==
  ASSUME NEW f \in Files, NEW a \in Nat, NEW b \in Nat, NEW c \in Nat, a <= b, b <= c
  PROVE  Slice(f, a, b) \o Slice(f, b, c) = Slice(f, a, c)
<1> DEFINE s == Slice(f, a, b)
           t == Slice(f, b, c)
           u == Slice(f, a, c)
           v == s \o t
<1>1. /\ s \in Seq(Byte) /\ Len(s) = b - a
      /\ \A i \in 1 .. b - a : s[i] = StreamByte(f, a + i)
  BY SliceIs
<1>2. /\ t \in Seq(Byte) /\ Len(t) = c - b
      /\ \A i \in 1 .. c - b : t[i] = StreamByte(f, b + i)
  BY SliceIs
<1>3. /\ u \in Seq(Byte) /\ Len(u) = c - a
      /\ \A i \in 1 .. c - a : u[i] = StreamByte(f, a + i)
  BY SliceIs
<1> HIDE DEF s, t, u
<1>4. /\ v \in Seq(Byte) /\ Len(v) = c - a
      /\ \A i \in 1 .. c - a : v[i] = IF i <= b - a THEN s[i] ELSE t[i - (b - a)]
  <2>1. /\ v \in Seq(Byte) /\ Len(v) = Len(s) + Len(t)
        /\ \A i \in 1 .. Len(s) + Len(t) : v[i] = IF i <= Len(s) THEN s[i] ELSE t[i - Len(s)]
    BY <1>1, <1>2, ConcatProperties
  <2> HIDE DEF v
  <2>2. QED
    BY <1>1, <1>2, <2>1
<1> HIDE DEF v
<1>5. \A i \in 1 .. c - a : v[i] = u[i]
  <2> SUFFICES ASSUME NEW i \in 1 .. c - a PROVE v[i] = u[i]
    OBVIOUS
  <2>1. CASE i <= b - a
    BY <1>1, <1>3, <1>4, <2>1
  <2>2. CASE i > b - a
    <3>1. i - (b - a) \in 1 .. c - b /\ b + (i - (b - a)) = a + i
      BY <2>2
    <3>2. QED
      BY <1>2, <1>3, <1>4, <2>2, <3>1
  <2>3. QED
    BY <2>1, <2>2
<1>6. QED
  BY <1>3, <1>4, <1>5, SeqEqual DEF s, t, u, v

\* What is appended to a buffer comes after the part of it that is not yet read.
LEMMA ReadOn ==
  ASSUME NEW s \in Seq(Byte), NEW t \in Seq(Byte), NEW p \in 0 .. Len(s)
  PROVE  SubSeq(s \o t, p + 1, Len(s \o t)) = SubSeq(s, p + 1, Len(s)) \o t
<1> DEFINE u == s \o t
           v == SubSeq(s, p + 1, Len(s))
           x == SubSeq(u, p + 1, Len(u))
           y == v \o t
<1>1. /\ u \in Seq(Byte) /\ Len(u) = Len(s) + Len(t)
      /\ \A i \in 1 .. Len(s) + Len(t) : u[i] = IF i <= Len(s) THEN s[i] ELSE t[i - Len(s)]
  OBVIOUS
<1>2. /\ v \in Seq(Byte) /\ Len(v) = Len(s) - p
      /\ \A i \in 1 .. Len(s) - p : v[i] = s[p + i]
  OBVIOUS
<1> HIDE DEF u, v
<1>3. /\ x \in Seq(Byte) /\ Len(x) = Len(s) + Len(t) - p
      /\ \A i \in 1 .. Len(s) + Len(t) - p : x[i] = u[p + i]
  BY <1>1
<1>4. /\ y \in Seq(Byte) /\ Len(y) = Len(v) + Len(t)
      /\ \A i \in 1 .. Len(v) + Len(t) : y[i] = IF i <= Len(v) THEN v[i] ELSE t[i - Len(v)]
  BY <1>2, ConcatProperties
<1> HIDE DEF x, y
<1>5. Len(x) = Len(y) /\ Len(s) \in Nat /\ Len(t) \in Nat
  BY <1>2, <1>3, <1>4
<1>6. \A i \in 1 .. Len(x) : x[i] = y[i]
  <2> SUFFICES ASSUME NEW i \in 1 .. Len(x) PROVE x[i] = y[i]
    OBVIOUS
  <2>1. x[i] = u[p + i] /\ i \in Int /\ p + i \in 1 .. Len(s) + Len(t)
    BY <1>3, <1>5
  <2>2. CASE p + i <= Len(s)
    <3>1. x[i] = s[p + i]
      BY <1>1, <2>1, <2>2
    <3>2. i <= Len(v) /\ i \in 1 .. Len(v) + Len(t) /\ i \in 1 .. Len(s) - p
      BY <1>2, <1>5, <2>1, <2>2
    <3>3. QED
      BY <1>2, <1>4, <3>1, <3>2
  <2>3. CASE ~(p + i <= Len(s))
    <3>1. x[i] = t[(p + i) - Len(s)]
      BY <1>1, <2>1, <2>3
    <3>2. ~(i <= Len(v)) /\ i \in 1 .. Len(v) + Len(t) /\ i - Len(v) = (p + i) - Len(s)
      BY <1>2, <1>5, <2>1, <2>3
    <3>3. QED
      BY <1>4, <3>1, <3>2
  <2>4. QED
    BY <2>2, <2>3
<1>7. x = y
  BY <1>3, <1>4, <1>5, <1>6, SeqEqual
<1>8. QED
  BY <1>7 DEF u, v, x, y

-----------------------------------------------------------------------------
(* What the parsers see, and what is left of it.                           *)
LEMMA DataIs ==
  ASSUME BytesInv
  PROVE  /\ len \in Nat /\ len = delivered - consumed /\ data \in Seq(Byte)
         /\ \A p \in 0 .. len - 1 : At(p) = StreamByte(file, consumed + p + 1) /\ At(p) \in Byte
<1>1. /\ file \in Files /\ delivered \in Nat /\ consumed \in Nat /\ consumed <= delivered
      /\ data = Slice(file, consumed, delivered)
  BY DEF BytesInv, NoByteLostOrRepeated
<1>2. /\ Slice(file, consumed, delivered) \in Seq(Byte)
      /\ Len(Slice(file, consumed, delivered)) = delivered - consumed
      /\ \A i \in 1 .. delivered - consumed :
           Slice(file, consumed, delivered)[i] = StreamByte(file, consumed + i)
  BY <1>1, SliceIs
<1>3. len = delivered - consumed /\ data \in Seq(Byte)
  BY <1>1, <1>2 DEF len
<1>4. ASSUME NEW p \in 0 .. len - 1
      PROVE  At(p) = StreamByte(file, consumed + p + 1) /\ At(p) \in Byte
  <2>1. p + 1 \in 1 .. delivered - consumed /\ consumed + (p + 1) = consumed + p + 1
    BY <1>1, <1>3
  <2>2. At(p) = StreamByte(file, consumed + (p + 1))
    BY <1>1, <1>2, <2>1 DEF At
  <2>3. consumed + (p + 1) \in Nat \ {0}
    BY <1>1, <2>1
  <2>4. QED
    BY <1>1, <2>1, <2>2, <2>3, ByteOfStream
<1>5. QED
  BY <1>1, <1>3, <1>4

\* The rest of ConsumeInput's iteration, for the buffers.
LEMMA Advanced ==
  ASSUME BytesInv, pc = "post"
  PROVE  /\ BytesLeft \in Nat /\ BytesLeft = delivered - here /\ here = consumed + pos
         /\ AdvancedSrc \in Seq(Byte) /\ Len(AdvancedSrc) <= delivered
         /\ AdvancedSrc = Slice(file, delivered - Len(AdvancedSrc), delivered)
         /\ AdvancedBuffer \in Seq(Byte) /\ AdvancedPos \in 0 .. Len(AdvancedBuffer)
         /\ AdvancedBuffer = <<>> => /\ AdvancedSrc = Slice(file, here, delivered)
                                     /\ delivered - Len(AdvancedSrc) = here
         /\ AdvancedBuffer # <<>> =>
              /\ SubSeq(AdvancedBuffer, AdvancedPos + 1, Len(AdvancedBuffer))
                   = Slice(file, here, delivered)
              /\ delivered - Len(AdvancedSrc) = chunkStart
         /\ chunkStart <= here => AdvancedBuffer = <<>>
<1>1. /\ file \in Files /\ delivered \in Nat /\ consumed \in Nat /\ consumed <= delivered
      /\ here \in Nat /\ consumed <= here /\ here <= delivered /\ here = consumed + pos
      /\ data = Slice(file, consumed, delivered)
  BY DEF BytesInv, NoByteLostOrRepeated, here
<1>2. /\ src \in Seq(Byte) /\ Len(src) \in Nat /\ Len(src) <= delivered
      /\ src = Slice(file, chunkStart, delivered) /\ chunkStart = delivered - Len(src)
      /\ chunkStart \in Nat
      /\ input_buffer_ \in Seq(Byte) /\ input_buffer_pos_ \in 0 .. Len(input_buffer_)
  BY <1>1 DEF BytesInv, chunkStart
<1>3. len = delivered - consumed
  BY DataIs
<1>4. pos = here - consumed
  <2>1. CASE pos \in Int
    BY <1>1, <2>1
  <2>2. pos \in Int
    BY DEF BytesInv
  <2>3. QED
    BY <2>1, <2>2
<1>5. BytesLeft \in Nat /\ BytesLeft = delivered - here
  BY <1>1, <1>3, <1>4 DEF BytesLeft
<1>6. CASE input_buffer_ = <<>> \/ BackToSource
  <2>1. chunkStart <= here
    <3>1. CASE input_buffer_ = <<>>
      <4>1. Len(src) = delivered - consumed
        BY <1>3, <3>1 DEF len, data
      <4>2. QED
        BY <1>1, <1>2, <4>1
    <3>2. CASE BackToSource
      BY <1>1, <1>2, <1>5, <3>2 DEF BackToSource
    <3>3. QED
      BY <1>6, <3>1, <3>2
  <2>2. /\ AdvancedSrc = Last(src, BytesLeft) /\ AdvancedBuffer = <<>> /\ AdvancedPos = 0
    BY <1>6 DEF AdvancedSrc, AdvancedBuffer, AdvancedPos
  <2>3. Last(src, BytesLeft) = SubSeq(src, here - chunkStart + 1, delivered - chunkStart)
    <3> DEFINE n == Len(src)
    <3>0. n \in Nat /\ chunkStart = delivered - n
      BY <1>2
    <3> HIDE DEF n
    <3>1. n - BytesLeft + 1 = here - chunkStart + 1 /\ n = delivered - chunkStart
      BY <1>1, <1>5, <3>0
    <3>2. QED
      BY <3>1 DEF Last, n
  <2>4. AdvancedSrc = Slice(file, here, delivered)
    <3>1. /\ src = Slice(file, chunkStart, delivered) /\ chunkStart \in Nat
          /\ chunkStart <= delivered
      BY <1>1, <1>2, <2>1
    <3>2. SubSeq(Slice(file, chunkStart, delivered), here - chunkStart + 1,
                 delivered - chunkStart) = Slice(file, here, delivered)
      BY <1>1, <2>1, <3>1, SliceTail
    <3>3. QED
      BY <2>2, <2>3, <3>1, <3>2
  <2>5. AdvancedSrc \in Seq(Byte) /\ Len(AdvancedSrc) = delivered - here
    BY <1>1, <2>4, SliceIs
  <2>6. delivered - Len(AdvancedSrc) = here /\ Len(AdvancedSrc) <= delivered
    BY <1>1, <2>5
  <2>7. AdvancedBuffer \in Seq(Byte) /\ AdvancedPos \in 0 .. Len(AdvancedBuffer)
    BY <2>2
  <2>8. QED
    BY <1>1, <1>5, <2>2, <2>4, <2>5, <2>6, <2>7
<1>7. CASE ~(input_buffer_ = <<>> \/ BackToSource)
  <2>1. /\ AdvancedSrc = src /\ AdvancedBuffer = input_buffer_
        /\ AdvancedPos = input_buffer_pos_ + pos
    BY <1>7 DEF AdvancedSrc, AdvancedBuffer, AdvancedPos
  <2>2. ~(chunkStart <= here)
    BY <1>1, <1>2, <1>5, <1>7 DEF BackToSource
  <2> DEFINE d == SubSeq(input_buffer_, input_buffer_pos_ + 1, Len(input_buffer_))
             L == Len(input_buffer_)
             q == input_buffer_pos_
  <2>3. data = d
    BY <1>7 DEF data
  <2>4. Len(d) = L - q /\ L \in Nat /\ q \in 0 .. L
    BY <1>2
  <2>5. L - q = delivered - consumed
    BY <1>3, <2>3, <2>4 DEF len
  <2>6. q + pos \in 0 .. L
    BY <1>1, <1>4, <2>4, <2>5
  <2>7. SubSeq(input_buffer_, q + pos + 1, L) = SubSeq(d, here - consumed + 1, delivered - consumed)
    <3> DEFINE x == SubSeq(input_buffer_, q + pos + 1, L)
               y == SubSeq(d, here - consumed + 1, delivered - consumed)
    <3>1. /\ x \in Seq(Byte) /\ Len(x) = L - (q + pos)
          /\ \A i \in 1 .. L - (q + pos) : x[i] = input_buffer_[q + pos + i]
      BY <1>2, <2>4, <2>6
    <3>2. /\ d \in Seq(Byte) /\ \A i \in 1 .. L - q : d[i] = input_buffer_[q + i]
      BY <1>2, <2>4
    <3> HIDE DEF d, L, q
    <3>3. /\ y \in Seq(Byte) /\ Len(y) = delivered - here
          /\ \A i \in 1 .. delivered - here : y[i] = d[here - consumed + i]
      BY <1>1, <2>4, <2>5, <3>2
    <3>4. Len(x) = delivered - here
      BY <1>1, <1>4, <2>4, <2>5, <3>1
    <3> HIDE DEF x, y
    <3>5. \A i \in 1 .. delivered - here : x[i] = y[i]
      <4> SUFFICES ASSUME NEW i \in 1 .. delivered - here PROVE x[i] = y[i]
        OBVIOUS
      <4>1. here - consumed + i \in 1 .. L - q
        BY <1>1, <2>5
      <4>2. y[i] = input_buffer_[q + (here - consumed + i)]
        BY <3>2, <3>3, <4>1
      <4>3. i \in 1 .. L - (q + pos)
        BY <1>1, <1>4, <2>4, <2>5
      <4>4. x[i] = input_buffer_[q + pos + i]
        BY <3>1, <4>3
      <4>5. q + pos + i = q + (here - consumed + i)
        BY <1>1, <1>4, <2>4
      <4>6. QED
        BY <4>2, <4>4, <4>5
    <3>6. x = y
      BY <3>1, <3>3, <3>4, <3>5, SeqEqual
    <3>7. QED
      BY <3>6 DEF x, y
  <2>8. SubSeq(data, here - consumed + 1, delivered - consumed) = Slice(file, here, delivered)
    BY <1>1, SliceTail
  <2>9. SubSeq(AdvancedBuffer, AdvancedPos + 1, Len(AdvancedBuffer))
          = Slice(file, here, delivered)
    <3>1. AdvancedPos + 1 = q + pos + 1 /\ Len(AdvancedBuffer) = L
      BY <2>1
    <3>2. QED
      BY <2>1, <2>3, <2>7, <2>8, <3>1
  <2>10. AdvancedBuffer # <<>>
    BY <1>7, <2>1
  <2>11. AdvancedPos \in 0 .. Len(AdvancedBuffer) /\ AdvancedBuffer \in Seq(Byte)
    BY <1>2, <2>1, <2>6
  <2>12. AdvancedSrc = Slice(file, delivered - Len(AdvancedSrc), delivered)
    BY <1>2, <2>1
  <2>13. QED
    BY <1>1, <1>2, <1>5, <2>1, <2>2, <2>9, <2>10, <2>11, <2>12
<1>8. QED
  BY <1>6, <1>7

-----------------------------------------------------------------------------
(* The parsers: where they stop.                                           *)
LEMMA SkipToIs ==
  ASSUME BytesInv, NEW p \in 0 .. len, NEW bytes
  PROVE  LET q == SkipTo(p, bytes)
         IN /\ q \in p .. len
            /\ q + 2 <= len => At(q) = 255 /\ At(q + 1) \in bytes
<1> DEFINE hits == {q \in p .. len - 2 : At(q) = 255 /\ At(q + 1) \in bytes}
           r == SkipTo(p, bytes)
<1>1. len \in Nat
  BY DataIs
<1>2. CASE hits # {}
  <2>1. hits \subseteq Nat
    BY <1>1
  <2> HIDE DEF hits
  <2>2. Min(hits) \in hits
    BY <1>2, <2>1, MinIs
  <2>3. r = Min(hits)
    BY <1>2 DEF SkipTo, hits
  <2>4. r \in hits
    BY <2>2, <2>3
  <2>5. QED
    BY <1>1, <2>4 DEF hits
<1>3. CASE hits = {}
  <2>1. r = Max({p, len - 1})
    BY <1>3 DEF SkipTo
  <2>2. r = IF p >= len - 1 THEN p ELSE len - 1
    BY <1>1, <2>1, MinMaxOfTwo
  <2>3. QED
    BY <1>1, <2>2
<1>4. QED
  BY <1>2, <1>3

\* A marker that begins among marker-free bytes ends beyond them.
LEMMA EndsBeyond ==
  ASSUME BytesInv, NEW p \in 0 .. len, NEW q \in p .. len, q + 2 <= len,
         At(q) = 255, At(q + 1) # 0, NEW b \in Int, MarkerFree(file, consumed + p, b)
  PROVE  b < consumed + q + 2
<1>1. /\ len \in Nat /\ consumed \in Nat
      /\ At(q) = StreamByte(file, consumed + q + 1)
      /\ At(q + 1) = StreamByte(file, consumed + (q + 1) + 1)
  BY DataIs DEF BytesInv
<1> DEFINE i == consumed + q + 1
<1>2. /\ i \in Int /\ consumed + (q + 1) + 1 = i + 1 /\ consumed + q + 2 = i + 1
      /\ consumed + p + 1 <= i
  BY <1>1
<1>3. i \notin consumed + p + 1 .. b - 1
  BY <1>1, <1>2 DEF MarkerFree
<1> HIDE DEF i
<1>4. QED
  BY <1>1, <1>2, <1>3

\* The bytes after a marker-free start are marker-free from there on.
LEMMA FreeFrom ==
  ASSUME NEW f, NEW a \in Int, NEW c \in Int, NEW b \in Int, a <= c, MarkerFree(f, a, b)
  PROVE  MarkerFree(f, c, b)
<1>1. \A i \in c + 1 .. b - 1 : i \in a + 1 .. b - 1
  OBVIOUS
<1>2. QED
  BY <1>1 DEF MarkerFree

LEMMA FreeWhenShort ==
  ASSUME NEW f, NEW a \in Int, NEW b \in Int, b <= a + 1
  PROVE  MarkerFree(f, a, b)
<1>1. a + 1 .. b - 1 = {}
  OBVIOUS
<1>2. QED
  BY <1>1 DEF MarkerFree

LEMMA DataEndIs ==
  ASSUME BytesInv, pos \in 0 .. len
  PROVE  /\ DataEnd(pos) \in pos .. len
         /\ DataEnd(pos) + 2 > len => MarkerFree(file, consumed + pos, delivered)
<1>1. /\ len \in Nat /\ consumed \in Nat /\ delivered \in Nat /\ len = delivered - consumed
      /\ \A p \in 0 .. len - 1 : At(p) = StreamByte(file, consumed + p + 1)
  BY DataIs DEF BytesInv
<1>2. CASE MarkersFrom(pos) = {}
  <2>1. DataEnd(pos) = len
    BY <1>2 DEF DataEnd
  <2>2. ASSUME NEW i \in consumed + pos + 1 .. delivered - 1, StreamByte(file, i) = 255
        PROVE  StreamByte(file, i + 1) = 0
    <3> DEFINE q == i - consumed - 1
    <3>1. /\ q \in pos .. len - 2 /\ q + 1 \in 0 .. len - 1 /\ q \in 0 .. len - 1
          /\ consumed + q + 1 = i /\ consumed + (q + 1) + 1 = i + 1
      BY <1>1
    <3> HIDE DEF q
    <3>2. At(q) = StreamByte(file, i) /\ At(q + 1) = StreamByte(file, i + 1)
      <4>1. At(q) = StreamByte(file, consumed + q + 1)
        BY <1>1, <3>1
      <4>2. At(q + 1) = StreamByte(file, consumed + (q + 1) + 1)
        BY <1>1, <3>1
      <4>3. QED
        BY <3>1, <4>1, <4>2
    <3>3. q \notin MarkersFrom(pos)
      BY <1>2
    <3>4. QED
      BY <2>2, <3>1, <3>2, <3>3 DEF MarkersFrom
  <2>3. MarkerFree(file, consumed + pos, delivered)
    BY <2>2 DEF MarkerFree
  <2>4. QED
    BY <1>1, <2>1, <2>3
<1>3. CASE MarkersFrom(pos) # {}
  <2>1. MarkersFrom(pos) \subseteq pos .. len - 2 /\ MarkersFrom(pos) \subseteq Nat
    BY <1>1 DEF MarkersFrom
  <2>2. DataEnd(pos) \in MarkersFrom(pos)
    BY <1>3, <2>1, MinIs DEF DataEnd
  <2>3. DataEnd(pos) \in pos .. len - 2
    BY <2>1, <2>2
  <2>4. QED
    BY <1>1, <2>3
<1>4. QED
  BY <1>2, <1>3

\* An MCU takes bytes before the next marker only.
LEMMA ReadMCUIs ==
  ASSUME BytesInv, pos \in 0 .. len, scan.bits_ahead \in {0, 1}
  PROVE  /\ ReadMCU.pos \in pos .. len /\ ReadMCU.bits \in {0, 1}
         /\ TooClose(ReadMCU.pos) => MarkerFree(file, consumed + pos, delivered)
<1> DEFINE bytes == DataBytes(pos)
           block == DecodeDCTBlock(bytes, scan.bits_ahead)
           k == scan.bits_ahead + block.n
<1>1. block.n \in {0, 1, 3}
  BY DEF DecodeDCTBlock
<1>2. ReadMCU.pos = Min({bytes[k \div 2 + 1], DataEnd(pos)}) /\ ReadMCU.bits = k % 2
  BY DEF ReadMCU
<1>3. \A q \in Int : ByteAfter(q) \in Int /\ ByteAfter(q) > q
  BY DEF ByteAfter
<1>4. len \in Nat /\ pos \in Int
  BY DataIs
<1>5. bytes = <<pos, ByteAfter(pos), ByteAfter(ByteAfter(pos))>>
  BY DEF DataBytes
<1> HIDE DEF bytes, block
<1>6. \A i \in {1, 2, 3} : bytes[i] \in Int /\ bytes[i] >= pos
  <2>1. ByteAfter(pos) \in Int /\ ByteAfter(pos) > pos
    BY <1>3, <1>4
  <2>2. ByteAfter(ByteAfter(pos)) \in Int /\ ByteAfter(ByteAfter(pos)) > pos
    BY <1>3, <1>4, <2>1
  <2>3. QED
    BY <1>4, <1>5, <2>1, <2>2
<1>7. k \in 0 .. 4
  BY <1>1
<1> HIDE DEF k
<1>8. k \div 2 + 1 \in {1, 2, 3} /\ k % 2 \in {0, 1}
  BY <1>7
<1>9. /\ DataEnd(pos) \in pos .. len
      /\ DataEnd(pos) + 2 > len => MarkerFree(file, consumed + pos, delivered)
  BY DataEndIs
<1> DEFINE x == bytes[k \div 2 + 1]
<1>10. x \in Int /\ x >= pos /\ DataEnd(pos) \in Int
  BY <1>4, <1>6, <1>8, <1>9
<1> HIDE DEF x
<1>11. ReadMCU.pos = IF x <= DataEnd(pos) THEN x ELSE DataEnd(pos)
  BY <1>2, <1>10, MinMaxOfTwo DEF x
<1>12. QED
  BY <1>2, <1>4, <1>8, <1>9, <1>10, <1>11 DEF TooClose

-----------------------------------------------------------------------------
(* The steps that leave the source alone.                                  *)
LEMMA BytesKept ==
  ASSUME BytesInv, UNCHANGED <<config, source>>, pos' \in Nat, here' \in consumed .. delivered
  PROVE  BytesInv' /\ chunkStart' = chunkStart
<1> USE DEF config, source
<1>1. chunkStart' = chunkStart
  BY DEF chunkStart
<1>2. NoByteLostOrRepeated'
  BY DEF BytesInv, NoByteLostOrRepeated, data
<1>3. QED
  BY <1>1, <1>2 DEF BytesInv

LEMMA HereIs ==
  ASSUME BytesInv
  PROVE  /\ here \in Nat /\ consumed \in Nat /\ delivered \in Nat /\ chunkStart \in Nat
         /\ consumed <= here /\ here <= delivered /\ pos \in Nat /\ file \in Files
         /\ pc \in {"markers", "scan", "post"} => here = consumed + pos /\ pos \in 0 .. len
         /\ pc \notin {"markers", "scan", "post"} => here = consumed
<1>1. len = delivered - consumed /\ Len(src) \in Nat
  BY DataIs DEF BytesInv
<1>2. QED
  BY <1>1 DEF BytesInv, here, chunkStart

LEMMA MovedOn ==
  ASSUME BytesInv, pc \in {"markers", "scan"}, pc' \in {"markers", "scan", "post"},
         UNCHANGED <<config, source>>, pos' \in pos .. len
  PROVE  /\ BytesInv' /\ chunkStart' = chunkStart
         /\ here' = consumed + pos' /\ here' \in Nat /\ here <= here'
<1>1. /\ here = consumed + pos /\ pos \in Nat /\ consumed \in Nat /\ delivered \in Nat
      /\ len \in Nat
  BY HereIs, DataIs
<1>2. len = delivered - consumed
  BY DataIs
<1>3. pos' \in Nat /\ pos <= pos' /\ pos' <= delivered - consumed
  BY <1>1, <1>2
<1>4. here' = consumed + pos'
  <2>1. here' = consumed' + pos' /\ consumed' = consumed
    BY DEF here, source
  <2>2. QED
    BY <2>1
<1>5. here' \in consumed .. delivered /\ here <= here' /\ here' \in Nat
  <2>1. \A c, d, p, q \in Nat : p <= q /\ q <= d - c =>
                                c + q \in c .. d /\ c + p <= c + q /\ c + q \in Nat
    OBVIOUS
  <2>2. /\ consumed + pos' \in consumed .. delivered
        /\ consumed + pos <= consumed + pos' /\ consumed + pos' \in Nat
    BY <1>1, <1>3, <2>1
  <2>3. QED
    BY <1>1, <1>4, <2>2
<1>6. QED
  BY <1>3, <1>4, <1>5, BytesKept

\* A marker found or taken over ends in the last chunk, unless it waits for its
\* segment.
LEMMA MarkerIs ==
  ASSUME BytesInv, LeftInv, pc = "markers"
  PROVE  /\ MarkerPos \in pos .. len
         /\ HasMarker => SegStart \in pos .. len /\ Marker # 0
         /\ unread_marker = 0 /\ HasMarker => chunkStart < consumed + SegStart
         /\ unread_marker # 0 => SegStart = pos /\ Marker = unread_marker
         /\ ~HasMarker => unread_marker = 0 /\ delivered <= consumed + MarkerPos + 1
<1>1. /\ here = consumed + pos /\ pos \in 0 .. len /\ consumed \in Nat /\ chunkStart \in Nat
      /\ len \in Nat /\ len = delivered - consumed /\ delivered \in Nat
  BY HereIs, DataIs
<1>2. CASE unread_marker # 0
  BY <1>1, <1>2 DEF MarkerPos, HasMarker, SegStart, Marker
<1>3. CASE unread_marker = 0
  <2> DEFINE q == SkipTo(pos, ValidMarkers)
  <2>1. /\ q \in pos .. len
        /\ q + 2 <= len => At(q) = 255 /\ At(q + 1) \in ValidMarkers
    BY <1>1, SkipToIs
  <2>2. MarkerPos = q /\ SegStart = q + 2 /\ Marker = At(q + 1) /\ (HasMarker <=> q + 2 <= len)
    BY <1>3 DEF MarkerPos, SegStart, Marker, HasMarker
  <2> HIDE DEF q
  <2>3. 0 \notin ValidMarkers
    BY DEF ValidMarkers, SOFs, DHT, DRI
  <2>4. MarkerFree(file, consumed + pos, chunkStart)
    BY <1>1, <1>3 DEF LeftInv, Undecided
  <2>5. HasMarker => chunkStart < consumed + q + 2
    BY <1>1, <2>1, <2>2, <2>3, <2>4, EndsBeyond
  <2>6. QED
    BY <1>1, <1>3, <2>1, <2>2, <2>3, <2>5
<1>4. QED
  BY <1>2, <1>3

LEMMA SegmentIs ==
  ASSUME BytesInv, LeftInv, pc = "markers", HasMarker
  PROVE  /\ SegLen \in Nat
         /\ SegmentIncomplete => /\ Marker \notin {SOI, EOI}
                                 /\ SegmentOpen(file, consumed + SegStart, delivered)
         /\ ~SegmentIncomplete =>
              /\ SegStart + SegLen <= len
              /\ HasLength => ~SegmentOpen(file, consumed + SegStart, consumed + SegStart + SegLen)
                              \/ SegLen < 2
<1>1. /\ SegStart \in pos .. len /\ SegStart \in Nat
      /\ consumed \in Nat /\ delivered \in Nat
      /\ len \in Nat /\ len = delivered - consumed
      /\ \A p \in 0 .. len - 1 : At(p) = StreamByte(file, consumed + p + 1) /\ At(p) \in Byte
  BY MarkerIs, HereIs, DataIs
<1> DEFINE n == 256 * StreamByte(file, consumed + SegStart + 1)
                + StreamByte(file, consumed + SegStart + 2)
<1>2. CASE HasLength /\ ~LengthIncomplete
  <2>1. SegStart + 2 <= len
    BY <1>1, <1>2 DEF LengthIncomplete
  <2>2. SegStart \in 0 .. len - 1 /\ SegStart + 1 \in 0 .. len - 1
    BY <1>1, <2>1
  <2>3. /\ At(SegStart) = StreamByte(file, consumed + SegStart + 1) /\ At(SegStart) \in Nat
        /\ At(SegStart + 1) = StreamByte(file, consumed + (SegStart + 1) + 1)
        /\ At(SegStart + 1) \in Nat
    BY <1>1, <2>2 DEF Byte
  <2>4. consumed + (SegStart + 1) + 1 = consumed + SegStart + 2
    BY <1>1
  <2>5. SegLen = n /\ n \in Nat
    BY <1>2, <2>3, <2>4 DEF SegLen
  <2>6. \A b : SegmentOpen(file, consumed + SegStart, b) <=>
                 b < consumed + SegStart + 2 \/ b < consumed + SegStart + n
    <3> DEFINE x == StreamByte(file, consumed + SegStart + 1)
               y == StreamByte(file, consumed + SegStart + 2)
               a == consumed + SegStart
    <3>1. x \in Nat /\ y \in Nat /\ a \in Nat
      BY <1>1, <2>3, <2>4
    <3>2. \A b : SegmentOpen(file, a, b) <=> b < a + 2 \/ b < a + 256 * x + y
      BY DEF SegmentOpen
    <3>3. a + 256 * x + y = a + n
      <4> HIDE DEF x, y, a
      <4>1. a + 256 * x + y = a + (256 * x + y)
        BY <3>1
      <4>2. QED
        BY <4>1 DEF x, y
    <3>4. QED
      BY <3>2, <3>3
  <2> HIDE DEF n
  <2>7. SegmentIncomplete <=> SegStart + n > len
    BY <1>2, <2>5 DEF SegmentIncomplete
  <2>8. QED
    BY <1>1, <1>2, <2>1, <2>5, <2>6, <2>7 DEF HasLength
<1>3. CASE LengthIncomplete
  <2>1. HasLength /\ SegStart + 2 > len /\ SegmentIncomplete /\ SegLen = 0
    BY <1>3 DEF LengthIncomplete, SegmentIncomplete, SegLen
  <2>2. delivered < consumed + SegStart + 2
    BY <1>1, <2>1
  <2>3. SegmentOpen(file, consumed + SegStart, delivered)
    BY <2>2 DEF SegmentOpen
  <2>4. QED
    BY <2>1, <2>3 DEF HasLength
<1>4. CASE ~HasLength
  <2>1. SegLen = 0 /\ ~LengthIncomplete
    BY <1>4 DEF SegLen, LengthIncomplete
  <2>2. ~SegmentIncomplete
    BY <1>1, <2>1 DEF SegmentIncomplete
  <2>3. QED
    BY <1>1, <1>4, <2>1, <2>2
<1>5. QED
  BY <1>2, <1>3, <1>4

\* The steps of the marker parser and BeginParse.
LEMMA BytesBeginParse ==
  ASSUME PassInv, BytesInv, LeftInv, PaddingInv, BeginParse
  PROVE  BytesInv' /\ LeftInv' /\ PaddingInv'
<1> USE DEF header, frame, config
<1>1. /\ pc = "loop" /\ pos' = 0 /\ UNCHANGED <<config, source, global_state, scan>>
      /\ UNCHANGED <<unread_marker, found, file, consumed, delivered>>
      /\ pc' \in {"post", "scan", "markers"}
  BY DEF BeginParse, source
<1>2. here = consumed /\ here' = consumed /\ consumed \in Nat /\ delivered \in Nat
      /\ consumed <= delivered /\ chunkStart \in Nat
  BY <1>1, HereIs DEF here
<1>3. BytesInv' /\ chunkStart' = chunkStart
  BY <1>1, <1>2, BytesKept
<1>4. pc' = "scan" => global_state = "kDecProcessScan"
  BY <1>1 DEF BeginParse
<1>5. pc' = "markers" => global_state # "kDecProcessScan"
  BY <1>1 DEF BeginParse
<1>6. pc' = "post" => /\ status' = "kNeedMoreInput" /\ global_state = "kDecProcessScan"
                      /\ MarkerFree(file, here, delivered)
  <2> SUFFICES ASSUME pc' = "post"
               PROVE  /\ status' = "kNeedMoreInput" /\ global_state = "kDecProcessScan"
                      /\ MarkerFree(file, here, delivered)
    OBVIOUS
  <2>1. status' = "kNeedMoreInput" /\ global_state = "kDecProcessScan" /\ len = 0
    BY DEF BeginParse
  <2>2. delivered = consumed
    BY <1>2, <2>1, DataIs
  <2>3. QED
    BY <1>2, <2>1, <2>2, FreeWhenShort
<1>7. global_state # "kDecHeaderDone"
  BY <1>1 DEF PassInv, ControlInv
<1>8. LeftInv'
  BY <1>1, <1>2, <1>3, <1>4, <1>5, <1>6, <1>7 DEF LeftInv, Undecided
<1>9. PaddingInv'
  BY <1>1, <1>2 DEF PaddingInv
<1>10. QED
  BY <1>3, <1>8, <1>9

LEMMA BytesMarkerSteps ==
  ASSUME PassInv, BytesInv, LeftInv, PaddingInv,
         NeedMoreForMarker \/ MarkerForProcessor \/ NeedMoreForSegment
  PROVE  BytesInv' /\ LeftInv' /\ PaddingInv'
<1> USE DEF header, frame, config
<1>1. /\ pc = "markers" /\ pc' = "post" /\ UNCHANGED <<config, source, global_state, scan>>
      /\ UNCHANGED <<found, file, consumed, delivered>>
  BY DEF NeedMoreForMarker, MarkerForProcessor, NeedMoreForSegment, source
<1>2. global_state # "kDecProcessScan" /\ global_state # "kDecHeaderDone"
  BY <1>1 DEF PassInv, ControlInv
<1>3. /\ here = consumed + pos /\ pos \in 0 .. len /\ consumed \in Nat /\ delivered \in Nat
      /\ len \in Nat /\ len = delivered - consumed /\ chunkStart \in Nat /\ pos \in Nat
  BY <1>1, HereIs, DataIs
<1>4. PaddingInv'
  BY <1>1, <1>2 DEF PaddingInv
<1>5. /\ MarkerPos \in pos .. len
      /\ HasMarker => SegStart \in pos .. len /\ Marker # 0
      /\ unread_marker = 0 /\ HasMarker => chunkStart < consumed + SegStart
      /\ unread_marker # 0 => SegStart = pos /\ Marker = unread_marker
      /\ ~HasMarker => unread_marker = 0 /\ delivered <= consumed + MarkerPos + 1
  BY <1>1, MarkerIs
<1>6. ASSUME pos' \in pos .. len
      PROVE  /\ BytesInv' /\ chunkStart' = chunkStart
             /\ here' = consumed + pos' /\ here' \in Nat /\ here <= here'
  BY <1>1, <1>6, MovedOn
<1>7. CASE NeedMoreForMarker
  <2>1. /\ ~HasMarker /\ status' = "kNeedMoreInput" /\ pos' = MarkerPos
        /\ unread_marker' = unread_marker
    BY <1>7 DEF NeedMoreForMarker
  <2>2. /\ BytesInv' /\ chunkStart' = chunkStart
        /\ here' = consumed + pos' /\ here' \in Nat /\ here <= here'
    BY <1>5, <1>6, <2>1
  <2>3. unread_marker = 0 /\ delivered <= here' + 1
    BY <1>3, <1>5, <2>1, <2>2
  <2>4. MarkerFree(file, here', delivered)
    BY <1>3, <2>2, <2>3, FreeWhenShort
  <2>5. MarkerFree(file, here', chunkStart)
    <3>1. MarkerFree(file, here, chunkStart)
      BY <2>3 DEF LeftInv, Undecided
    <3>2. QED
      BY <1>3, <2>2, <3>1, FreeFrom
  <2>6. LeftInv'
    BY <1>1, <1>2, <2>1, <2>2, <2>3, <2>4, <2>5 DEF LeftInv, Undecided
  <2>7. QED
    BY <1>4, <2>2, <2>6
<1>8. CASE MarkerForProcessor
  <2>1. /\ HasMarker /\ Marker \in Processors /\ status' = "kHandleMarkerProcessor"
        /\ pos' = SegStart /\ unread_marker' = Marker
    BY <1>8 DEF MarkerForProcessor
  <2>2. /\ BytesInv' /\ chunkStart' = chunkStart
        /\ here' = consumed + pos' /\ here' \in Nat /\ here <= here'
    BY <1>5, <1>6, <2>1
  <2>3. chunkStart <= here'
    <3>1. CASE unread_marker = 0
      BY <1>3, <1>5, <2>1, <2>2, <3>1
    <3>2. CASE unread_marker # 0
      <4>1. unread_marker \in Handed \ {0} /\ here' = here
        BY <1>3, <1>5, <2>1, <2>2, <3>2 DEF Handed
      <4>2. QED
        BY <1>1, <4>1 DEF LeftInv
    <3>3. QED
      BY <3>1, <3>2
  <2>4. MarkerFree(file, here', chunkStart)
    BY <1>3, <2>2, <2>3, FreeWhenShort
  <2>5. LeftInv'
    BY <1>1, <1>2, <2>1, <2>2, <2>3, <2>4 DEF LeftInv, Undecided
  <2>6. QED
    BY <1>4, <2>2, <2>5
<1>9. CASE NeedMoreForSegment
  <2>1. /\ HasMarker /\ Marker \notin Processors /\ status' = "kNeedMoreInput"
        /\ pos' = SegStart /\ unread_marker' = Marker /\ SegmentIncomplete
    BY <1>9 DEF NeedMoreForSegment
  <2>2. /\ BytesInv' /\ chunkStart' = chunkStart
        /\ here' = consumed + pos' /\ here' \in Nat /\ here <= here'
    BY <1>5, <1>6, <2>1
  <2>3. Marker \notin {0, SOI, EOI} /\ SegmentOpen(file, here', delivered)
    BY <1>1, <1>5, <2>1, <2>2, SegmentIs
  <2>4. /\ unread_marker' \notin Handed
    BY <2>1, <2>3 DEF Handed
  <2>5. Undecided(here, chunkStart)' /\ Undecided(here, delivered)'
    <3>1. CASE unread_marker = 0
      <4>1. chunkStart <= here'
        BY <1>3, <1>5, <2>1, <2>2, <3>1
      <4>2. MarkerFree(file, here', chunkStart)
        BY <1>3, <2>2, <4>1, FreeWhenShort
      <4>3. QED
        BY <1>1, <1>2, <2>1, <2>2, <2>3, <4>2 DEF Undecided
    <3>2. CASE unread_marker # 0
      <4>1. here' = here /\ unread_marker' = unread_marker
        BY <1>3, <1>5, <2>1, <2>2, <3>2
      <4>2. QED
        BY <1>1, <1>2, <2>1, <2>2, <2>3, <4>1 DEF LeftInv, Undecided
    <3>3. QED
      BY <3>1, <3>2
  <2>6. LeftInv'
    BY <1>1, <1>2, <2>1, <2>2, <2>4, <2>5 DEF LeftInv
  <2>7. QED
    BY <1>4, <2>2, <2>6
<1>10. QED
  BY <1>7, <1>8, <1>9

\* After a segment the bytes up to the last chunk are read, or hold no marker.
LEMMA BytesProcessSegment ==
  ASSUME PassInv, BytesInv, LeftInv, PaddingInv, ProcessSegment
  PROVE  BytesInv' /\ LeftInv' /\ PaddingInv'
<1> USE DEF header, frame, config
<1>1. /\ pc = "markers" /\ UNCHANGED <<config, source, global_state, scan>>
      /\ UNCHANGED <<file, consumed, delivered>>
      /\ HasMarker /\ Marker \notin Processors /\ ~SegmentIncomplete /\ ~BadSegment
      /\ pos' = SegStart + SegLen /\ unread_marker' = 0
  BY DEF ProcessSegment, source
<1>2. global_state # "kDecProcessScan" /\ global_state # "kDecHeaderDone"
  BY <1>1 DEF PassInv, ControlInv
<1>3. /\ Marker = SOS => pc' = "post" /\ status' = "JPEG_REACHED_SOS"
      /\ Marker = EOI => pc' = "post" /\ status' = "JPEG_REACHED_EOI"
      /\ Marker \notin {SOS, EOI} => pc' = "markers"
  BY <1>1 DEF ProcessSegment, SOS, EOI
<1>4. /\ here = consumed + pos /\ pos \in 0 .. len /\ consumed \in Nat /\ delivered \in Nat
      /\ len \in Nat /\ len = delivered - consumed /\ chunkStart \in Nat /\ pos \in Nat
  BY <1>1, HereIs, DataIs
<1>5. /\ SegStart \in pos .. len /\ Marker # 0
      /\ unread_marker = 0 => chunkStart < consumed + SegStart
      /\ unread_marker # 0 => SegStart = pos /\ Marker = unread_marker
  BY <1>1, MarkerIs
<1>6. /\ SegLen \in Nat /\ SegStart + SegLen <= len
      /\ HasLength => ~SegmentOpen(file, consumed + SegStart, consumed + SegStart + SegLen)
                      \/ SegLen < 2
  BY <1>1, SegmentIs
<1>7. /\ BytesInv' /\ chunkStart' = chunkStart
      /\ here' = consumed + pos' /\ here' \in Nat /\ here <= here'
  <2>1. pos' \in pos .. len
    BY <1>1, <1>4, <1>5, <1>6
  <2>2. pc' \in {"markers", "post"}
    BY <1>3
  <2>3. QED
    BY <1>1, <2>1, <2>2, MovedOn
<1>8. PaddingInv'
  BY <1>1, <1>2 DEF PaddingInv
<1>9. HasLength => SegLen >= 2
  <2>1. ~(HasLength /\ SegLen < 2)
    BY <1>1 DEF BadSegment
  <2>2. QED
    BY <1>6, <2>1
<1>10. MarkerFree(file, here', chunkStart)
  <2>1. CASE unread_marker = 0
    <3>1. chunkStart <= here' + 1
      BY <1>1, <1>4, <1>5, <1>6, <1>7, <2>1
    <3>2. QED
      BY <1>4, <1>7, <3>1, FreeWhenShort
  <2>2. CASE MarkerFree(file, here, chunkStart)
    BY <1>4, <1>7, <2>2, FreeFrom
  <2>3. CASE unread_marker \notin {0, SOI, EOI} /\ SegmentOpen(file, here, chunkStart)
    <3>1. SegStart = pos /\ Marker = unread_marker /\ HasLength
      BY <1>5, <2>3 DEF HasLength
    <3>2. here' = here + SegLen /\ SegLen >= 2 /\ here \in Nat
      BY <1>1, <1>4, <1>6, <1>7, <1>9, <3>1
    <3>3. ~SegmentOpen(file, here, here')
      <4>1. consumed + SegStart = here /\ consumed + SegStart + SegLen = here'
        BY <1>1, <1>4, <1>6, <1>7, <3>1
      <4>2. QED
        BY <1>6, <3>1, <3>2, <4>1
    <3>4. chunkStart <= here'
      <4> DEFINE m == 256 * StreamByte(file, here + 1) + StreamByte(file, here + 2)
                 e == here + 256 * StreamByte(file, here + 1) + StreamByte(file, here + 2)
      <4>1. ~(here' < here + 2) /\ ~(here' < e)
        BY <3>3 DEF SegmentOpen
      <4>2. chunkStart < here + 2 \/ chunkStart < e
        BY <2>3 DEF SegmentOpen
      <4>3. e \in Int
        <5>1. file \in Files /\ here + 1 \in Nat \ {0} /\ here + 2 \in Nat \ {0}
          BY <3>2, HereIs
        <5>2. StreamByte(file, here + 1) \in Byte /\ StreamByte(file, here + 2) \in Byte
          BY <5>1, ByteOfStream
        <5>3. StreamByte(file, here + 1) \in Int /\ StreamByte(file, here + 2) \in Int
          BY <5>2 DEF Byte
        <5>4. \A x, y, z \in Int : x + 256 * y + z \in Int
          OBVIOUS
        <5>5. QED
          BY <3>2, <5>3, <5>4
      <4> HIDE DEF e
      <4>4. QED
        BY <1>4, <1>7, <3>2, <4>1, <4>2, <4>3
    <3>5. QED
      BY <1>4, <1>7, <3>4, FreeWhenShort
  <2>4. QED
    BY <2>1, <2>2, <2>3 DEF LeftInv, Undecided
<1>11. Marker = EOI => chunkStart <= here'
  <2> SUFFICES ASSUME Marker = EOI PROVE chunkStart <= here'
    OBVIOUS
  <2>1. CASE unread_marker = 0
    BY <1>1, <1>4, <1>5, <1>6, <1>7, <2>1
  <2>2. CASE unread_marker # 0
    <3>1. unread_marker \in Handed \ {0}
      BY <1>5, <2>2 DEF Handed
    <3>2. chunkStart <= here
      BY <1>1, <3>1 DEF LeftInv
    <3>3. QED
      BY <1>4, <1>7, <3>2
  <2>3. QED
    BY <2>1, <2>2
<1>12. LeftInv'
  BY <1>1, <1>2, <1>3, <1>7, <1>10, <1>11 DEF LeftInv, Undecided
<1>13. QED
  BY <1>7, <1>8, <1>12

\* An error leaves the source as it is.
LEMMA BytesErrors ==
  ASSUME BytesInv, MarkerError \/ ScanError
  PROVE  BytesInv' /\ pc' = "error"
<1>1. /\ pc' = "error" /\ UNCHANGED <<config, source, pos>>
  BY DEF MarkerError, ScanError, Fail
<1>2. here' = consumed /\ consumed \in Nat /\ delivered \in Nat /\ consumed <= delivered
      /\ pos' \in Nat
  BY <1>1, HereIs DEF here, source
<1>3. QED
  BY <1>1, <1>2, BytesKept

-----------------------------------------------------------------------------
(* The scan decoder.                                                       *)

\* FinishScan stays within the data.
LEMMA PaddingIs ==
  ASSUME BytesInv, NEW p \in 0 .. len, NEW bits \in {0, 1}, bits = 1 => p + 2 <= len
  PROVE  AfterPadding(p, bits) \in p .. len
<1>1. len \in Nat
  BY DataIs
<1>2. QED
  BY <1>1 DEF AfterPadding

\* What holds while a scan is being read.
LEMMA InScan ==
  ASSUME PassInv, BytesInv, LeftInv, PaddingInv, pc = "scan"
  PROVE  /\ global_state = "kDecProcessScan" /\ scan.bits_ahead \in {0, 1}
         /\ scan.bits_ahead = 1 => pos + 2 <= len
         /\ MarkerFree(file, here, chunkStart) /\ unread_marker \notin Handed \ {0}
         /\ here = consumed + pos /\ pos \in 0 .. len /\ consumed \in Nat /\ delivered \in Nat
         /\ len \in Nat /\ len = delivered - consumed /\ chunkStart \in Nat /\ pos \in Nat
         /\ IsScanState(scan) /\ file \in Files
<1>1. global_state = "kDecProcessScan" /\ IsScanState(scan)
  BY DEF PassInv, ControlInv, ScanInv
<1>2. /\ here = consumed + pos /\ pos \in 0 .. len /\ consumed \in Nat /\ delivered \in Nat
      /\ len \in Nat /\ len = delivered - consumed /\ chunkStart \in Nat /\ pos \in Nat
      /\ file \in Files
  BY HereIs, DataIs
<1>3. scan.bits_ahead \in {0, 1} /\ (scan.bits_ahead = 1 => pos + 2 <= len)
  BY <1>1, <1>2 DEF PaddingInv
<1>4. MarkerFree(file, here, chunkStart) /\ unread_marker \notin Handed \ {0}
  BY <1>1 DEF LeftInv, Undecided
<1>5. QED
  BY <1>1, <1>2, <1>3, <1>4

LEMMA BytesScanRestart ==
  ASSUME PassInv, BytesInv, LeftInv, PaddingInv, ScanRestart
  PROVE  BytesInv' /\ LeftInv' /\ PaddingInv'
<1> DEFINE a == AfterPadding(pos, scan.bits_ahead)
           p == SkipTo(a, RestartStops)
<1>1. /\ pc = "scan" /\ pc' = "post" /\ UNCHANGED <<config, source, global_state>>
      /\ UNCHANGED <<file, consumed, delivered, found>> /\ scan' = Finished(scan)
  BY DEF ScanRestart, config, source
<1>2. /\ p + 2 > len => /\ pos' = p /\ status' = "kNeedMoreInput"
                        /\ unread_marker' = unread_marker
      /\ ~(p + 2 > len) => /\ pos' = p + 2 /\ status' = "kHandleRestart"
                           /\ unread_marker' = At(p + 1)
  BY DEF ScanRestart
<1>3. /\ global_state = "kDecProcessScan" /\ scan.bits_ahead \in {0, 1}
      /\ scan.bits_ahead = 1 => pos + 2 <= len
      /\ MarkerFree(file, here, chunkStart) /\ unread_marker \notin Handed \ {0}
      /\ here = consumed + pos /\ pos \in 0 .. len /\ consumed \in Nat /\ delivered \in Nat
      /\ len \in Nat /\ len = delivered - consumed /\ chunkStart \in Nat /\ pos \in Nat
      /\ IsScanState(scan) /\ file \in Files
  BY <1>1, InScan
<1>4. scan'.bits_ahead = 0
  BY <1>1, <1>3 DEF IsScanState, Finished
<1>5. PaddingInv'
  BY <1>4 DEF PaddingInv
<1>6. a \in pos .. len /\ a \in 0 .. len
  BY <1>3, PaddingIs
<1> HIDE DEF a
<1>7. /\ p \in a .. len
      /\ p + 2 <= len => At(p) = 255 /\ At(p + 1) \in RestartStops
  BY <1>6, SkipToIs
<1> HIDE DEF p
<1>8. pos' \in pos .. len
  BY <1>2, <1>3, <1>6, <1>7
<1>9. /\ BytesInv' /\ chunkStart' = chunkStart
      /\ here' = consumed + pos' /\ here' \in Nat /\ here <= here'
  BY <1>1, <1>8, MovedOn
<1>10. CASE p + 2 > len
  <2>1. pos' = p /\ status' = "kNeedMoreInput" /\ unread_marker' = unread_marker
    BY <1>2, <1>10
  <2>2. MarkerFree(file, here', delivered)
    <3>1. delivered <= here' + 1
      BY <1>3, <1>6, <1>7, <1>9, <1>10, <2>1
    <3>2. QED
      BY <1>3, <1>9, <3>1, FreeWhenShort
  <2>3. MarkerFree(file, here', chunkStart)
    BY <1>3, <1>9, FreeFrom
  <2>4. LeftInv'
    BY <1>1, <1>3, <1>9, <2>1, <2>2, <2>3 DEF LeftInv, Undecided
  <2>5. QED
    BY <1>5, <1>9, <2>4
<1>11. CASE ~(p + 2 > len)
  <2>1. /\ pos' = p + 2 /\ status' = "kHandleRestart" /\ p + 2 <= len
        /\ At(p) = 255 /\ At(p + 1) # 0
    BY <1>2, <1>3, <1>6, <1>7, <1>11 DEF RestartStops
  <2>2. MarkerFree(file, consumed + a, chunkStart)
    <3>1. here \in Int /\ here <= consumed + a /\ consumed + a \in Int
      BY <1>3, <1>6
    <3>2. QED
      BY <1>3, <3>1, FreeFrom
  <2>3. chunkStart < consumed + p + 2
    BY <1>3, <1>6, <1>7, <2>1, <2>2, EndsBeyond
  <2>4. chunkStart <= here'
    BY <1>3, <1>6, <1>7, <1>9, <2>1, <2>3
  <2>5. MarkerFree(file, here', chunkStart)
    BY <1>3, <1>9, <2>4, FreeWhenShort
  <2>6. LeftInv'
    BY <1>1, <1>3, <1>4, <1>9, <2>1, <2>4, <2>5 DEF LeftInv, Undecided
  <2>7. QED
    BY <1>5, <1>9, <2>6
<1>12. QED
  BY <1>10, <1>11

\* The steps that read an MCU, or undo it.
LEMMA BytesReadMCU ==
  ASSUME PassInv, BytesInv, LeftInv, PaddingInv,
         NeedMoreForMCU \/ IncompleteScan \/ DecodeMCU
  PROVE  BytesInv' /\ LeftInv' /\ PaddingInv'
<1> DEFINE r == ReadMCU
<1>1. /\ pc = "scan" /\ UNCHANGED <<config, source, global_state>>
      /\ UNCHANGED <<file, consumed, delivered, found, unread_marker>>
  BY DEF NeedMoreForMCU, IncompleteScan, DecodeMCU, config, source, header
<1>2. /\ global_state = "kDecProcessScan" /\ scan.bits_ahead \in {0, 1}
      /\ scan.bits_ahead = 1 => pos + 2 <= len
      /\ MarkerFree(file, here, chunkStart) /\ unread_marker \notin Handed \ {0}
      /\ here = consumed + pos /\ pos \in 0 .. len /\ consumed \in Nat /\ delivered \in Nat
      /\ len \in Nat /\ len = delivered - consumed /\ chunkStart \in Nat /\ pos \in Nat
      /\ IsScanState(scan) /\ file \in Files
  BY <1>1, InScan
<1>3. /\ r.pos \in pos .. len /\ r.bits \in {0, 1}
      /\ TooClose(r.pos) => MarkerFree(file, consumed + pos, delivered)
  BY <1>2, ReadMCUIs
<1> HIDE DEF r
<1>4. /\ pos' \in pos .. len /\ scan'.bits_ahead \in {0, 1}
      /\ scan'.bits_ahead = 1 => pos' + 2 <= len
      /\ \/ pc' = "scan"
         \/ pc' = "post" /\ status' \in {"JPEG_ROW_COMPLETED", "JPEG_SCAN_COMPLETED"}
         \/ /\ pc' = "post" /\ status' = "kNeedMoreInput" /\ pos' = pos
            /\ MarkerFree(file, consumed + pos, delivered)
  <2>1. CASE NeedMoreForMCU
    <3>1. /\ pos' = pos /\ pc' = "post" /\ status' = "kNeedMoreInput"
          /\ TooClose(r.pos) /\ RestoreMCUCodingState(scan.bits_ahead)
      BY <2>1 DEF NeedMoreForMCU, r
    <3>2. scan'.bits_ahead = scan.bits_ahead
      BY <1>2, <3>1 DEF RestoreMCUCodingState, IsScanState
    <3>3. QED
      BY <1>2, <1>3, <3>1, <3>2
  <2>2. CASE IncompleteScan
    <3>1. /\ pos' = r.pos /\ pc' = "post" /\ status' = "JPEG_SCAN_COMPLETED"
          /\ ~TooClose(r.pos) /\ RestoreMCUCodingState(r.bits)
      BY <2>2 DEF IncompleteScan, r
    <3>2. scan'.bits_ahead = r.bits
      BY <1>2, <3>1 DEF RestoreMCUCodingState, IsScanState
    <3>3. pos' + 2 <= len
      BY <1>2, <1>3, <3>1 DEF TooClose
    <3>4. QED
      BY <1>2, <1>3, <3>1, <3>2, <3>3
  <2>3. CASE DecodeMCU
    <3> DEFINE next ==
          [scan EXCEPT
             !.last_dc = r.block.last_dc, !.eobrun = r.block.eobrun,
             !.bits_ahead = r.bits,
             !.restarts_to_go = IF @ > 0 THEN @ - 1 ELSE @,
             !.col = IF LastInRow THEN 0 ELSE @ + 1,
             !.row = IF LastInRow THEN @ + 1 ELSE @]
    <3>1. /\ ~TooClose(r.pos)
          /\ \/ scan' = Finished(next) /\ pos' = AfterPadding(r.pos, r.bits)
             \/ scan' = next /\ pos' = r.pos
      BY <2>3, Zenon DEF DecodeMCU, DecodedMCU, r
    <3>2. r.pos + 2 <= len /\ r.pos \in 0 .. len
      BY <1>2, <1>3, <3>1 DEF TooClose
    <3>3. next.bits_ahead = r.bits /\ IsScanState(next)
      <4> DEFINE b == r.block
      <4> HIDE DEF b
      <4>1. next = [scan EXCEPT
                      !.last_dc = b.last_dc, !.eobrun = b.eobrun, !.bits_ahead = r.bits,
                      !.restarts_to_go = IF @ > 0 THEN @ - 1 ELSE @,
                      !.col = IF LastInRow THEN 0 ELSE @ + 1,
                      !.row = IF LastInRow THEN @ + 1 ELSE @]
        BY DEF b
      <4> HIDE DEF next
      <4>2. QED
        BY <1>2, <4>1 DEF IsScanState
    <3> HIDE DEF next
    <3>4. AfterPadding(r.pos, r.bits) \in r.pos .. len
      BY <1>3, <3>2, PaddingIs
    <3>5. Finished(next).bits_ahead = 0
      BY <3>3 DEF Finished, IsScanState
    <3>6. /\ pos' \in pos .. len /\ scan'.bits_ahead \in {0, 1}
          /\ scan'.bits_ahead = 1 => pos' + 2 <= len
      <4>1. CASE scan' = Finished(next) /\ pos' = AfterPadding(r.pos, r.bits)
        BY <1>2, <1>3, <3>4, <3>5, <4>1
      <4>2. CASE scan' = next /\ pos' = r.pos
        BY <1>2, <1>3, <3>2, <3>3, <4>2
      <4>3. QED
        BY <3>1, <4>1, <4>2
    <3>7. \/ pc' = "scan"
          \/ pc' = "post" /\ status' \in {"JPEG_ROW_COMPLETED", "JPEG_SCAN_COMPLETED"}
      BY <1>1, <2>3 DEF DecodeMCU
    <3>8. QED
      BY <3>6, <3>7
  <2>4. QED
    BY <2>1, <2>2, <2>3
<1>5. pc' \in {"scan", "post"}
  BY <1>4
<1>6. /\ BytesInv' /\ chunkStart' = chunkStart
      /\ here' = consumed + pos' /\ here' \in Nat /\ here <= here'
  BY <1>1, <1>4, <1>5, MovedOn
<1>7. MarkerFree(file, here', chunkStart)
  BY <1>2, <1>6, FreeFrom
<1>8. PaddingInv'
  <2>1. scan'.bits_ahead = 1 => here' + 2 <= delivered
    <3>1. pos' \in Nat
      BY <1>2, <1>4
    <3>2. \A c, d, p \in Nat : p + 2 <= d - c => (c + p) + 2 <= d
      OBVIOUS
    <3>3. pos' + 2 <= delivered - consumed => (consumed + pos') + 2 <= delivered
      BY <1>2, <3>1, <3>2
    <3>4. QED
      BY <1>2, <1>4, <1>6, <3>3
  <2>2. QED
    BY <1>1, <1>4, <2>1 DEF PaddingInv
<1>9. status' = "kNeedMoreInput" /\ pc' = "post" => MarkerFree(file, here', delivered)
  BY <1>4, <1>6
<1>10. pc' = "post" => status' \in {"JPEG_ROW_COMPLETED", "JPEG_SCAN_COMPLETED", "kNeedMoreInput"}
  BY <1>4
<1>11. LeftInv'
  BY <1>1, <1>2, <1>5, <1>6, <1>7, <1>9, <1>10 DEF LeftInv, Undecided
<1>12. QED
  BY <1>6, <1>8, <1>11

-----------------------------------------------------------------------------
(* The steps that change the source.                                       *)

\* Where only the source's buffer is in use, it holds what was not read.
LEMMA SourceOnly ==
  ASSUME file' = file, file \in Files,
         consumed' \in Nat, delivered' \in Nat, consumed' <= delivered',
         src' = Slice(file, consumed', delivered'),
         input_buffer_' = <<>>, input_buffer_pos_' = 0,
         pos' \in Nat, pc' \notin {"markers", "scan", "post"}
  PROVE  BytesInv' /\ chunkStart' = consumed' /\ here' = consumed'
<1>1. src' \in Seq(Byte) /\ Len(src') = delivered' - consumed'
  BY SliceIs
<1>2. chunkStart' = delivered' - Len(src') /\ here' = consumed'
  BY DEF chunkStart, here
<1>3. chunkStart' = consumed' /\ Len(src') <= delivered'
  <2>1. \A c, d \in Nat : d - (d - c) = c /\ d - c <= d
    OBVIOUS
  <2>2. delivered' - (delivered' - consumed') = consumed' /\ delivered' - consumed' <= delivered'
    BY <2>1
  <2>3. QED
    BY <1>1, <1>2, <2>2
<1>4. NoByteLostOrRepeated'
  BY DEF NoByteLostOrRepeated, data
<1>5. input_buffer_' \in Seq(Byte) /\ input_buffer_pos_' \in 0 .. Len(input_buffer_')
  OBVIOUS
<1>6. consumed' \in 0 .. delivered' /\ here' \in consumed' .. delivered'
  BY <1>2
<1>7. src' = Slice(file', chunkStart', delivered')
  BY <1>3
<1>8. QED
  BY <1>1, <1>3, <1>4, <1>5, <1>6, <1>7, <1>2 DEF BytesInv

\* A source delivers at least one byte.
LEMMA ChunkEndIs ==
  ASSUME BytesInv, NEW n \in ChunkSizes
  PROVE  ChunkEnd(n) \in Nat /\ delivered < ChunkEnd(n)
<1>1. n \in Nat \ {0} /\ delivered \in Nat /\ Len(file.bytes) \in Nat
  <2>1. file.bytes \in Seq(Byte)
    BY FilesAssumption DEF BytesInv
  <2>2. QED
    BY <2>1, InputAssumption DEF BytesInv
<1> DEFINE L == Len(file.bytes)
<1> HIDE DEF L
<1>2. Min({delivered + n, L}) = IF delivered + n <= L THEN delivered + n ELSE L
  BY <1>1, MinMaxOfTwo DEF L
<1>3. ChunkEnd(n) = IF delivered < L THEN Min({delivered + n, L}) ELSE delivered + 2
  BY DEF ChunkEnd, L
<1>4. QED
  BY <1>1, <1>2, <1>3 DEF L

LEMMA BytesInit ==
  ASSUME Init
  PROVE  BytesInv /\ LeftInv /\ PaddingInv
<1>1. file \in Files /\ Len(file.bytes) \in Nat
  <2>1. file \in Files
    BY DEF Init
  <2>2. QED
    BY <2>1, FilesAssumption
<1>2. /\ consumed = 0 /\ delivered \in Nat /\ src = Slice(file, 0, delivered)
      /\ input_buffer_ = <<>> /\ input_buffer_pos_ = 0 /\ pos = 0 /\ pc = "app"
      /\ unread_marker = 0 /\ global_state = "kDecStart" /\ scan.bits_ahead = 0
  BY <1>1 DEF Init, NoScan
<1>3. src \in Seq(Byte) /\ Len(src) = delivered
  BY <1>1, <1>2, SliceIs
<1>4. chunkStart = 0 /\ here = 0
  BY <1>2, <1>3 DEF chunkStart, here
<1>5. NoByteLostOrRepeated
  BY <1>2 DEF NoByteLostOrRepeated, data
<1>6. BytesInv
  BY <1>1, <1>2, <1>3, <1>4, <1>5 DEF BytesInv
<1>7. MarkerFree(file, here, chunkStart)
  BY <1>4, FreeWhenShort
<1>8. LeftInv
  BY <1>2, <1>4, <1>7 DEF LeftInv, Undecided
<1>9. QED
  BY <1>2, <1>6, <1>8 DEF PaddingInv

\* At the start of an image only the source's buffer is in use; later calls go on
\* where the last one stopped.
LEMMA BytesCallConsumeInput ==
  ASSUME PassInv, BytesInv, LeftInv, PaddingInv, CallConsumeInput
  PROVE  BytesInv' /\ LeftInv' /\ PaddingInv'
<1> USE DEF header, config, source
<1>1. /\ pc = "app" /\ pc' = "loop" /\ UNCHANGED <<file, kind, pos, src, consumed, delivered>>
      /\ global_state # "kDecHeaderDone"
  BY DEF CallConsumeInput
<1>2. /\ here = consumed /\ consumed \in Nat /\ delivered \in Nat /\ chunkStart \in Nat
      /\ pos \in Nat /\ file \in Files /\ consumed <= delivered
  BY <1>1, HereIs
<1>3. CASE global_state = "kDecStart"
  <2>1. /\ global_state' = "kDecInHeader" /\ input_buffer_' = <<>> /\ input_buffer_pos_' = 0
        /\ unread_marker' = 0 /\ scan' = [scan EXCEPT !.bits_ahead = 0]
    BY <1>3 DEF CallConsumeInput
  <2>2. src = Slice(file, consumed, delivered)
    BY <1>1, <1>3 DEF LeftInv, BytesInv
  <2>3. BytesInv' /\ chunkStart' = consumed' /\ here' = consumed'
    BY <1>1, <1>2, <2>1, <2>2, SourceOnly
  <2>4. MarkerFree(file, consumed, consumed)
    BY <1>2, FreeWhenShort
  <2>5. LeftInv'
    BY <1>1, <2>1, <2>3, <2>4 DEF LeftInv, Undecided
  <2>6. scan'.bits_ahead = 0
    BY <2>1 DEF PassInv, ScanInv, IsScanState
  <2>7. QED
    BY <2>3, <2>5, <2>6 DEF PaddingInv
<1>4. CASE global_state # "kDecStart"
  <2>1. UNCHANGED <<global_state, source, unread_marker, found, scan>>
    BY <1>4 DEF CallConsumeInput
  <2>2. here' = consumed
    BY <1>1 DEF here
  <2>3. BytesInv' /\ chunkStart' = chunkStart
    BY <1>1, <1>2, <2>1, <2>2, BytesKept
  <2>4. LeftInv'
    BY <1>1, <1>2, <2>1, <2>2, <2>3 DEF LeftInv, Undecided
  <2>5. QED
    BY <1>1, <1>2, <2>1, <2>2, <2>3, <2>4 DEF PaddingInv
<1>5. QED
  BY <1>3, <1>4

\* The calls that do not read.
LEMMA BytesOtherCalls ==
  ASSUME PassInv, BytesInv, LeftInv, PaddingInv, StartDecompress \/ FinishDecompress
  PROVE  BytesInv' /\ (pc' # "done" => LeftInv' /\ PaddingInv')
<1> USE DEF header, config, source, frame
<1>1. /\ pc = "app" /\ pc' \in {"app", "done"} /\ UNCHANGED <<config, source>>
      /\ UNCHANGED <<file, consumed, delivered, pos, unread_marker, found>>
  BY DEF StartDecompress, FinishDecompress
<1>2. /\ here = consumed /\ consumed \in Nat /\ delivered \in Nat /\ chunkStart \in Nat
      /\ pos \in Nat /\ file \in Files /\ consumed <= delivered
  BY <1>1, HereIs
<1>3. here' = consumed
  BY <1>1 DEF here
<1>4. BytesInv' /\ chunkStart' = chunkStart
  BY <1>1, <1>2, <1>3, BytesKept
<1>5. CASE StartDecompress
  <2>1. /\ global_state = "kDecHeaderDone" /\ pc' = "app" /\ global_state' = "kDecProcessScan"
        /\ scan' = [NoScan EXCEPT !.restarts_to_go = restart_interval]
    BY <1>1, <1>5 DEF StartDecompress, PrepareForScan
  <2>2. scan'.bits_ahead = 0
    BY <2>1 DEF NoScan
  <2>3. unread_marker = 0 /\ MarkerFree(file, consumed, chunkStart)
    BY <1>2, <2>1 DEF LeftInv, Undecided
  <2>4. LeftInv'
    BY <1>1, <1>3, <1>4, <2>1, <2>3 DEF LeftInv, Undecided
  <2>5. QED
    BY <1>4, <2>2, <2>4 DEF PaddingInv
<1>6. CASE FinishDecompress
  <2>1. global_state' = "kDecStart" /\ "eoi" \in found /\ scan' = scan
    BY <1>6 DEF FinishDecompress
  <2>2. chunkStart = consumed
    BY <1>1, <2>1 DEF LeftInv
  <2>3. MarkerFree(file, consumed, consumed)
    BY <1>2, FreeWhenShort
  <2>4. pc' = "app" => LeftInv'
    BY <1>1, <1>2, <1>3, <1>4, <2>1, <2>2, <2>3 DEF LeftInv, Undecided
  <2>5. PaddingInv'
    BY <2>1 DEF PaddingInv
  <2>6. QED
    BY <1>1, <1>4, <2>4, <2>5
<1>7. QED
  BY <1>5, <1>6

\* The suspending application appends to what was not read.
LEMMA BytesLoadNextChunk ==
  ASSUME PassInv, BytesInv, LeftInv, PaddingInv, LoadNextChunk
  PROVE  BytesInv' /\ LeftInv' /\ PaddingInv'
<1> USE DEF header, config, frame
<1>1. /\ pc = "app" /\ pc' = "app" /\ kind = "suspend"
      /\ UNCHANGED <<file, consumed, pos, unread_marker, found, global_state, scan>>
      /\ UNCHANGED <<input_buffer_, input_buffer_pos_>>
      /\ src' = src \o Slice(file, delivered, delivered')
  BY DEF LoadNextChunk
<1>2. /\ here = consumed /\ consumed \in Nat /\ delivered \in Nat /\ chunkStart \in Nat
      /\ pos \in Nat /\ file \in Files /\ consumed <= delivered
  BY <1>1, HereIs
<1>3. PICK n \in ChunkSizes : delivered' = ChunkEnd(n)
  BY DEF LoadNextChunk
<1>4. delivered' \in Nat /\ delivered < delivered'
  BY <1>3, ChunkEndIs
<1>5. /\ input_buffer_ = <<>> /\ input_buffer_pos_ \in 0 .. Len(input_buffer_)
      /\ data = Slice(file, consumed, delivered)
  BY <1>1 DEF BytesInv, NoByteLostOrRepeated
<1>6. input_buffer_pos_ = 0 /\ src = Slice(file, consumed, delivered)
  BY <1>5 DEF data
<1>7. src' = Slice(file, consumed, delivered')
  <2>1. delivered <= delivered'
    BY <1>2, <1>4
  <2>2. QED
    BY <1>1, <1>2, <1>4, <1>6, <2>1, SliceJoin
<1>8. consumed <= delivered'
  BY <1>2, <1>4
<1>9. BytesInv' /\ chunkStart' = consumed' /\ here' = consumed'
  BY <1>1, <1>2, <1>4, <1>5, <1>6, <1>7, <1>8, SourceOnly
<1>10. MarkerFree(file, consumed, consumed)
  BY <1>2, FreeWhenShort
<1>11. LeftInv'
  BY <1>1, <1>2, <1>9, <1>10 DEF LeftInv, Undecided
<1>12. PaddingInv'
  BY <1>1, <1>2, <1>4, <1>9 DEF PaddingInv
<1>13. QED
  BY <1>9, <1>11, <1>12

\* The source's buffer is handed over: what is not parsed is all in it.
LEMMA BytesHandOff ==
  ASSUME PassInv, BytesInv, pc = "post", file' = file, delivered' = delivered, pos' = pos,
         consumed' = consumed + pos, src' = AdvancedSrc, AdvancedBuffer = <<>>,
         input_buffer_' = <<>>, input_buffer_pos_' = 0, pc' \in {"app", "loop"}
  PROVE  /\ BytesInv' /\ chunkStart' = consumed' /\ here' = consumed' /\ here' = here
         /\ MarkerFree(file, consumed', consumed') /\ consumed' \in Nat
<1>1. /\ here = consumed + pos /\ here \in Nat /\ delivered \in Nat /\ here <= delivered
      /\ pos \in Nat /\ file \in Files
  BY HereIs
<1>2. AdvancedSrc = Slice(file, here, delivered)
  BY Advanced
<1>3. consumed' = here
  BY <1>1
<1>4. BytesInv' /\ chunkStart' = consumed' /\ here' = consumed'
  BY <1>1, <1>2, <1>3, SourceOnly
<1>5. MarkerFree(file, here, here)
  BY <1>1, FreeWhenShort
<1>6. QED
  BY <1>1, <1>3, <1>4, <1>5

LEMMA BytesHandleRestart ==
  ASSUME PassInv, BytesInv, LeftInv, PaddingInv, HandleRestart, RestartsAreRestarts
  PROVE  BytesInv' /\ LeftInv' /\ PaddingInv'
<1>1. /\ pc = "post" /\ status = "kHandleRestart" /\ pc' \in {"app", "loop"}
      /\ file' = file /\ delivered' = delivered /\ pos' = pos /\ consumed' = consumed + pos
      /\ src' = AdvancedSrc /\ input_buffer_' = <<>> /\ input_buffer_pos_' = 0
      /\ UNCHANGED <<global_state, found>>
      /\ scan' = [scan EXCEPT !.next_restart = (@ + 1) % 8,
                              !.restarts_to_go = restart_interval]
      /\ unread_marker = RST(scan.next_restart) => unread_marker' = 0
      /\ unread_marker # RST(scan.next_restart) => unread_marker' = unread_marker
  BY DEF HandleRestart, config
<1>2. AdvancedBuffer = <<>>
  BY <1>1, Advanced DEF LeftInv
<1>3. /\ BytesInv' /\ chunkStart' = consumed' /\ here' = consumed' /\ here' = here
      /\ MarkerFree(file, consumed', consumed') /\ consumed' \in Nat
  BY <1>1, <1>2, BytesHandOff
<1>4. unread_marker' \notin Handed \ {0}
  BY <1>1 DEF RestartsAreRestarts
<1>5. global_state # "kDecHeaderDone"
  BY <1>1 DEF PassInv, ControlInv
<1>6. LeftInv'
  BY <1>1, <1>3, <1>4, <1>5 DEF LeftInv, Undecided
<1>7. scan'.bits_ahead = 0
  <2>1. scan.bits_ahead = 0 /\ IsScanState(scan)
    BY <1>1 DEF LeftInv, PassInv, ScanInv
  <2>2. QED
    BY <1>1, <2>1 DEF IsScanState
<1>8. QED
  BY <1>3, <1>6, <1>7 DEF PaddingInv

LEMMA BytesFillSuspends ==
  ASSUME PassInv, BytesInv, LeftInv, PaddingInv, FillSuspends
  PROVE  BytesInv' /\ LeftInv' /\ PaddingInv'
<1> USE DEF header, config, frame
<1>1. /\ pc = "post" /\ status = "kNeedMoreInput" /\ pc' = "app" /\ kind = "suspend"
      /\ file' = file /\ delivered' = delivered /\ pos' = pos /\ consumed' = consumed + pos
      /\ src' = AdvancedSrc /\ input_buffer_' = <<>> /\ input_buffer_pos_' = 0
      /\ UNCHANGED <<global_state, found, unread_marker, scan>>
  BY DEF FillSuspends
<1>2. AdvancedBuffer = <<>>
  BY <1>1 DEF BytesInv, AdvancedBuffer
<1>3. /\ BytesInv' /\ chunkStart' = consumed' /\ here' = consumed' /\ here' = here
      /\ MarkerFree(file, consumed', consumed') /\ consumed' \in Nat
  BY <1>1, <1>2, BytesHandOff
<1>4. unread_marker \notin Handed \ {0} /\ global_state # "kDecHeaderDone"
  BY <1>1 DEF LeftInv, PassInv, ControlInv
<1>5. LeftInv'
  BY <1>1, <1>3, <1>4 DEF LeftInv, Undecided
<1>6. QED
  BY <1>1, <1>3, <1>5 DEF PaddingInv

\* A marker processor reads a segment, past the chunk if need be.
LEMMA BytesCallMarkerProcessor ==
  ASSUME PassInv, BytesInv, LeftInv, PaddingInv, CallMarkerProcessor
  PROVE  BytesInv' /\ LeftInv' /\ PaddingInv'
<1> USE DEF config, frame
<1>1. /\ pc = "post" /\ status = "kHandleMarkerProcessor"
      /\ input_buffer_' = <<>> /\ input_buffer_pos_' = 0
      /\ UNCHANGED <<file, global_state, found, scan, pos>>
  BY DEF CallMarkerProcessor
<1>2. /\ AdvancedBuffer = <<>> /\ global_state # "kDecProcessScan"
      /\ global_state # "kDecHeaderDone"
  BY <1>1, Advanced DEF LeftInv, PassInv, ControlInv
<1>3. /\ here = consumed + pos /\ here \in Nat /\ delivered \in Nat /\ here <= delivered
      /\ pos \in Nat /\ file \in Files
  BY <1>1, HereIs
<1>4. PaddingInv'
  BY <1>1, <1>2 DEF PaddingInv
<1>5. CASE Len(AdvancedSrc) < 2
  <2>1. /\ pc' = "app" /\ src' = AdvancedSrc /\ consumed' = consumed + pos
        /\ delivered' = delivered /\ unread_marker' = unread_marker
    BY <1>5 DEF CallMarkerProcessor
  <2>2. /\ BytesInv' /\ chunkStart' = consumed' /\ here' = consumed' /\ here' = here
        /\ MarkerFree(file, consumed', consumed') /\ consumed' \in Nat
    BY <1>1, <1>2, <2>1, BytesHandOff
  <2>3. LeftInv'
    BY <1>1, <1>2, <2>1, <2>2 DEF LeftInv, Undecided
  <2>4. QED
    BY <1>4, <2>2, <2>3
<1>6. CASE ~(Len(AdvancedSrc) < 2)
  <2> DEFINE s == AdvancedSrc
             n == 256 * s[1] + s[2]
  <2>1. /\ pc' = "loop" /\ consumed' = consumed + pos + n
        /\ delivered' = Max({delivered, consumed'})
        /\ src' = SubSeq(s, n + 1, Len(s)) /\ unread_marker' = 0
    BY <1>6 DEF CallMarkerProcessor
  <2>2. /\ s = Slice(file, here, delivered) /\ s \in Seq(Byte)
        /\ Len(s) = delivered - here
    BY <1>1, <1>2, <1>3, Advanced, SliceIs
  <2>3. n \in Nat
    <3>1. 1 \in 1 .. Len(s) /\ 2 \in 1 .. Len(s)
      BY <1>3, <1>6, <2>2
    <3> HIDE DEF s
    <3>2. \A i \in 1 .. Len(s) : s[i] \in Byte
      BY <2>2
    <3>3. s[1] \in Nat /\ s[2] \in Nat
      <4>1. s[1] \in Byte /\ s[2] \in Byte
        BY <3>1, <3>2
      <4>2. Byte \subseteq Nat
        BY DEF Byte
      <4>3. QED
        BY <4>1, <4>2
    <3>4. \A x, y \in Nat : 256 * x + y \in Nat
      OBVIOUS
    <3>5. QED
      BY <3>3, <3>4
  <2> HIDE DEF s, n
  <2>4. consumed' = here + n /\ consumed' \in Nat
    BY <1>3, <2>1, <2>3
  <2>5. /\ delivered' = IF delivered >= consumed' THEN delivered ELSE consumed'
        /\ delivered' \in Nat /\ consumed' <= delivered'
    <3>1. \A a, b \in Nat : Max({a, b}) = IF a >= b THEN a ELSE b
      BY MinMaxOfTwo
    <3>2. delivered' = IF delivered >= consumed' THEN delivered ELSE consumed'
      BY <1>3, <2>1, <2>4, <3>1
    <3>3. QED
      BY <1>3, <2>4, <3>2
  <2>6. src' = Slice(file, consumed', delivered')
    <3>1. CASE delivered >= consumed'
      <4>1. here <= here + n /\ here + n <= delivered /\ here + n \in Nat
        BY <1>3, <2>3, <2>4, <3>1
      <4>2. SubSeq(Slice(file, here, delivered), (here + n) - here + 1, delivered - here)
              = Slice(file, here + n, delivered)
        BY <1>3, <4>1, SliceTail
      <4>3. (here + n) - here + 1 = n + 1
        BY <1>3, <2>3
      <4>4. QED
        BY <2>1, <2>2, <2>4, <2>5, <3>1, <4>2, <4>3
    <3>2. CASE ~(delivered >= consumed')
      <4>1. n + 1 > Len(s)
        BY <1>3, <2>2, <2>3, <2>4, <3>2
      <4>2. src' = <<>>
        BY <2>1, <2>2, <2>3, <4>1
      <4>3. delivered' = consumed'
        BY <2>5, <3>2
      <4>4. Slice(file, consumed', consumed') \in Seq(Byte)
            /\ Len(Slice(file, consumed', consumed')) = 0
        BY <1>3, <2>4, SliceIs
      <4>5. QED
        BY <4>2, <4>3, <4>4
    <3>3. QED
      BY <3>1, <3>2
  <2>7. BytesInv' /\ chunkStart' = consumed' /\ here' = consumed'
    BY <1>1, <1>3, <2>1, <2>4, <2>5, <2>6, SourceOnly
  <2>8. MarkerFree(file, consumed', consumed')
    BY <2>4, FreeWhenShort
  <2>9. LeftInv'
    BY <1>1, <1>2, <2>1, <2>7, <2>8 DEF LeftInv, Undecided
  <2>10. QED
    BY <1>4, <2>7, <2>9
<1>7. QED
  BY <1>5, <1>6

\* A new chunk: what was left of the old one goes before it in input_buffer_.
LEMMA BytesFillInputBuffer ==
  ASSUME PassInv, BytesInv, LeftInv, PaddingInv, FillInputBuffer
  PROVE  BytesInv' /\ LeftInv' /\ PaddingInv'
<1> USE DEF header, config, frame
<1> DEFINE left == IF AdvancedBuffer = <<>> THEN AdvancedSrc ELSE AdvancedBuffer
           next == Slice(file, delivered, delivered')
<1>1. /\ pc = "post" /\ status = "kNeedMoreInput" /\ pc' = "loop" /\ kind # "suspend"
      /\ consumed' = consumed + pos /\ src' = next
      /\ input_buffer_' = left \o next /\ input_buffer_pos_' = AdvancedPos
      /\ UNCHANGED <<file, kind, pos, global_state, found, unread_marker, scan>>
  BY DEF FillInputBuffer
<1>2. /\ here = consumed + pos /\ here \in Nat /\ delivered \in Nat /\ here <= delivered
      /\ pos \in Nat /\ file \in Files
  BY <1>1, HereIs
<1>3. PICK n \in ChunkSizes : delivered' = ChunkEnd(n)
  BY DEF FillInputBuffer
<1>4. delivered' \in Nat /\ delivered < delivered' /\ here <= delivered'
  BY <1>2, <1>3, ChunkEndIs
<1>5. next \in Seq(Byte) /\ Len(next) = delivered' - delivered
  <2>1. delivered <= delivered'
    BY <1>2, <1>4
  <2>2. QED
    BY <1>2, <1>4, <2>1, SliceIs
<1>6. /\ left \in Seq(Byte) /\ AdvancedPos \in 0 .. Len(left)
      /\ SubSeq(left, AdvancedPos + 1, Len(left)) = Slice(file, here, delivered)
  <2>1. CASE AdvancedBuffer = <<>>
    <3>1. /\ left = AdvancedSrc /\ AdvancedPos = 0 /\ AdvancedSrc \in Seq(Byte)
          /\ AdvancedSrc = Slice(file, here, delivered)
      BY <1>1, <2>1, Advanced
    <3>2. SubSeq(AdvancedSrc, 1, Len(AdvancedSrc)) = AdvancedSrc
      BY <3>1
    <3>3. Len(AdvancedSrc) \in Nat
      BY <3>1
    <3>4. QED
      BY <3>1, <3>2, <3>3
  <2>2. CASE AdvancedBuffer # <<>>
    BY <1>1, <2>2, Advanced
  <2>3. QED
    BY <2>1, <2>2
<1> HIDE DEF left, next
<1>7. SubSeq(left \o next, AdvancedPos + 1, Len(left \o next)) = Slice(file, here, delivered')
  <2>1. SubSeq(left \o next, AdvancedPos + 1, Len(left \o next))
          = SubSeq(left, AdvancedPos + 1, Len(left)) \o next
    BY <1>5, <1>6, ReadOn
  <2>2. delivered <= delivered'
    BY <1>2, <1>4
  <2>3. Slice(file, here, delivered) \o next = Slice(file, here, delivered')
    BY <1>2, <1>4, <2>2, SliceJoin DEF next
  <2>4. QED
    BY <1>6, <2>1, <2>3
<1>8. /\ input_buffer_' \in Seq(Byte) /\ Len(input_buffer_') = Len(left) + Len(next)
      /\ Len(left) \in Nat
  <2>1. left \o next \in Seq(Byte) /\ Len(left \o next) = Len(left) + Len(next)
    BY <1>5, <1>6, ConcatProperties
  <2>2. Len(left) \in Nat
    BY <1>6
  <2>3. QED
    BY <1>1, <2>1, <2>2
<1>9. input_buffer_' # <<>> /\ input_buffer_pos_' \in 0 .. Len(input_buffer_')
  <2>1. Len(input_buffer_') > 0
    BY <1>2, <1>4, <1>5, <1>8
  <2>2. QED
    BY <1>1, <1>2, <1>4, <1>5, <1>6, <1>8, <2>1
<1>10. NoByteLostOrRepeated'
  <2>1. data' = SubSeq(input_buffer_', input_buffer_pos_' + 1, Len(input_buffer_'))
    BY <1>9 DEF data
  <2>2. data' = Slice(file', consumed', delivered')
    BY <1>1, <1>2, <1>7, <2>1
  <2>3. QED
    BY <2>2 DEF NoByteLostOrRepeated
<1>11. here' = here /\ consumed' = here
  BY <1>1, <1>2 DEF here
<1>12. chunkStart' = delivered /\ Len(src') <= delivered'
  <2>1. \A a, b \in Nat : b - (b - a) = a /\ b - a <= b
    OBVIOUS
  <2>2. chunkStart' = delivered' - Len(src') /\ Len(src') = delivered' - delivered
    BY <1>1, <1>5 DEF chunkStart
  <2>3. delivered' - (delivered' - delivered) = delivered /\ delivered' - delivered <= delivered'
    BY <1>2, <1>4, <2>1
  <2>4. QED
    BY <2>2, <2>3
<1>13. src' \in Seq(Byte) /\ src' = Slice(file', chunkStart', delivered')
  BY <1>1, <1>5, <1>12 DEF next
<1>14. consumed' \in 0 .. delivered' /\ here' \in consumed' .. delivered' /\ pos' \in Nat
  BY <1>1, <1>2, <1>4, <1>11
<1>15. BytesInv'
  BY <1>1, <1>2, <1>4, <1>8, <1>9, <1>10, <1>12, <1>13, <1>14 DEF BytesInv
<1>16. unread_marker \notin Handed \ {0} /\ global_state # "kDecHeaderDone"
  BY <1>1 DEF LeftInv, PassInv, ControlInv
<1>17. Undecided(here, chunkStart)'
  <2>1. Undecided(here, delivered)
    BY <1>1 DEF LeftInv
  <2>2. QED
    BY <1>1, <1>11, <1>12, <2>1 DEF Undecided
<1>18. LeftInv'
  BY <1>1, <1>16, <1>17 DEF LeftInv
<1>19. PaddingInv'
  BY <1>1, <1>2, <1>4, <1>11 DEF PaddingInv
<1>20. QED
  BY <1>15, <1>18, <1>19

\* ConsumeInput returns: the buffers stay, up to the bytes parsed.
LEMMA BytesReturn ==
  ASSUME PassInv, BytesInv, LeftInv, PaddingInv, Return
  PROVE  BytesInv' /\ LeftInv' /\ PaddingInv'
<1> USE DEF header, config
<1>1. /\ pc = "post" /\ pc' = "app"
      /\ status \in {"JPEG_REACHED_SOS", "JPEG_REACHED_EOI", "JPEG_ROW_COMPLETED",
                     "JPEG_SCAN_COMPLETED"}
      /\ src' = AdvancedSrc /\ consumed' = consumed + pos
      /\ input_buffer_' = AdvancedBuffer /\ input_buffer_pos_' = AdvancedPos
      /\ UNCHANGED <<file, kind, delivered, pos, status, found, unread_marker>>
  BY DEF Return
<1>2. /\ here = consumed + pos /\ here \in Nat /\ delivered \in Nat /\ here <= delivered
      /\ pos \in Nat /\ file \in Files /\ chunkStart \in Nat
  BY <1>1, HereIs
<1>3. here' = here /\ consumed' = here
  BY <1>1, <1>2 DEF here
<1>4. /\ AdvancedSrc \in Seq(Byte) /\ Len(AdvancedSrc) <= delivered
      /\ AdvancedSrc = Slice(file, delivered - Len(AdvancedSrc), delivered)
      /\ AdvancedBuffer \in Seq(Byte) /\ AdvancedPos \in 0 .. Len(AdvancedBuffer)
      /\ AdvancedBuffer = <<>> => /\ AdvancedSrc = Slice(file, here, delivered)
                                  /\ delivered - Len(AdvancedSrc) = here
      /\ AdvancedBuffer # <<>> =>
           /\ SubSeq(AdvancedBuffer, AdvancedPos + 1, Len(AdvancedBuffer))
                = Slice(file, here, delivered)
           /\ delivered - Len(AdvancedSrc) = chunkStart
      /\ chunkStart <= here => AdvancedBuffer = <<>>
  BY <1>1, Advanced
<1>5. chunkStart' = delivered - Len(AdvancedSrc)
  BY <1>1 DEF chunkStart
<1>6. NoByteLostOrRepeated'
  <2>1. AdvancedBuffer = <<>> => data' = AdvancedSrc
    BY <1>1 DEF data
  <2>2. AdvancedBuffer # <<>> =>
          data' = SubSeq(AdvancedBuffer, AdvancedPos + 1, Len(AdvancedBuffer))
    BY <1>1 DEF data
  <2>3. data' = Slice(file, here, delivered)
    BY <1>4, <2>1, <2>2
  <2>4. QED
    BY <1>1, <1>3, <2>3 DEF NoByteLostOrRepeated
<1>7. kind' = "suspend" => input_buffer_' = <<>>
  BY <1>1 DEF BytesInv, AdvancedBuffer
<1>8. consumed' \in 0 .. delivered' /\ here' \in consumed' .. delivered'
  BY <1>1, <1>2, <1>3
<1>9. BytesInv'
  BY <1>1, <1>2, <1>4, <1>5, <1>6, <1>7, <1>8 DEF BytesInv
<1>10. MarkerFree(file, here, chunkStart)
  BY <1>1 DEF LeftInv, Undecided, PassInv, ControlInv
<1>11. MarkerFree(file, here', chunkStart')
  <2>1. MarkerFree(file, here, here)
    BY <1>2, FreeWhenShort
  <2>2. QED
    BY <1>3, <1>4, <1>5, <1>10, <2>1
<1>12. unread_marker \notin Handed \ {0}
  BY <1>1 DEF LeftInv
<1>13. /\ global_state' = "kDecHeaderDone" => status = "JPEG_REACHED_SOS"
       /\ global_state' # "kDecStart"
       /\ global_state' = "kDecProcessScan" => \/ scan'.bits_ahead = 0
                                               \/ /\ global_state = "kDecProcessScan"
                                                  /\ scan' = scan
       /\ scan'.bits_ahead \in {0, 1}
  <2>0. /\ global_state \notin {"kDecHeaderDone", "kDecStart"}
        /\ scan.bits_ahead \in {0, 1}
    BY <1>1 DEF PassInv, ControlInv, PaddingInv
  <2>1. CASE status = "JPEG_REACHED_SOS" /\ global_state # "kDecInHeader"
    <3>1. /\ global_state' = "kDecProcessScan"
          /\ scan' = [NoScan EXCEPT !.restarts_to_go = restart_interval]
      BY <2>1 DEF Return, PrepareForScan
    <3>2. scan'.bits_ahead = 0
      BY <3>1 DEF NoScan
    <3>3. QED
      BY <3>1, <3>2
  <2>2. CASE ~(status = "JPEG_REACHED_SOS" /\ global_state # "kDecInHeader")
    <3>1. /\ scan' = scan
          /\ status = "JPEG_SCAN_COMPLETED" => global_state' = "kDecProcessMarkers"
          /\ status = "JPEG_REACHED_SOS" => global_state' = "kDecHeaderDone"
          /\ status \notin {"JPEG_SCAN_COMPLETED", "JPEG_REACHED_SOS"} =>
               global_state' = global_state
      BY <2>2 DEF Return
    <3>2. QED
      BY <2>0, <3>1
  <2>3. QED
    BY <2>1, <2>2
<1>14. "eoi" \in found' => chunkStart' = consumed'
  <2> SUFFICES ASSUME "eoi" \in found PROVE chunkStart' = consumed'
    BY <1>1
  <2>1. status = "JPEG_REACHED_EOI"
    BY <1>1 DEF PassInv, ControlInv
  <2>2. chunkStart <= here
    BY <1>1, <2>1 DEF LeftInv
  <2>3. QED
    BY <1>3, <1>4, <1>5, <2>2
<1>15. global_state' = "kDecHeaderDone" => unread_marker' = 0
  BY <1>1, <1>13 DEF LeftInv
<1>16. LeftInv'
  BY <1>1, <1>11, <1>12, <1>13, <1>14, <1>15 DEF LeftInv, Undecided
<1>17. PaddingInv'
  BY <1>1, <1>3, <1>13 DEF PaddingInv
<1>18. QED
  BY <1>9, <1>16, <1>17

LEMMA BytesUnchanged ==
  ASSUME SourceInv, UNCHANGED vars
  PROVE  SourceInv'
<1> USE DEF vars, config, source, header, frame
<1>1. here' = here /\ chunkStart' = chunkStart
  BY DEF here, chunkStart
<1>2. BytesInv'
  BY <1>1 DEF SourceInv, BytesInv, NoByteLostOrRepeated, data
<1>3. pc \notin {"done", "error"} => LeftInv'
  BY <1>1 DEF SourceInv, LeftInv, Undecided
<1>4. pc \notin {"done", "error"} => PaddingInv'
  BY <1>1 DEF SourceInv, PaddingInv
<1>5. QED
  BY <1>2, <1>3, <1>4 DEF SourceInv

LEMMA BytesNext ==
  ASSUME PassInv, SourceInv, RestartsAreRestarts, [Next]_vars
  PROVE  SourceInv'
<1>1. CASE UNCHANGED vars
  BY <1>1, BytesUnchanged
<1>2. CASE Done
  BY <1>2, BytesUnchanged DEF Done
<1>3. CASE MarkerError \/ ScanError
  BY <1>3, BytesErrors DEF SourceInv
<1>4. CASE StartDecompress \/ FinishDecompress
  <2>1. pc = "app" /\ pc' # "error"
    BY <1>4 DEF StartDecompress, FinishDecompress
  <2>2. QED
    BY <1>4, <2>1, BytesOtherCalls DEF SourceInv
<1>6. CASE CallConsumeInput \/ LoadNextChunk
  BY <1>6, BytesCallConsumeInput, BytesLoadNextChunk
     DEF CallConsumeInput, LoadNextChunk, SourceInv
<1>7. CASE BeginParse
  BY <1>7, BytesBeginParse DEF BeginParse, SourceInv
<1>8. CASE NeedMoreForMarker \/ MarkerForProcessor \/ NeedMoreForSegment
  <2>1. pc = "markers"
    BY <1>8 DEF NeedMoreForMarker, MarkerForProcessor, NeedMoreForSegment
  <2>2. QED
    BY <1>8, <2>1, BytesMarkerSteps DEF SourceInv
<1>9. CASE ProcessSegment
  <2>1. pc = "markers"
    BY <1>9 DEF ProcessSegment
  <2>2. QED
    BY <1>9, <2>1, BytesProcessSegment DEF SourceInv
<1>10. CASE ScanRestart
  <2>1. pc = "scan"
    BY <1>10 DEF ScanRestart
  <2>2. QED
    BY <1>10, <2>1, BytesScanRestart DEF SourceInv
<1>11. CASE NeedMoreForMCU \/ IncompleteScan \/ DecodeMCU
  <2>1. pc = "scan"
    BY <1>11 DEF NeedMoreForMCU, IncompleteScan, DecodeMCU
  <2>2. QED
    BY <1>11, <2>1, BytesReadMCU DEF SourceInv
<1>12. CASE HandleRestart \/ CallMarkerProcessor \/ FillInputBuffer \/ FillSuspends \/ Return
  <2>1. pc = "post"
    BY <1>12 DEF HandleRestart, CallMarkerProcessor, FillInputBuffer, FillSuspends, Return
  <2>2. QED
    BY <1>12, <2>1, BytesHandleRestart, BytesCallMarkerProcessor, BytesFillInputBuffer,
       BytesFillSuspends, BytesReturn DEF SourceInv
<1>13. QED
  BY <1>1, <1>2, <1>3, <1>4, <1>6, <1>7, <1>8, <1>9, <1>10, <1>11, <1>12 DEF Next

LEMMA SourceInit ==
  ASSUME Init
  PROVE  PassInv /\ SourceInv
BY PassInit, BytesInit DEF SourceInv

LEMMA SourceNext ==
  ASSUME PassInv /\ SourceInv, RestartsAreRestarts, [Next]_vars
  PROVE  (PassInv /\ SourceInv)'
BY PassNext, BytesNext

LEMMA SourceInvariant == Spec /\ []RestartsAreRestarts => [](PassInv /\ SourceInv)
<1>1. Init => PassInv /\ SourceInv
  BY SourceInit
<1>2. (PassInv /\ SourceInv) /\ RestartsAreRestarts /\ [Next]_vars => (PassInv /\ SourceInv)'
  BY SourceNext
<1>3. QED
  BY <1>1, <1>2, PTL DEF Spec

\* ConsumeInput reads the file byte by byte and in order, whatever the file, the
\* source and the sizes of the chunks: the buffer it parses, its own or the
\* source's, always begins with the first byte it has not read.  The hypothesis
\* is that no EOI and no marker with a processor is found where a restart marker
\* is due: HandleRestart leaves it unread while the scan goes on.
THEOREM BytesAreReadOnce == Spec /\ []RestartsAreRestarts => []NoByteLostOrRepeated
<1>1. PassInv /\ SourceInv => NoByteLostOrRepeated
  BY DEF SourceInv, BytesInv
<1>2. QED
  BY <1>1, SourceInvariant, PTL

\* What a marker processor, resync_to_restart and the next image find in the
\* source's buffer are the bytes after the marker, all of them: ConsumeInput's
\* assertion before it calls them never fails.
THEOREM HandsOffExactly == Spec /\ []RestartsAreRestarts => []HandOffIsExact
<1>1. ASSUME SourceInv, pc = "post",
             status \in {"kHandleRestart", "kHandleMarkerProcessor", "JPEG_REACHED_EOI"}
      PROVE  /\ Len(AdvancedBuffer) <= AdvancedPos + Len(AdvancedSrc)
             /\ AdvancedSrc = Slice(file, consumed + pos, delivered)
  <2>1. BytesInv /\ LeftInv
    BY <1>1 DEF SourceInv
  <2>2. chunkStart <= here
    BY <1>1, <2>1 DEF LeftInv
  <2>3. /\ AdvancedBuffer = <<>> /\ AdvancedPos \in 0 .. Len(AdvancedBuffer)
        /\ AdvancedSrc \in Seq(Byte) /\ AdvancedSrc = Slice(file, consumed + pos, delivered)
    BY <1>1, <2>1, <2>2, Advanced
  <2>4. AdvancedPos = 0 /\ Len(AdvancedBuffer) = 0 /\ Len(AdvancedSrc) \in Nat
    BY <2>3
  <2>5. QED
    BY <2>3, <2>4
<1>2. PassInv /\ SourceInv => HandOffIsExact
  BY <1>1 DEF HandOffIsExact
<1>3. QED
  BY <1>2, SourceInvariant, PTL
=============================================================================
