----------------------------- MODULE InputPass ------------------------------
(***************************************************************************)
(* What the decoder's input side promises to its output side: how far      *)
(* ConsumeInput (lib/jpegli/decode.cc) has got, as the application and     *)
(* ProcessOutput see it.  Headers, tables and bytes are hidden: DecoderInput *)
(* implements this specification and DecoderOutput is built on it.         *)
(***************************************************************************)
EXTENDS Naturals

CONSTANT total_iMCU_rows

VARIABLES global_state, input_scan_number, input_iMCU_row, found_eoi_

inputVars == <<global_state, input_scan_number, input_iMCU_row, found_eoi_>>

Init ==
  /\ global_state = "kDecStart" /\ found_eoi_ = FALSE
  /\ input_scan_number = 0 /\ input_iMCU_row = 0

\* The first jpegli_consume_input of an image: InitializeImage.
InitializeImage ==
  /\ global_state = "kDecStart"
  /\ global_state' = "kDecInHeader" /\ found_eoi_' = FALSE
  /\ input_scan_number' = 0 /\ input_iMCU_row' = 0

\* JPEG_REACHED_SOS while in the header.
HeaderDone ==
  /\ global_state = "kDecInHeader"
  /\ global_state' = "kDecHeaderDone"
  /\ UNCHANGED <<input_scan_number, input_iMCU_row, found_eoi_>>

\* PrepareForScan: of the first scan by jpegli_start_decompress or
\* jpegli_read_coefficients, of the others at their SOS.
PrepareForScan ==
  /\ global_state \in {"kDecHeaderDone", "kDecProcessMarkers"} /\ ~found_eoi_
  /\ global_state' = "kDecProcessScan"
  /\ input_scan_number' = input_scan_number + 1 /\ input_iMCU_row' = 0
  /\ UNCHANGED found_eoi_

\* JPEG_ROW_COMPLETED
RowCompleted ==
  /\ global_state = "kDecProcessScan"
  /\ input_iMCU_row' = input_iMCU_row + 1 /\ input_iMCU_row' < total_iMCU_rows
  /\ UNCHANGED <<global_state, input_scan_number, found_eoi_>>

\* JPEG_SCAN_COMPLETED after the last row.
ScanCompleted ==
  /\ global_state = "kDecProcessScan"
  /\ input_iMCU_row' = input_iMCU_row + 1 /\ input_iMCU_row' = total_iMCU_rows
  /\ global_state' = "kDecProcessMarkers"
  /\ UNCHANGED <<input_scan_number, found_eoi_>>

\* JPEG_SCAN_COMPLETED because a marker was met within a row.
IncompleteScan ==
  /\ global_state = "kDecProcessScan" /\ input_iMCU_row < total_iMCU_rows
  /\ global_state' = "kDecProcessMarkers"
  /\ UNCHANGED <<input_scan_number, input_iMCU_row, found_eoi_>>

\* JPEG_REACHED_EOI, after a scan or in a file that holds tables only.
ReachedEOI ==
  /\ global_state \in {"kDecInHeader", "kDecProcessMarkers"} /\ ~found_eoi_
  /\ found_eoi_' = TRUE
  /\ UNCHANGED <<global_state, input_scan_number, input_iMCU_row>>

\* jpegli_abort_decompress at the end of the image.
Abort ==
  /\ found_eoi_
  /\ global_state' = "kDecStart"
  /\ UNCHANGED <<input_scan_number, input_iMCU_row, found_eoi_>>

Next ==
  \/ InitializeImage \/ HeaderDone \/ PrepareForScan
  \/ RowCompleted \/ ScanCompleted \/ IncompleteScan
  \/ ReachedEOI \/ Abort

Spec == Init /\ [][Next]_inputVars
=============================================================================
