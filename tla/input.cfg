SPECIFICATION FairSpec
CONSTANTS
  Files <- AllFiles
  Kinds = {"mem", "fill", "suspend"}
  ChunkSizes = {1, 2, 5}
  MCUs_per_row = 2
  MCU_rows_in_scan = 3
  mcu_rows_per_iMCU_row_ = 2
  MaxScans = 2
  kMaxMCUByteSize = 6
  Processors = {230}
  MarkersToSave = {225}
INVARIANTS NoByteLostOrRepeated HandOffIsExact DecodedIsCoded EveryMarkerOnce SoundInputNeverFails
PROPERTIES ImplementsInputPass EndsEventually
