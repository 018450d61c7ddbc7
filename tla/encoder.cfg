SPECIFICATION Spec
CONSTANTS
  Images <- All
  LaterImages <- Later
  Dests <- Destinations
  MemVars = {"fresh", "same"}
  LineCounts = {3, 100}
  Densities = {2, 64}
  MaxImages = 2
  MaxRefusals = 1
  MaxAborts = 1
INVARIANTS RowsCodedFromTheirInput StreamIsTheImage DecoderHasTheTables BuffersSuffice NoResultFreed
PROPERTIES StartedImageEnds
CHECK_DEADLOCK FALSE
