SPECIFICATION FairSpec
CONSTANTS
  image_height = 110
  h_samp_factor <- FourTwoTwo
  v_samp_factor <- FourTwoOne
  scale_num = 1
  scale_denom = 8
  do_fancy_upsampling = TRUE
  Modes <- Buffered
  LineCounts = {4, 14}
  MaxScans = 2
  MaxSuspensions = 1
  MaxPasses = 2
INVARIANTS RingHoldsContext ShowsWholeScans
PROPERTIES NothingArrivesLate
