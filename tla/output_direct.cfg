SPECIFICATION FairSpec
CONSTANTS
  image_height = 51
  h_samp_factor <- TwoOne
  v_samp_factor <- TwoOne
  scale_num = 1
  scale_denom = 1
  do_fancy_upsampling = TRUE
  Modes <- Direct
  LineCounts = {5, 60}
  MaxScans = 2
  MaxSuspensions = 1
  MaxPasses = 1
INVARIANTS ShowsWholeScans NoLineLost
PROPERTIES ImageEnds
