---------------------- MODULE MCThreadParallelRunner ----------------------
(* Instances of ThreadParallelRunner for TLC. *)
EXTENDS ThreadParallelRunner

\* Two consecutive short jobs, an empty and an inverted range.
ShortRanges == {<<1, 3>>, <<2, 2>>, <<3, 1>>}

\* More numbers than NumWorkers * 8, so that a worker reserves several at once
\* and a stale size can overshoot the end of the range.
LongRanges == {<<1, 18>>}

=============================================================================
