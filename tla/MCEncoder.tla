----------------------------- MODULE MCEncoder -----------------------------
(* Images for Encoder. *)
EXTENDS Encoder

\* One iMCU row, two components without subsampling.
Base == [height |-> 5, cols |-> 1, h |-> <<1, 1>>, v |-> <<1, 1>>, q |-> <<0, 1>>,
         ychan |-> 1, mode |-> "pixels", smoothing |-> FALSE, aq |-> TRUE, optimize |-> FALSE,
         psnr |-> FALSE, restart |-> FALSE, scans |-> 1, app |-> 0, all_tables |-> TRUE]
Sampled(hv, height) == [Base EXCEPT !.h = hv, !.v = hv, !.height = height]

\* Geometries: enough iMCU rows for the ring to wrap, chroma or luma subsampled by
\* 2, 3 and 4, with smoothing, and rows of raw data.
Rows == {[Base EXCEPT !.height = 33],
         [Sampled(<<2, 1>>, 70) EXCEPT !.smoothing = TRUE, !.app = 1],
         Sampled(<<4, 1>>, 98), Sampled(<<3, 1>>, 49), Sampled(<<1, 2>>, 20),
         [Sampled(<<2, 1>>, 52) EXCEPT !.mode = "raw"]}

\* Ways to code: token arrays, several scans, the PSNR search, transcoding.
Codings == {[Base EXCEPT !.height = 40, !.optimize = TRUE],
            [Base EXCEPT !.height = 9, !.scans = 2, !.restart = TRUE],
            [Base EXCEPT !.psnr = TRUE, !.h = <<1, 1, 1>>, !.v = <<1, 1, 1>>, !.q = <<0, 1, 1>>],
            [Base EXCEPT !.mode = "coeffs", !.app = 1]}

\* The later images of a session: the tables again, or only what has changed.
Later == {Base, [Base EXCEPT !.all_tables = FALSE, !.q = <<1, 1>>],
          [Base EXCEPT !.all_tables = FALSE, !.optimize = TRUE]}

All == Rows \cup Codings \cup Later

Destinations == {[kind |-> "app", size |-> 3], [kind |-> "stdio", size |-> 4],
                 [kind |-> "mem", size |-> 2]}
=============================================================================
