---------------------------- MODULE MCBenchmark -----------------------------
(* Four tasks on three threads. *)
EXTENDS Benchmark

Outcome(frames, loaded, encode, decode, disk) ==
  [frames |-> frames, loaded |-> loaded, encode |-> encode, decode |-> decode, disk |-> disk]
\* A good image, a decoder that fails the second time, an animation, an encoder that fails every
\* time, a full disk.
AllOutcomes ==
  {Outcome(1, TRUE, <<TRUE, TRUE>>, <<TRUE, TRUE>>, TRUE),
   Outcome(1, TRUE, <<TRUE, TRUE>>, <<TRUE, FALSE>>, TRUE),
   Outcome(2, TRUE, <<TRUE, TRUE>>, <<TRUE, TRUE>>, TRUE),
   Outcome(1, TRUE, <<FALSE, FALSE>>, <<TRUE, TRUE>>, TRUE),
   Outcome(1, TRUE, <<TRUE, TRUE>>, <<TRUE, TRUE>>, FALSE)}
Reports == {{}, {1}, {2}}
=============================================================================
