-------------------------- MODULE MCDecoderOutput ---------------------------
(* Modes of DecoderOutput. *)
EXTENDS DecoderOutput

Mode(buffered, multi, two_pass, smoothing, api) ==
  [buffered_image |-> buffered, is_multiscan_ |-> multi, two_pass |-> two_pass,
   smoothing |-> smoothing, api |-> api]

\* One scan or several; streaming, raw data, coefficients, two-pass quantization.
Direct == {Mode(FALSE, multi, FALSE, FALSE, api) : multi \in BOOLEAN,
             api \in {"scanlines", "raw", "coefficients"}}
          \cup {Mode(FALSE, TRUE, TRUE, TRUE, "scanlines"),
                Mode(TRUE, TRUE, FALSE, FALSE, "raw")}

Buffered == {Mode(TRUE, TRUE, two_pass, TRUE, "scanlines") : two_pass \in BOOLEAN}

\* Sampling factors.
TwoOne     == <<2, 1>>
FourTwoOne == <<4, 2, 1>>
FourTwoTwo == <<4, 2, 2>>
=============================================================================
