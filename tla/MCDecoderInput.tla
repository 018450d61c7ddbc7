--------------------------- MODULE MCDecoderInput ---------------------------
(* Files for DecoderInput. *)
EXTENDS DecoderInput

None == [m \in MCUs |-> 0]
File(bytes, c1, c2, app, ends) ==
  [bytes |-> bytes, coefs |-> <<c1, c2>>, app |-> app, ends |-> ends]

Tables == <<255, DQT, 0, 3, 7>>
Frame  == <<255, 192, 0, 2>>
App1   == <<255, 225, 0, 3, 255>>
App6   == <<255, 230, 0, 4, 255, 217>>
Every3 == <<255, DRI, 0, 4, 0, 3>>
SosDC  == <<255, SOS, 0, 3, 0>>
SosAC  == <<255, SOS, 0, 3, 1>>

\* 3, a long value with an escaped byte, 1, padding, RST0; 1, 2, and a long
\* value whose last byte is 0xff with the padding.
DCData == <<56, 255, 0, 31, 255, 208, 18, 128, 255, 0>>
DCCoefs == <<3, 2306, 2307, 1, 3, 2066>>

\* An end-of-block run over two blocks, 5, RST0; 2 and a run to the end of the
\* scan, so that the last MCU takes no bits.
ACData == <<101, 255, 208, 38>>
ACCoefs == <<0, 0, 5, 2, 0, 0>>

TwoScansWith(app) == <<255, SOI>> \o Tables \o Every3 \o App1 \o Frame \o app
                     \o SosDC \o DCData \o SosAC \o ACData \o <<255, EOI>>
TwoScans == TwoScansWith(App6)

\* Tables alone, then an image that uses them, without restarts and with a
\* byte of garbage before EOI.
TwoImages == <<255, SOI>> \o Tables \o <<255, EOI, 255, SOI>> \o App6 \o Frame
             \o SosAC \o <<101, 82, 66, 0, 255, EOI>>

Whole == {File(TwoScans, DCCoefs, ACCoefs, <<225, 230>>, "whole"),
          File(TwoImages, <<0, 0, 5, 5, 2, 4>>, None, <<230>>, "whole")}

\* Two scans, without a marker for the processor, cut off in every place after
\* the first SOS but one: after the marker code of the second SOS, where the
\* fake EOI would be the segment's length and take 32 thousand more of them to
\* fill it.
ToCut == TwoScansWith(<<>>)
FirstScan == 28 .. 37
SecondScan == 43 .. Len(ToCut) - 1
CutOff == {File(SubSeq(ToCut, 1, n), DCCoefs, ACCoefs, <<225>>,
                IF n \in FirstScan \cup SecondScan THEN "scan" ELSE "segment") :
             n \in (28 .. Len(ToCut) - 1) \ {39}}

\* No SOI; a symbol that does not exist; an end-of-block run over a restart.
Start == <<255, SOI>> \o Frame \o Every3
Corrupt ==
  {File(<<1, 255, SOI>> \o Frame, DCCoefs, ACCoefs, <<>>, "corrupt"),
   File(Start \o SosDC \o <<48, 17, 17>>, DCCoefs, ACCoefs, <<>>, "corrupt"),
   File(Start \o SosAC \o <<85, 111, 255, 208, 33, 34>>, <<5, 5, 0, 0, 0, 0>>, None,
        <<>>, "corrupt"),
   File(Start \o SosDC \o <<56, 255, 0, 31, 255, 208, 18, 102, 34>>, DCCoefs, None, <<>>,
        "corrupt")}

AllFiles == Whole \cup CutOff \cup Corrupt
=============================================================================
