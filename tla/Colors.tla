------------------------------- MODULE Colors -------------------------------
(***************************************************************************)
(* One pixel on its way through the color spaces: read in the format of    *)
(* the application (ChooseInputMethod), transformed to the color space of  *)
(* the JPEG (jpegli_set_colorspace, ChooseColorTransform of the encoder),  *)
(* centered, found again by the decoder from the headers alone             *)
(* (ProcessSOF), transformed to the color space that is asked for          *)
(* (ChooseColorTransform of the decoder) and stored (WriteToOutput).       *)
(* Samples are exact: elements of the field of Mod elements, where the     *)
(* transforms' divisions are exact too; 0 .. 255 are different there.      *)
(***************************************************************************)
EXTENDS Integers, Sequences

Mod == 32749
Div(a, b) == (a * (CHOOSE y \in 1 .. Mod - 1 : (b * y) % Mod = 1)) % Mod
\* The fractions of the code, computed once.
Of255 == Div(1, 255)
Of1772 == Div(1, 1772)
Of1402 == Div(1, 1402)
Of587 == Div(1, 587)
Of1000 == Div(1, 1000)
Mul(a, b) == ((a % Mod) * (b % Mod)) % Mod

----------------------------------------------------------------------------
(* Color spaces. *)

\* The extensions: where red, green, blue and, from 1, the fourth channel (0: none) are.
Extension == [EXT_RGB |-> <<1, 2, 3, 0>>, EXT_BGR |-> <<3, 2, 1, 0>>,
              EXT_RGBX |-> <<1, 2, 3, 4>>, EXT_BGRX |-> <<3, 2, 1, 4>>,
              EXT_XRGB |-> <<2, 3, 4, 1>>, EXT_XBGR |-> <<4, 3, 2, 1>>,
              EXT_RGBA |-> <<1, 2, 3, 4>>, EXT_BGRA |-> <<3, 2, 1, 4>>,
              EXT_ARGB |-> <<2, 3, 4, 1>>, EXT_ABGR |-> <<4, 3, 2, 1>>]
Spaces == {"GRAYSCALE", "RGB", "YCbCr", "CMYK", "YCCK", "UNKNOWN"} \cup DOMAIN Extension
Layout(space) == IF space = "RGB" THEN <<1, 2, 3, 0>> ELSE Extension[space]
IsRGB(space) == space = "RGB" \/ space \in DOMAIN Extension

CheckColorSpaceComponents(n, space) ==
  CASE space = "GRAYSCALE" -> n = 1
    [] space \in {"YCbCr"} -> n = 3
    [] space \in {"CMYK", "YCCK"} -> n = 4
    [] space = "UNKNOWN" -> TRUE
    [] OTHER -> n = IF Layout(space)[4] = 0 THEN 3 ELSE 4

\* jpegli_set_colorspace: the components and their ids, and the Adobe marker.
Header(space, input_components, write_JFIF) ==
  [components |-> CASE space = "GRAYSCALE" -> 1 [] space \in {"RGB", "YCbCr"} -> 3
                    [] space \in {"CMYK", "YCCK"} -> 4 [] OTHER -> input_components,
   ids |-> CASE space = "RGB" -> "RGB" [] space = "CMYK" -> "CMYK" [] OTHER -> "numbers",
   jfif |-> write_JFIF,
   adobe |-> IF space = "YCCK" THEN 2 ELSE -1]   \* EncodeAPP14's transform; -1: no marker

jpegli_default_colorspace(space) ==
  IF IsRGB(space) THEN "YCbCr" ELSE space

\* ProcessSOF: the color space, from what the headers say.
jpeg_color_space(header) ==
  CASE header.components = 1 -> "GRAYSCALE"
    [] header.components = 3 ->
         IF header.jfif THEN "YCbCr"
         ELSE IF header.adobe >= 0 THEN IF header.adobe = 0 THEN "RGB" ELSE "YCbCr"
         ELSE IF header.ids = "RGB" THEN "RGB" ELSE "YCbCr"
    [] header.components = 4 -> IF header.adobe > 0 THEN "YCCK" ELSE "CMYK"
    [] OTHER -> "UNKNOWN"
default_out_color_space(header) ==
  CASE header.components = 1 -> "GRAYSCALE" [] header.components = 3 -> "RGB"
    [] header.components = 4 -> "CMYK" [] OTHER -> "UNKNOWN"

----------------------------------------------------------------------------
(* The transforms; a pixel is a sequence of channels. *)

Luma(r, g, b) == Mul(299 * r + 587 * g + 114 * b, Of1000)

\* ExtRGBToYCbCr: samples of 0 .. 255, chroma around offset (128).  A fourth row stays.
RGBToYCbCr(row, at, offset) ==
  LET r == row[at[1]]
      g == row[at[2]]
      b == row[at[3]]
      y == Luma(r, g, b)
  IN  <<y, (Mul(1000 * ((b - y) % Mod), Of1772) + offset) % Mod,
           (Mul(1000 * ((r - y) % Mod), Of1402) + offset) % Mod>> \o SubSeq(row, 4, Len(row))

CMYKToYCCK(row) ==
  RGBToYCbCr([c \in 1 .. 4 |-> IF c = 4 THEN row[4] ELSE (255 - row[c]) % Mod], <<1, 2, 3, 0>>, 128)

\* YCbCrToExtRGB: samples around 0 and over 255; the fourth channel is opaque, 127 / 255.
Opaque == Mul(127, Of255)
Place(at, r, g, b) ==
  [c \in 1 .. IF at[4] = 0 THEN 3 ELSE 4 |->
     CASE c = at[1] -> r [] c = at[2] -> g [] c = at[3] -> b [] OTHER -> Opaque]
YCbCrToRGB(row, at) ==
  LET y == row[1]
      RCr == Mul(1402, Of1000)
      BCb == Mul(1772, Of1000)
      r == (y + Mul(RCr, row[3])) % Mod
      g == (y - Mul(Mul(114 * BCb, Of587), row[2]) - Mul(Mul(299 * RCr, Of587), row[3])) % Mod
      b == (y + Mul(BCb, row[2])) % Mod
  IN  Place(at, r, g, b)
YCCKToCMYK(row) ==
  LET rgb == YCbCrToRGB(row, <<1, 2, 3, 0>>)
  IN  [c \in 1 .. 4 |-> IF c = 4 THEN row[4] ELSE (-Of255 - rgb[c]) % Mod]

\* RGBToBGR, ...RGBA, ...BGRA, ...ARGB, ...ABGR, and GrayscaleToRGB, ...RGBA, ...ARGB.
RGBTo(row, at) == Place(at, row[1], row[2], row[3])
GrayscaleTo(row, at) == Place(at, row[1], row[1], row[1])

NoTransform == <<>>

\* Mutant: the channels of an extension are taken in the order of RGB.
EncoderTransformInOrder(row, in, jpeg) ==
  CASE jpeg = in -> row
    [] jpeg \in {"GRAYSCALE", "YCbCr"} /\ IsRGB(in) -> RGBToYCbCr(row, <<1, 2, 3, 0>>, 128)
    [] OTHER -> NoTransform

\* ChooseColorTransform(j_compress_ptr): the transformed pixel, or that there is no transform.
EncoderTransform(row, in, jpeg) ==
  CASE jpeg = in -> row
    [] jpeg = "GRAYSCALE" /\ in \in {"YCbCr", "YCCK"} -> row
    [] jpeg \in {"GRAYSCALE", "YCbCr"} /\ IsRGB(in) -> RGBToYCbCr(row, Layout(in), 128)
    [] jpeg = "RGB" /\ in = "GRAYSCALE" -> <<row[1], row[1], row[1]>>
    [] jpeg = "YCbCr" /\ in = "GRAYSCALE" -> <<row[1], 0, 0>>
    [] jpeg = "YCCK" /\ in = "CMYK" -> CMYKToYCCK(row)
    [] OTHER -> NoTransform

\* ChooseColorTransform(j_decompress_ptr)
DecoderTransform(row, jpeg, out) ==
  CASE jpeg = out -> row
    [] jpeg = "GRAYSCALE" /\ IsRGB(out) -> GrayscaleTo(row, Layout(out))
    [] jpeg = "RGB" /\ out = "GRAYSCALE" -> RGBToYCbCr(row, <<1, 2, 3, 0>>, 128)
    [] jpeg = "RGB" /\ IsRGB(out) -> RGBTo(row, Layout(out))
    [] jpeg = "YCbCr" /\ out = "GRAYSCALE" -> row
    [] jpeg = "YCbCr" /\ IsRGB(out) -> YCbCrToRGB(row, Layout(out))
    [] jpeg = "YCCK" /\ out = "CMYK" -> YCCKToCMYK(row)
    [] OTHER -> NoTransform

----------------------------------------------------------------------------
(* Samples in memory: [v, order], v a number of 0 .. top, order the byte order it is in. *)

Top == [UINT8 |-> 255, UINT16 |-> 65535, FLOAT |-> 1]
Orders == {"little", "big"}
Garbage == -1

\* The order of an endianness on a machine of the given order.
OrderOf(endianness, machine) == IF endianness = "native" THEN machine ELSE endianness
InMemory(v, type, endianness, machine) ==
  [v |-> v, order |-> IF type = "UINT8" THEN machine ELSE OrderOf(endianness, machine)]

\* ChooseInputMethod, jpegli_set_output_format: whether bytes are swapped.
swap_endianness(type, endianness, machine) ==
  /\ type # "UINT8"
  /\ \/ endianness = "little" /\ machine # "little"
     \/ endianness = "big" /\ machine = "little"

\* ReadUint8Row..., ReadUint16Row..., ReadFloatRow... for one to four interleaved channels:
\* the sample as of 0 .. 255.
ReadUint8(v) == v
ReadUint16(v) == Mul(v, Div(1, 257))
ReadFloat(v) == Mul(v, 255)
ReadSample(s, type, swap, machine) ==
  IF (s.order # machine) # swap THEN Garbage
  ELSE CASE type = "UINT8" -> ReadUint8(s.v) [] type = "UINT16" -> ReadUint16(s.v)
         [] type = "FLOAT" -> ReadFloat(s.v)

\* DecenterRow, StoreUnsignedRow or StoreFloatRow of a sample of the decoder.
WriteSample(x, type, swap, machine) ==
  LET unit == (x + Mul(128, Of255)) % Mod
  IN  [v |-> Mul(unit, Top[type] % Mod),
       order |-> IF swap THEN CHOOSE o \in Orders : o # machine ELSE machine]

----------------------------------------------------------------------------
\* A case: [pixel, in, jpeg, jfif, out, read, write, machine], pixel as the channels of the
\* input space in 0 .. 255; read and write are [type, endianness].
Color(pixel, space) ==   \* red, green and blue, or what the space has for itself
  CASE space = "GRAYSCALE" -> <<"gray", pixel[1]>>
    [] IsRGB(space) -> <<"rgb", pixel[Layout(space)[1]], pixel[Layout(space)[2]], pixel[Layout(space)[3]]>>
    [] OTHER -> <<space>> \o pixel

\* What a grayscale image keeps of a color.
InGray(c) == <<"gray", IF c[1] = "rgb" THEN Luma(c[2], c[3], c[4]) ELSE c[2]>>

\* A color of the luma and chroma spaces, in the space that it stands for.
Meant(c) ==
  LET rgb == YCbCrToRGB(<<c[2], (c[3] - 128) % Mod, (c[4] - 128) % Mod>>, <<1, 2, 3, 0>>)
  IN  CASE c[1] = "YCbCr" -> <<"rgb">> \o rgb
        [] c[1] = "YCCK" -> <<"CMYK">> \o [i \in 1 .. 4 |-> IF i = 4 THEN c[5] ELSE (255 - rgb[i]) % Mod]
        [] c[1] = "gray" -> <<"rgb", c[2], c[2], c[2]>>
        [] OTHER -> c

\* The output shows the color of the input, or its gray.
SameColor(c, d) == Meant(c) = Meant(d) \/ d = InGray(c)

Encoded(case) ==
  LET Sample(v) == InMemory(CASE case.read.type = "UINT8" -> v [] case.read.type = "UINT16" -> 257 * v
                              [] case.read.type = "FLOAT" -> Mul(v, Of255),
                            case.read.type, case.read.endianness, case.machine)
      swap == swap_endianness(case.read.type, case.read.endianness, case.machine)
      row == [c \in DOMAIN case.pixel |-> ReadSample(Sample(case.pixel[c]), case.read.type, swap, case.machine)]
      coded == EncoderTransform(row, case.in, case.jpeg)
  IN  \* ComputeCoefficientBlock and the dequantization: centered, and over 255.
      [c \in DOMAIN coded |-> Mul((coded[c] - 128) % Mod, Of255)]

\* What the application gets, read as numbers of 0 .. 255; <<>> when the decoder refuses.
Decoded(case) ==
  LET header == Header(case.jpeg, Len(case.pixel), case.jfif)
      jpeg == jpeg_color_space(header)
      rows == SubSeq(Encoded(case), 1, header.components)
      out == DecoderTransform(rows, jpeg, case.out)
      swap == swap_endianness(case.write.type, case.write.endianness, case.machine)
      Value(s) == IF s.order # OrderOf(case.write.endianness, case.machine) /\ case.write.type # "UINT8"
                  THEN Garbage ELSE Mul(s.v, Div(255, Top[case.write.type] % Mod))
      shown == IF case.out = "GRAYSCALE" /\ Len(out) > 1 THEN SubSeq(out, 1, 1) ELSE out
  IN  [c \in DOMAIN shown |-> Value(WriteSample(shown[c], case.write.type, swap, case.machine))]

\* The encoder takes the case: the components match and there is a transform.
EncoderAccepts(case) ==
  /\ CheckColorSpaceComponents(Len(case.pixel), case.in)
  /\ EncoderTransform(case.pixel, case.in, case.jpeg) # NoTransform

\* A color that went through the encoder and the decoder comes back, in the places and the
\* byte order of the format that the application asked for, and opaque.
ColorComesBack(case) ==
  LET out == Decoded(case)
  IN  (EncoderAccepts(case) /\ out # <<>>) =>
        /\ LET c == Color(case.pixel, case.in)
           IN  SameColor(IF case.jpeg = "GRAYSCALE" THEN InGray(c) ELSE c, Color(out, case.out))
        /\ Len(out) = 4 /\ IsRGB(case.out) => out[Layout(case.out)[4]] = 255
=============================================================================
