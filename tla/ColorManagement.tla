-------------------------- MODULE ColorManagement --------------------------
(***************************************************************************)
(* Colour encodings, ICC profiles and colour transforms: lib/cms and the   *)
(* textual descriptions of lib/extras/dec.                                 *)
(*                                                                         *)
(* A ColorEncoding is a set of enumerators with custom values beside them; *)
(* it is written out as an ICC profile (MaybeCreateProfile), read back     *)
(* from one (JpegliCmsSetFieldsFromICC), printed (ColorEncodingDescription *)
(* Impl) and parsed (ParseDescription), each by code of its own, and       *)
(* JpegliCmsInit plans a transform between two profiles from the fields it *)
(* recognised in them.  A chromaticity is the name of a point; the named   *)
(* points are D65, E, DCI and the primaries SRGB, 2100, P3.  An exponent   *)
(* is a multiple of 1 / kGammaMul.  skcms, which parses profiles and       *)
(* applies matrices and curves, is external and modelled by what it says   *)
(* of a profile.                                                           *)
(***************************************************************************)
EXTENDS Integers, Sequences, FiniteSets, TLC, SequencesExt

CONSTANT Enable3DToneMapping  \* JPEGLI_ENABLE_3D_ICC_TONEMAPPING

-----------------------------------------------------------------------------
(* Fields of an encoding *)

kGammaMul == 10000000
kMaxGamma == 8192
None      == "none"           \* an absent tag, a value that was never set
Failed    == [failed |-> TRUE]

TransferFunctions == <<"709", "Unknown", "Linear", "SRGB", "PQ", "DCI", "HLG">>
WhitePoints       == {"D65", "E", "DCI"}
NamedPrimaries    == {"SRGB", "2100", "P3"}

\* CustomTransferFunction.
TransferFunction(f) == [have_gamma |-> FALSE, gamma |-> 0, transfer_function |-> f]

ApproxEq(a, b) == a - b <= kGammaMul \div 1000 /\ b - a <= kGammaMul \div 1000

SetGamma(g) ==
  CASE g <= kGammaMul \div kMaxGamma \/ g > kGammaMul -> Failed
    [] ApproxEq(g, kGammaMul)                     -> TransferFunction("Linear")
    [] ApproxEq(g, (kGammaMul * 10) \div 26)      -> TransferFunction("DCI")
    [] OTHER -> [have_gamma |-> TRUE, gamma |-> g, transfer_function |-> "Unknown"]

Is(tf, f) == ~tf.have_gamma /\ tf.transfer_function = f

SameFunction(a, b) ==
  /\ a.have_gamma = b.have_gamma
  /\ IF a.have_gamma THEN a.gamma = b.gamma ELSE a.transfer_function = b.transfer_function

\* A ColorEncoding as its constructor leaves it.
DefaultEncoding ==
  [color_space |-> "RGB", white_point |-> "D65", white |-> None, primaries |-> "SRGB",
   rgb |-> None, tf |-> TransferFunction("SRGB"), rendering_intent |-> "Rel", cmyk |-> FALSE]

HasPrimaries(c) == c.color_space \notin {"Gray", "XYB"}
Channels(c)     == IF c.color_space = "Gray" THEN 1 ELSE 3

GetWhitePoint(c) == IF c.white_point = "Custom" THEN c.white ELSE c.white_point
GetPrimaries(c)  == IF c.primaries = "Custom" THEN c.rgb ELSE c.primaries

SetWhitePoint(c, xy) ==
  CASE xy = None           -> Failed
    [] xy \in WhitePoints  -> [c EXCEPT !.white_point = xy]
    [] OTHER               -> [c EXCEPT !.white_point = "Custom", !.white = xy]

SetPrimaries(c, xy) ==
  CASE xy = None             -> Failed
    [] xy \in NamedPrimaries -> [c EXCEPT !.primaries = xy]
    [] OTHER                 -> [c EXCEPT !.primaries = "Custom", !.rgb = xy]

SameColorSpace(a, b) ==
  /\ a.color_space = b.color_space
  /\ a.white_point = b.white_point
  /\ a.white_point = "Custom" => a.white = b.white
  /\ HasPrimaries(a) => /\ a.primaries = b.primaries
                        /\ a.primaries = "Custom" => a.rgb = b.rgb

SameColorEncoding(a, b) ==
  SameColorSpace(a, b) /\ SameFunction(a.tf, b.tf) /\ ~a.cmyk /\ ~b.cmyk

-----------------------------------------------------------------------------
(* JpegliColorEncoding, the form of the public interface *)

\* The values a zeroed JpegliColorEncoding has.
ZeroExternal ==
  [color_space |-> "RGB", white_point |-> None, white_point_xy |-> None, primaries |-> None,
   primaries_xy |-> None, transfer_function |-> None, gamma |-> 0, rendering_intent |-> "Per"]

ToExternal(c) ==
  LET hasPrimaries == c.color_space \in {"RGB", "Unknown"} IN
  [color_space       |-> c.color_space,
   white_point       |-> c.white_point,
   white_point_xy    |-> GetWhitePoint(c),
   primaries         |-> IF hasPrimaries THEN c.primaries ELSE None,
   primaries_xy      |-> IF hasPrimaries THEN GetPrimaries(c) ELSE None,
   transfer_function |-> IF c.tf.have_gamma THEN "Gamma" ELSE c.tf.transfer_function,
   gamma             |-> IF c.tf.have_gamma THEN c.tf.gamma ELSE 0,
   rendering_intent  |-> c.rendering_intent]

\* FromExternal on encoding c; an invalid enumerator or custom value fails.
FromExternal(c, external) ==
  LET spaced == [c EXCEPT !.color_space = external.color_space]
      white  == CASE external.white_point = None     -> Failed
                  [] external.white_point = "Custom" -> SetWhitePoint(spaced, external.white_point_xy)
                  [] OTHER -> [spaced EXCEPT !.white_point = external.white_point]
      colored == CASE white = Failed \/ external.color_space \notin {"RGB", "Unknown"} -> white
                   [] external.primaries = None     -> Failed
                   [] external.primaries = "Custom" -> SetPrimaries(white, external.primaries_xy)
                   [] OTHER -> [white EXCEPT !.primaries = external.primaries]
      tf == CASE external.transfer_function = "Gamma" -> SetGamma(external.gamma)
              [] external.transfer_function = None    -> Failed
              [] OTHER -> TransferFunction(external.transfer_function)
  IN IF colored = Failed \/ tf = Failed
     THEN Failed
     ELSE [colored EXCEPT !.tf = tf, !.rendering_intent = external.rendering_intent]

-----------------------------------------------------------------------------
(* Descriptions, as the sequence of the tokens between the underscores: a  *)
(* name of the tables both directions share, a point or an exponent        *)

Name(v)  == <<"name", v>>
Point(v) == <<"xy", v>>

\* ColorEncodingDescriptionImpl has a single name for the common encodings.
ShortName(c) ==
  IF c.color_space # "RGB" \/ c.white_point # "D65" THEN None
  ELSE CASE <<c.rendering_intent, c.primaries, c.transfer_function>> = <<"Per", "SRGB", "SRGB">> -> "sRGB"
         [] <<c.rendering_intent, c.primaries, c.transfer_function>> = <<"Per", "P3", "SRGB">>   -> "DisplayP3"
         [] <<c.rendering_intent, c.primaries, c.transfer_function>> = <<"Rel", "2100", "PQ">>   -> "Rec2100PQ"
         [] <<c.rendering_intent, c.primaries, c.transfer_function>> = <<"Rel", "2100", "HLG">>  -> "Rec2100HLG"
         [] OTHER -> None

ColorEncodingDescriptionImpl(c) ==
  LET Optional(present, token) == IF present THEN <<token>> ELSE <<>>
      explicit_wp_tf == c.color_space # "XYB"
  IN IF ShortName(c) # None
     THEN <<Name(ShortName(c))>>
     ELSE <<Name(c.color_space)>>
          \o Optional(explicit_wp_tf, IF c.white_point = "Custom" THEN Point(c.white_point_xy)
                                                                  ELSE Name(c.white_point))
          \o Optional(c.color_space \notin {"Gray", "XYB"},
                      IF c.primaries = "Custom" THEN Point(c.primaries_xy) ELSE Name(c.primaries))
          \o <<Name(c.rendering_intent)>>
          \o Optional(explicit_wp_tf, IF c.transfer_function = "Gamma" THEN <<"g", c.gamma>>
                                                                       ELSE Name(c.transfer_function))

\* ParseDescription replaces a short name by the description it stands for.
Expanded(tokens) ==
  LET RGB_D65(pr, tf) == <<Name("RGB"), Name("D65"), pr, Name("Rel"), tf>> IN
  CASE tokens = <<Name("sRGB")>>       -> RGB_D65(Name("SRGB"), Name("SRGB"))
    [] tokens = <<Name("DisplayP3")>>  -> RGB_D65(Name("P3"), Name("SRGB"))
    [] tokens = <<Name("Adobe98")>>    -> RGB_D65(Point("Ado"), <<"g", (kGammaMul \div 563) * 256>>)
    [] tokens = <<Name("Rec2100PQ")>>  -> RGB_D65(Name("2100"), Name("PQ"))
    [] tokens = <<Name("Rec2100HLG")>> -> RGB_D65(Name("2100"), Name("HLG"))
    [] OTHER -> tokens

\* Where the rendering intent stands: after the tokens the color space needs.
IntentToken(color_space) ==
  CASE color_space = "XYB" -> 2 [] color_space = "Gray" -> 3 [] OTHER -> 4

ParseDescription(description) ==
  LET tokens == Expanded(description)
      cs     == tokens[1][2]
      intent == IntentToken(cs)
      Token(i) == IF i <= Len(tokens) THEN tokens[i] ELSE Name(None)
      wp == IF cs = "XYB" THEN Name("D65") ELSE Token(2)
      pr == IF cs \in {"Gray", "XYB"} THEN Name(None) ELSE Token(3)
      tf == IF cs = "XYB" THEN <<"g", kGammaMul \div 3>> ELSE Token(intent + 1)
  IN [color_space       |-> cs,
      white_point       |-> IF wp[1] = "xy" THEN "Custom" ELSE wp[2],
      white_point_xy    |-> IF wp[1] = "xy" THEN wp[2] ELSE None,
      primaries         |-> IF pr[1] = "xy" THEN "Custom" ELSE pr[2],
      primaries_xy      |-> IF pr[1] = "xy" THEN pr[2] ELSE None,
      rendering_intent  |-> Token(intent)[2],
      transfer_function |-> IF tf[1] = "g" THEN "Gamma" ELSE tf[2],
      gamma             |-> IF tf[1] = "g" THEN tf[2] ELSE 0]

-----------------------------------------------------------------------------
(* ICC profiles *)

\* CICP code points of the enumerators.
CICPPrimaries == [SRGB |-> 1, P3 |-> 11, P3_D65 |-> 12] @@ [x \in {"2100"} |-> 9]
CICPTransfer  == [Linear |-> 8, SRGB |-> 13, PQ |-> 16, DCI |-> 17, HLG |-> 18]
                   @@ [x \in {"709"} |-> 1]

\* CanToneMap: a CICP tag will identify the encoding, so that the rest of the
\* profile may hold a tone-mapping table.
CanToneMap(c) ==
  /\ c.color_space = "RGB" /\ c.transfer_function \in {"PQ", "HLG"}
  /\ \/ c.primaries = "P3" /\ c.white_point \in {"D65", "DCI"}
     \/ c.primaries # "Custom" /\ c.white_point = "D65"

\* MaybeCreateICCCICPTag: <<primaries, transfer, matrix, full range>>.
CICPTag(c) ==
  LET primaries ==
        CASE c.color_space # "RGB"                             -> 0
          [] c.primaries = "P3" /\ c.white_point = "D65"        -> CICPPrimaries["P3_D65"]
          [] c.primaries = "P3" /\ c.white_point = "DCI"        -> CICPPrimaries["P3"]
          [] c.primaries = "P3"                                 -> 0
          [] c.primaries # "Custom" /\ c.white_point = "D65"    -> CICPPrimaries[c.primaries]
          [] OTHER                                              -> 0
  IN IF primaries = 0 \/ c.transfer_function \in {"Unknown", "Gamma"}
     THEN <<>>
     ELSE <<primaries, CICPTransfer[c.transfer_function], 0, 1>>

\* The curve written for a transfer function.
Curve(c) ==
  CASE c.transfer_function = "Gamma"  -> <<"power", c.gamma>>
    [] c.transfer_function = "Linear" -> <<"power", kGammaMul>>
    [] c.transfer_function = "DCI"    -> <<"power", (kGammaMul * 10) \div 26>>
    [] OTHER                          -> <<"curve", c.transfer_function>>

\* MaybeCreateProfileImpl.  A matrix column is the primaries' points adapted
\* from their white point to D50; white is what the chad tag adapts from.
MaybeCreateProfile(c) ==
  IF \/ c.color_space = "Unknown" \/ c.transfer_function = "Unknown"
     \/ c.color_space = "XYB" /\ c.rendering_intent # "Per"
  THEN Failed
  ELSE [data_color_space |-> IF c.color_space = "Gray" THEN "GRAY" ELSE "RGB",
        intent |-> c.rendering_intent,
        cicp   |-> CICPTag(c),
        wtpt   |-> IF c.color_space = "Gray" THEN c.white_point_xy ELSE "D50",
        chad   |-> IF c.color_space = "Gray" THEN None ELSE c.white_point_xy,
        matrix |-> IF c.color_space = "RGB" THEN <<c.primaries_xy, c.white_point_xy>> ELSE <<>>,
        a2b    |-> CASE c.color_space = "XYB"                -> "XYB"
                     [] Enable3DToneMapping /\ CanToneMap(c) -> "ToneMap"
                     [] OTHER                                -> None,
        trc    |-> IF c.color_space = "XYB" \/ (Enable3DToneMapping /\ CanToneMap(c))
                   THEN <<>> ELSE <<Curve(c), Curve(c), Curve(c)>>]

-----------------------------------------------------------------------------
(* Reading a profile *)

\* skcms: what a profile converts its samples with.
Meaning(p) == <<p.data_color_space, p.matrix, p.trc, p.a2b>>

ColorSpaceFromProfile(p) ==
  CASE p.data_color_space \in {"RGB", "CMYK"} -> "RGB"
    [] p.data_color_space = "GRAY"            -> "Gray"
    [] OTHER                                  -> "Unknown"

\* The white point before its adaptation to D50.
UnadaptedWhitePoint(p) == IF p.wtpt = None \/ p.chad = None THEN p.wtpt ELSE p.chad

\* IdentifyPrimaries undoes the adaptation that the chad tag, or the white
\* point itself, tells: with the wrong white point no named primaries appear.
IdentifyPrimaries(p, wp_unadapted, c) ==
  CASE ~HasPrimaries(c)               -> c
    [] p.matrix = <<>>                -> SetPrimaries(c, "out of a table")
    [] p.matrix[2] # wp_unadapted     -> SetPrimaries(c, "misadapted")
    [] OTHER                          -> SetPrimaries(c, p.matrix[1])

IsApproximatelyEqual(p, c) ==
  LET test == MaybeCreateProfile(ToExternal(c))
  IN test # Failed /\ Meaning(test) = Meaning(p)

\* The exponent of the first curve, which the code reads for all three, and
\* else the first transfer function whose profile is the same.
DetectTransferFunction(p, c) ==
  LET With(tf)  == [c EXCEPT !.tf = tf]
      power     == p.trc # <<>> /\ p.trc[1][1] = "power"
      exponent  == IF power THEN SetGamma(p.trc[1][2]) ELSE Failed
      matching  == SelectSeq(TransferFunctions, LAMBDA f :
                     f # "Unknown" /\ IsApproximatelyEqual(p, With(TransferFunction(f))))
  IN CASE exponent # Failed /\ IsApproximatelyEqual(p, With(exponent)) -> With(exponent)
       [] matching # <<>>                    -> With(TransferFunction(Head(matching)))
       [] OTHER                              -> With(TransferFunction("Unknown"))

\* ApplyCICP: a code point is an enumerator, P3 has one for each white point.
ApplyCICP(cicp, c) ==
  LET pr == {n \in DOMAIN CICPPrimaries : CICPPrimaries[n] = cicp[1]}
      tf == {n \in DOMAIN CICPTransfer : CICPTransfer[n] = cicp[2]}
      known == CHOOSE n \in pr : TRUE
  IN IF cicp[3] # 0 \/ cicp[4] # 1 \/ pr = {} \/ tf = {}
     THEN Failed
     ELSE [c EXCEPT !.color_space = "RGB", !.tf = TransferFunction(CHOOSE n \in tf : TRUE),
                    !.white_point = IF known = "P3" THEN "DCI" ELSE "D65",
                    !.primaries = IF known = "P3_D65" THEN "P3" ELSE known]

\* JpegliCmsSetFieldsFromICC and the ColorEncoding::SetFieldsFromICC around it.
SetFieldsFromICC(p) ==
  LET start  == [DefaultEncoding EXCEPT !.rendering_intent = p.intent]
      direct == IF p.cicp # <<>> THEN ApplyCICP(p.cicp, start) ELSE Failed
      spaced == [start EXCEPT !.color_space = ColorSpaceFromProfile(p)]
      wp     == UnadaptedWhitePoint(p)
      white  == SetWhitePoint(spaced, wp)
      found  == IF white = Failed THEN Failed ELSE IdentifyPrimaries(p, wp, white)
      c_enc  == CASE direct # Failed   -> direct
                  [] found = Failed    -> Failed
                  [] OTHER             -> DetectTransferFunction(p, found)
      read   == IF c_enc = Failed THEN Failed ELSE FromExternal(DefaultEncoding, ToExternal(c_enc))
  IN IF read = Failed THEN Failed
     ELSE [read EXCEPT !.cmyk = direct = Failed /\ p.data_color_space = "CMYK"]

-----------------------------------------------------------------------------
(* Transforms.  A sample is known by the color space its values are of, the *)
(* curve they are encoded with, whether they are scene or display light     *)
(* and in how many channels they are stored.                                *)

Wrong == [wrong |-> TRUE]

\* Mutant: the OOTF for an HLG source, not its inverse for an HLG destination.
ApplyHlgOotfForSource(c_src, c_dst) == Is(c_src.tf, "HLG") /\ ~Is(c_dst.tf, "HLG")

\* HLG's OOTF, or its inverse, is needed when exactly one end is HLG.
ApplyHlgOotfFor(c_src, c_dst) == Is(c_src.tf, "HLG") # Is(c_dst.tf, "HLG")

\* Whether the code applies the curve of an end itself.
ExtraFunction(c, otherLinear, other) ==
  \/ Is(c.tf, "PQ") \/ Is(c.tf, "HLG")
  \/ Is(c.tf, "SRGB") /\ otherLinear /\ SameColorSpace(c, other)

Linear(c) == [c EXCEPT !.tf = TransferFunction("Linear")]

\* The fields of both profiles decide which curves are applied by the code
\* itself, with profiles made for the linear samples, and whether the samples
\* need no conversion between them.
Plan(profile_src, profile_dst, c_src, c_dst) ==
  LET MakesLinear(c) == MaybeCreateProfile(ToExternal(Linear(c))) # Failed
      wanted_src == ExtraFunction(c_src, Is(c_dst.tf, "Linear"), c_dst)
      pre  == wanted_src /\ MakesLinear(c_src)
      src  == IF pre THEN Linear(c_src) ELSE c_src
      wanted_dst == ExtraFunction(c_dst, Is(src.tf, "Linear"), src)
      post == wanted_dst /\ MakesLinear(c_dst)
      dst  == IF post THEN Linear(c_dst) ELSE c_dst
      ootf == ApplyHlgOotfFor(c_src, c_dst)
  IN IF \/ c_src = Failed \/ c_dst = Failed
        \/ ootf /\ ((wanted_src /\ ~pre) \/ (wanted_dst /\ ~post))
     THEN Failed
     ELSE [preprocess     |-> IF pre THEN c_src.tf.transfer_function ELSE None,
           postprocess    |-> IF post THEN c_dst.tf.transfer_function ELSE None,
           profile_src    |-> IF pre THEN MaybeCreateProfile(ToExternal(src)) ELSE profile_src,
           profile_dst    |-> IF post THEN MaybeCreateProfile(ToExternal(dst)) ELSE profile_dst,
           skip_lcms      |-> SameColorEncoding(c_src, c_dst) \/ SameColorEncoding(src, dst),
           apply_hlg_ootf |-> ootf,
           hlg_channels   |-> Channels(IF Is(c_src.tf, "HLG") THEN c_src ELSE c_dst),
           channels_src   |-> IF c_src.cmyk THEN 4 ELSE Channels(c_src),
           channels_dst   |-> Channels(c_dst)]

JpegliCmsInit(profile_src, profile_dst) ==
  Plan(profile_src, profile_dst, SetFieldsFromICC(profile_src), SetFieldsFromICC(profile_dst))

\* What the samples of a profile are: its own statement, or what it converts
\* them with.
Space(p) == <<p.data_color_space, IF p.data_color_space = "GRAY" THEN p.wtpt ELSE p.matrix>>
Encoded(p) ==
  IF p.cicp # <<>> /\ p.cicp[2] \in {16, 18}
  THEN <<"curve", IF p.cicp[2] = 16 THEN "PQ" ELSE "HLG">>
  ELSE p.trc[1]
Samples(p) ==
  [space |-> Space(p), curve |-> Encoded(p),
   light |-> IF Encoded(p) = <<"curve", "HLG">> THEN "scene" ELSE "display",
   channels |-> CASE p.data_color_space = "GRAY" -> 1 [] p.data_color_space = "CMYK" -> 4 [] OTHER -> 3]

ApplyHlgOotf(t, s, from, to) ==
  IF s = Wrong \/ ~t.apply_hlg_ootf THEN s
  ELSE IF s.light = from /\ s.channels = t.hlg_channels THEN [s EXCEPT !.light = to] ELSE Wrong

BeforeTransform(t, s) ==
  CASE t.preprocess = None                       -> s
    [] s.curve # <<"curve", t.preprocess>>       -> Wrong
    [] t.preprocess = "HLG" ->
         ApplyHlgOotf(t, [s EXCEPT !.curve = <<"power", kGammaMul>>], "scene", "display")
    [] OTHER                                     -> [s EXCEPT !.curve = <<"power", kGammaMul>>]

AfterTransform(t, s) ==
  CASE s = Wrong \/ t.postprocess = None         -> s
    [] s.curve # <<"power", kGammaMul>>          -> Wrong
    [] t.postprocess = "HLG" ->
         LET scene == ApplyHlgOotf(t, s, "display", "scene")
         IN IF scene = Wrong THEN Wrong ELSE [scene EXCEPT !.curve = <<"curve", "HLG">>]
    [] OTHER                                     -> [s EXCEPT !.curve = <<"curve", t.postprocess>>]

\* skcms_Transform reads and writes three or four channels, with the curves
\* and the matrix or the table of the profiles.
SkcmsTransform(src, dst, s) ==
  IF \/ s = Wrong \/ src.a2b # None \/ dst.a2b # None
     \/ s.space # Space(src) \/ s.channels = 1
     \/ src.trc # <<>> /\ s.curve # src.trc[1]
  THEN Wrong
  ELSE [s EXCEPT !.space = Space(dst), !.curve = dst.trc[1], !.channels = 3]

DoColorSpaceTransform(t, s) ==
  LET before   == BeforeTransform(t, s)
      expanded == IF before # Wrong /\ t.channels_src = 1 /\ ~t.skip_lcms
                  THEN [before EXCEPT !.channels = 3] ELSE before
      moved    == IF t.skip_lcms THEN expanded
                  ELSE SkcmsTransform(t.profile_src, t.profile_dst, expanded)
      gray     == IF moved # Wrong /\ t.channels_dst = 1 /\ ~t.skip_lcms
                  THEN [moved EXCEPT !.channels = 1] ELSE moved
  IN AfterTransform(t, gray)

-----------------------------------------------------------------------------
(* Properties *)

\* A description parses to the same color space and transfer function as the
\* encoding it was made from, and to its rendering intent unless it is one of
\* the single names, which ParseDescription reads with the relative intent.
DescriptionParses(c) ==
  LET parsed == FromExternal(DefaultEncoding, ParseDescription(ColorEncodingDescriptionImpl(ToExternal(c))))
  IN /\ parsed # Failed
     /\ SameColorEncoding(parsed, c)
     /\ ShortName(ToExternal(c)) = None => parsed.rendering_intent = c.rendering_intent

\* A profile made from the fields of an encoding is read back to the same
\* fields, whether its CICP tag, its matrix and curves or, where a
\* tone-mapping table has replaced the curves, the CICP tag alone tells them.
ProfileIsReadBack(c) ==
  \E p \in {MaybeCreateProfile(ToExternal(c))} :
    p # Failed => \E read \in {SetFieldsFromICC(p)} :
                    /\ read # Failed
                    /\ SameColorEncoding(read, c)
                    /\ read.rendering_intent = c.rendering_intent

\* The transform planned for two profiles turns the samples of the one into
\* samples of the other: every curve is undone before the matrices and applied
\* after them exactly once, and scene light becomes display light, or the
\* other way, when exactly one end is HLG.  Two profiles of the same color
\* space whose curves the code recognises neither of are left out:
\* SameColorEncoding takes their unknown transfer functions for the same.
TransformReaches(profile_src, profile_dst) ==
  \E t \in {JpegliCmsInit(profile_src, profile_dst)},
     c_src \in {SetFieldsFromICC(profile_src)}, c_dst \in {SetFieldsFromICC(profile_dst)} :
     \/ t = Failed
     \/ Is(c_src.tf, "Unknown") /\ Is(c_dst.tf, "Unknown") /\ SameColorEncoding(c_src, c_dst)
     \/ DoColorSpaceTransform(t, Samples(profile_src)) = Samples(profile_dst)
=============================================================================
