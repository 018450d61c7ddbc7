----------------------------- MODULE ImageFiles -----------------------------
(***************************************************************************)
(* Pixels in files and in memory: PackedImage, the PNM, PFM, PAM and PGX   *)
(* encoders and decoders of lib/extras, the conversion between packed      *)
(* pixels and planes of floats, and what cjpegli and djpegli do around the *)
(* JPEG library.  A file is a sequence of items: bytes, and the words and  *)
(* numbers of its header, so that a parser still meets pixel bytes that    *)
(* look like white space or a comment.  A number is [n, max], the value    *)
(* n / max; max = 0 for a float with the bit pattern n.  Where the code    *)
(* fails, the result is the empty sequence.                                *)
(***************************************************************************)
EXTENDS Integers, Sequences, FiniteSets, SequencesExt

CONSTANT LittleEndianMachine   \* IsLittleEndian()

----------------------------------------------------------------------------
(* PackedImage *)

BitsPerChannel(t) == CASE t = "UINT8" -> 8 [] t = "UINT16" -> 16 [] t = "FLOAT" -> 32
Width(t) == BitsPerChannel(t) \div 8
IsLittle(endianness) ==
  endianness = "little" \/ (endianness = "native" /\ LittleEndianMachine)

\* The bytes of a number and the number of some bytes (StoreBE16 ... LoadLEFloat).
Store(n, format) ==
  LET w == Width(format.data_type)
      big == [i \in 1 .. w |-> (n \div 256 ^ (w - i)) % 256]
  IN  IF IsLittle(format.endianness) THEN Reverse(big) ELSE big
Load(bytes, format) ==
  FoldLeft(LAMBDA n, b : 256 * n + b, 0,
           IF IsLittle(format.endianness) THEN Reverse(bytes) ELSE bytes)

PixelStride(format) == format.num_channels * Width(format.data_type)
CalcStride(format, xsize) ==
  LET stride == xsize * PixelStride(format)
  IN  IF format.align > 1 THEN ((stride + format.align - 1) \div format.align) * format.align
      ELSE stride

\* A new image: its bytes are not initialised.
Create(xsize, ysize, format) ==
  [xsize |-> xsize, ysize |-> ysize, format |-> format, stride |-> CalcStride(format, xsize),
   pixels |-> [i \in 1 .. ysize * CalcStride(format, xsize) |-> 238]]
PixelBytes(image, y, x, c) ==
  LET w == Width(image.format.data_type)
      at == y * image.stride + x * PixelStride(image.format) + c * w
  IN  SubSeq(image.pixels, at + 1, at + w)
Pixel(image, y, x, c) == Load(PixelBytes(image, y, x, c), image.format)

\* Rows of Len(row) bytes written at a stride.
WithRows(image, rows) ==
  [image EXCEPT !.pixels =
     [i \in DOMAIN @ |-> LET y == (i - 1) \div image.stride + 1
                             x == ((i - 1) % image.stride) + 1
                         IN  IF y \in DOMAIN rows /\ x \in DOMAIN rows[y] THEN rows[y][x]
                             ELSE @[i]]]

ShrinkTo(image, xsize, ysize) ==
  IF xsize > image.xsize \/ ysize > image.ysize THEN image
  ELSE [image EXCEPT !.xsize = xsize, !.ysize = ysize]
Copy(image) ==
  LET copy == Create(image.xsize, image.ysize, image.format)
  IN  WithRows(copy, [y \in 1 .. image.ysize |->
                        SubSeq(image.pixels, (y - 1) * image.stride + 1,
                               (y - 1) * image.stride + copy.stride)])

----------------------------------------------------------------------------
(* Planes of numbers: ConvertChannelsToExternal and ConvertFromExternal *)

\* FloatToU32
Quantized(v, bits) ==
  LET mul == 2 ^ bits - 1
      n == IF v.n > v.max THEN v.max ELSE v.n
  IN  IF v.max = mul THEN n ELSE (2 * n * mul + v.max) \div (2 * v.max)

ConvertChannelsToExternal(planes, format) ==
  LET bits == BitsPerChannel(format.data_type)
      image == Create(Len(planes[1][1]), Len(planes[1]), format)
      Value(v) == IF format.data_type = "FLOAT" THEN v.n ELSE Quantized(v, bits)
      Row(y) == FlattenSeq([x \in 1 .. image.xsize |->
                  FlattenSeq([c \in DOMAIN planes |-> Store(Value(planes[c][y][x]), format)])])
  IN  WithRows(image, [y \in 1 .. image.ysize |-> Row(y)])

ConvertFromExternal(image, bits, c) ==
  LET format == image.format
      row_size == CalcStride(format, image.xsize)
      to_read == row_size * (image.ysize - 1) + image.xsize * PixelStride(format)
      size == Len(image.pixels)
      max == IF format.data_type = "FLOAT" THEN 0 ELSE 2 ^ bits - 1
  IN  IF \/ image.xsize = 0 \/ image.ysize = 0
         \/ (size > 0 /\ size < to_read) \/ size > row_size * image.ysize
         \/ (format.data_type = "UINT8" /\ bits \notin 1 .. 8)
         \/ (format.data_type = "UINT16" /\ bits \notin 9 .. 16)
      THEN <<>>
      ELSE [y \in 1 .. image.ysize |-> [x \in 1 .. image.xsize |->
              [n |-> Pixel([image EXCEPT !.stride = row_size], y - 1, x - 1, c), max |-> max]]]

\* A pixel file: info, the kinds of the extra channels, and one frame.
ConvertImage3FToPackedPixelFile(planes, format) ==
  LET image == ConvertChannelsToExternal(planes, format)
  IN  [xsize |-> image.xsize, ysize |-> image.ysize, num_color_channels |-> 3, alpha_bits |-> 0,
       bits_per_sample |-> BitsPerChannel(format.data_type),
       exponent_bits |-> IF format.data_type = "FLOAT" THEN 8 ELSE 0,
       from_codestream |-> FALSE, ec_types |-> <<>>, color |-> image, extra_channels |-> <<>>,
       color_encoding |-> [color_space |-> "RGB", icc |-> ""]]

DepthOf(ppf) ==
  IF ppf.from_codestream THEN ppf.bits_per_sample ELSE BitsPerChannel(ppf.color.format.data_type)
ConvertPackedPixelFileToImage3F(ppf) ==
  LET planes == [c \in 1 .. ppf.num_color_channels |->
                   ConvertFromExternal(ppf.color, DepthOf(ppf), c - 1)]
  IN  IF \E c \in DOMAIN planes : planes[c] = <<>> THEN <<>>
      ELSE IF Len(planes) = 1 THEN <<planes[1], planes[1], planes[1]>> ELSE planes

----------------------------------------------------------------------------
(* Items of files *)

Byte(v) == [kind |-> "byte", v |-> v]
Num(n)  == [kind |-> "number", v |-> n]
Word(w) == [kind |-> "word", v |-> w]
Bytes(s) == [i \in DOMAIN s |-> Byte(s[i])] \o <<>>
Space == Byte(32)
NL == Byte(10)
LineBreak == {10, 13}
Whitespace == LineBreak \cup {9, 32}

----------------------------------------------------------------------------
(* Encoders: VerifyBasicInfo, VerifyPackedImage, and one per extension *)

Format(num_channels, data_type, endianness) ==
  [num_channels |-> num_channels, data_type |-> data_type, endianness |-> endianness, align |-> 0]

AcceptedFormats(extension) ==
  LET Of(channels, types, orders) ==
        {Format(n, t, e) : n \in channels, t \in types, e \in orders}
      Ints == {"UINT8", "UINT16"}
  IN  CASE extension = ".pgm" -> Of({1}, Ints, {"big"})
        [] extension = ".ppm" -> Of({3}, Ints, {"big"})
        [] extension = ".pnm" -> Of({1, 3}, Ints, {"big"})
        [] extension = ".pfm" -> Of({1, 3}, {"FLOAT"}, {"big", "little"})
        [] extension = ".pam" -> Of(1 .. 4, Ints, {"big"})
        [] extension = ".pgx" -> Of({1}, Ints, {"big", "little"})

VerifyBasicInfo(ppf) ==
  /\ ppf.xsize > 0 /\ ppf.ysize > 0
  /\ ppf.num_color_channels \in {1, 3}
  /\ ppf.alpha_bits \in {0, ppf.bits_per_sample}

VerifyFormat(format, extension) ==
  \E f \in AcceptedFormats(extension) :
    /\ f.num_channels = format.num_channels /\ f.data_type = format.data_type
    /\ f.data_type = "UINT8" \/ f.endianness = format.endianness

VerifyBitDepth(ppf) ==
  CASE ppf.color.format.data_type = "UINT8" -> ppf.bits_per_sample \in 1 .. 8 /\ ppf.exponent_bits = 0
    [] ppf.color.format.data_type = "UINT16" -> ppf.bits_per_sample \in 9 .. 16 /\ ppf.exponent_bits = 0
    [] OTHER -> TRUE

\* Mutant: the size of the buffer is trusted.
VerifyImageSizeTrusting(image, ppf) ==
  image.format.num_channels = ppf.num_color_channels + (IF ppf.alpha_bits > 0 THEN 1 ELSE 0)

VerifyImageSize(image, ppf) ==
  /\ image.stride = image.xsize * PixelStride(image.format)
  /\ Len(image.pixels) = image.ysize * image.stride
  /\ image.format.num_channels = ppf.num_color_channels + (IF ppf.alpha_bits > 0 THEN 1 ELSE 0)

VerifyPackedImage(ppf, extension) ==
  /\ VerifyImageSize(ppf.color, ppf)
  /\ VerifyFormat(ppf.color.format, extension)
  /\ VerifyBitDepth(ppf)

Flipped(image) ==
  FlattenSeq([y \in 1 .. image.ysize |->
                SubSeq(image.pixels, (image.ysize - y) * image.stride + 1,
                       (image.ysize - y + 1) * image.stride)])

\* PNMEncoder::EncodeImage
EncodePNM(image, bits) ==
  <<Word(IF image.format.num_channels = 1 THEN "P5" ELSE "P6"), NL, Num(image.xsize), Space,
    Num(image.ysize), NL, Num(2 ^ bits - 1), NL>> \o Bytes(image.pixels)

\* PFMEncoder::EncodeImage
EncodePFM(image) ==
  <<Word(IF image.format.num_channels = 1 THEN "Pf" ELSE "PF"), NL, Num(image.xsize), Space,
    Num(image.ysize), NL, Word(IF image.format.endianness = "little" THEN "-1.0" ELSE "1.0"), NL>>
  \o Bytes(Flipped(image))

\* PAMEncoder::EncodeFrame
kColorTypes == <<"GRAYSCALE", "GRAYSCALE_ALPHA", "RGB", "RGB_ALPHA">>
EncodePAM(ppf) ==
  LET color == ppf.color
      Field(name, n) == <<Word(name), Space, Num(n), NL>>
      TuplType(name) == <<Word("TUPLTYPE"), Space, Word(name), NL>>
      Interleaved(y, x) ==
        LET at == y * color.stride + x * PixelStride(color.format)
        IN  SubSeq(color.pixels, at + 1, at + PixelStride(color.format)) \o
            FlattenSeq([i \in DOMAIN ppf.extra_channels |->
                          PixelBytes(ppf.extra_channels[i], y, x, 0)])
      n == color.xsize * color.ysize
  IN  IF \E i \in DOMAIN ppf.extra_channels :
           LET ec == ppf.extra_channels[i]
           IN  \/ <<ec.xsize, ec.ysize>> # <<color.xsize, color.ysize>>
               \/ ec.format.data_type # color.format.data_type
               \/ ec.format.endianness # color.format.endianness
      THEN <<>>
      ELSE
        <<Word("P7"), NL>> \o Field("WIDTH", color.xsize) \o Field("HEIGHT", color.ysize)
        \o Field("DEPTH", color.format.num_channels + Len(ppf.ec_types))
        \o Field("MAXVAL", 2 ^ ppf.bits_per_sample - 1)
        \o TuplType(kColorTypes[color.format.num_channels])
        \o FlattenSeq([i \in DOMAIN ppf.ec_types |-> TuplType(ppf.ec_types[i])])
        \o <<Word("ENDHDR"), NL>>
        \o Bytes(IF ppf.extra_channels = <<>> THEN color.pixels
                 ELSE FlattenSeq([i \in 1 .. n |->
                        Interleaved((i - 1) \div color.xsize, (i - 1) % color.xsize)]))

\* EncodeImagePGX: big-endian, whatever the order of the image.
EncodePGX(ppf) ==
  LET format == ppf.color.format
      n == ppf.xsize * ppf.ysize * Width(format.data_type)
      BigEndian == [i \in 1 .. n |-> ppf.color.pixels[IF i % 2 = 1 THEN i + 1 ELSE i - 1]]
  IN  IF \/ ppf.alpha_bits > 0 \/ ppf.num_color_channels # 1
         \/ ppf.bits_per_sample \notin {8, 16}
         \/ ppf.bits_per_sample # BitsPerChannel(format.data_type)
      THEN <<>>
      ELSE <<Word("PG"), Space, Word("ML"), Space, Word("+"), Space, Num(ppf.bits_per_sample), Space,
             Num(ppf.xsize), Space, Num(ppf.ysize), NL>>
           \o Bytes(IF format.data_type = "UINT16" /\ format.endianness # "big" THEN BigEndian
                    ELSE SubSeq(ppf.color.pixels, 1, n))

\* Encoder::Encode: the file of the frame and those of the extra channels.
Encode(ppf, extension) ==
  CASE ~VerifyBasicInfo(ppf) \/ ~VerifyPackedImage(ppf, extension) -> <<>>
    [] extension = ".pfm" -> EncodePFM(ppf.color)
    [] extension = ".pam" -> EncodePAM(ppf)
    [] extension = ".pgx" -> EncodePGX(ppf)
    [] OTHER -> EncodePNM(ppf.color, ppf.bits_per_sample)
EncodeExtraChannels(ppf, extension) ==
  [i \in IF extension = ".pgx" THEN {} ELSE DOMAIN ppf.extra_channels |->
     IF extension = ".pfm" THEN EncodePFM(ppf.extra_channels[i])
     ELSE EncodePNM(ppf.extra_channels[i], ppf.bits_per_sample)]

----------------------------------------------------------------------------
(* The parsers: p is the position and the header so far; ok turns FALSE for good *)

NewParser ==
  [pos |-> 1, ok |-> TRUE, xsize |-> 0, ysize |-> 0, depth |-> 3, max_val |-> 255,
   is_gray |-> FALSE, has_alpha |-> FALSE, floating_point |-> FALSE, big_endian |-> TRUE,
   bits_per_sample |-> 0, ec_types |-> <<>>]

IsByte(f, i, set) == i \in DOMAIN f /\ f[i].kind = "byte" /\ f[i].v \in set
IsWord(f, i, w) == i \in DOMAIN f /\ f[i].kind = "word" /\ f[i].v = w
\* The first position from i on that is not a byte of the set.
PastAll(f, i, set) == CHOOSE j \in i .. Len(f) + 1 : /\ ~IsByte(f, j, set)
                                                    /\ \A k \in i .. j - 1 : IsByte(f, k, set)

ParseUnsigned(f, p, field) ==
  IF p.ok /\ p.pos \in DOMAIN f /\ f[p.pos].kind = "number"
  THEN [p EXCEPT ![field] = f[p.pos].v, !.pos = @ + 1]
  ELSE [p EXCEPT !.ok = FALSE]

\* One byte of a set: SkipSingleWhitespace, SkipBlank, SkipSpace.
SkipOne(f, p, set) ==
  IF p.ok /\ IsByte(f, p.pos, set) THEN [p EXCEPT !.pos = @ + 1] ELSE [p EXCEPT !.ok = FALSE]

\* Comments, each up to its line break, and the line breaks after it.
RECURSIVE SkipComments(_, _)
SkipComments(f, i) ==
  LET end == CHOOSE j \in i .. Len(f) + 1 : /\ j \notin DOMAIN f \/ IsByte(f, j, LineBreak)
                                            /\ \A k \in i .. j - 1 : ~IsByte(f, k, LineBreak)
  IN  IF IsByte(f, i, {35}) THEN SkipComments(f, PastAll(f, end, LineBreak)) ELSE i

SkipWhitespace(f, p) ==
  IF p.ok /\ IsByte(f, p.pos, Whitespace \cup {35})
  THEN [p EXCEPT !.pos = PastAll(f, SkipComments(f, PastAll(f, @, Whitespace)), Whitespace)]
  ELSE [p EXCEPT !.ok = FALSE]

\* MaxVal has to be 2^n - 1 of at most 16 bits.
SetBitsPerSample(p) ==
  LET bits == {n \in 1 .. 16 : 2 ^ n - 1 = p.max_val}
  IN  IF p.ok /\ bits # {} THEN [p EXCEPT !.bits_per_sample = CHOOSE n \in bits : TRUE]
      ELSE [p EXCEPT !.ok = FALSE]

ParseHeaderPNM(f, p) ==
  LET x == ParseUnsigned(f, SkipWhitespace(f, p), "xsize")
      y == ParseUnsigned(f, SkipWhitespace(f, x), "ysize")
      m == ParseUnsigned(f, SkipWhitespace(f, y), "max_val")
  IN  SkipOne(f, SetBitsPerSample(m), Whitespace)

\* The sign of the scale tells the order of the bytes.
ParseHeaderPFM(f, p) ==
  LET x == ParseUnsigned(f, SkipOne(f, p, Whitespace), "xsize")
      y == ParseUnsigned(f, SkipOne(f, x, {10, 32}), "ysize")
      s == SkipOne(f, y, Whitespace)
      scale == IF s.ok /\ (IsWord(f, s.pos, "1.0") \/ IsWord(f, s.pos, "-1.0"))
               THEN [s EXCEPT !.big_endian = IsWord(f, s.pos, "1.0"), !.floating_point = TRUE,
                              !.bits_per_sample = 32, !.pos = @ + 1]
               ELSE [s EXCEPT !.ok = FALSE]
  IN  SkipOne(f, scale, Whitespace)

\* The TUPLTYPEs in the order they are compared: a name that another one starts with comes
\* after it, because a failed comparison may have moved into the word.
kTuplTypes ==
  <<"RGB_ALPHA", "RGB", "GRAYSCALE_ALPHA", "GRAYSCALE", "BLACKANDWHITE_ALPHA", "BLACKANDWHITE",
    "Alpha", "Depth", "SpotColor", "SelectionMask", "Black", "CFA", "Thermal", "Unknown",
    "Optional">>
StartsWith(w, name) ==
  w = name \/ <<w, name>> \in {<<"RGB_ALPHA", "RGB">>, <<"GRAYSCALE_ALPHA", "GRAYSCALE">>,
                               <<"BLACKANDWHITE_ALPHA", "BLACKANDWHITE">>}
SetTuplType(f, p) ==
  LET w == IF p.pos \in DOMAIN f /\ f[p.pos].kind = "word" THEN f[p.pos].v ELSE ""
      first == SelectInSeq(kTuplTypes, LAMBDA name : StartsWith(w, name))
      next == SkipWhitespace(f, [p EXCEPT !.pos = @ + 1])
  IN  IF ~p.ok \/ first = 0 THEN [p EXCEPT !.ok = FALSE]
      ELSE IF kTuplTypes[first] # w THEN [p EXCEPT !.ok = FALSE]
      ELSE IF first > 6 THEN [next EXCEPT !.ec_types = Append(@, w)]
      ELSE [next EXCEPT !.has_alpha = @ \/ first % 2 = 1, !.is_gray = @ \/ first > 2,
                        !.max_val = IF first > 4 THEN 1 ELSE @]

RECURSIVE ParseFieldsPAM(_, _)
ParseFieldsPAM(f, p) ==
  LET value == SkipWhitespace(f, [p EXCEPT !.pos = @ + 1])
      Field(field) == ParseFieldsPAM(f, SkipWhitespace(f, ParseUnsigned(f, value, field)))
  IN  CASE ~p.ok -> p
        [] IsWord(f, p.pos, "ENDHDR") -> SkipOne(f, [p EXCEPT !.pos = @ + 1], Whitespace)
        [] IsWord(f, p.pos, "WIDTH") -> Field("xsize")
        [] IsWord(f, p.pos, "HEIGHT") -> Field("ysize")
        [] IsWord(f, p.pos, "DEPTH") -> Field("depth")
        [] IsWord(f, p.pos, "MAXVAL") -> Field("max_val")
        [] IsWord(f, p.pos, "TUPLTYPE") -> ParseFieldsPAM(f, SetTuplType(f, value))
        [] OTHER -> [p EXCEPT !.ok = FALSE]

ParseHeaderPAM(f, p) ==
  LET num_channels(q) == (IF q.is_gray THEN 1 ELSE 3) + (IF q.has_alpha THEN 1 ELSE 0)
      Checked(q) == IF q.ok /\ num_channels(q) + Len(q.ec_types) = q.depth
                    THEN SetBitsPerSample(q) ELSE [q EXCEPT !.ok = FALSE]
  IN  Checked(ParseFieldsPAM(f, SkipWhitespace(f, p)))

ParseHeader(f) ==
  LET p == [NewParser EXCEPT !.pos = 2]
      gray == [p EXCEPT !.is_gray = TRUE]
  IN  CASE IsWord(f, 1, "P5") -> ParseHeaderPNM(f, gray)
        [] IsWord(f, 1, "P6") -> ParseHeaderPNM(f, p)
        [] IsWord(f, 1, "P7") -> ParseHeaderPAM(f, p)
        [] IsWord(f, 1, "Pf") -> ParseHeaderPFM(f, gray)
        [] IsWord(f, 1, "PF") -> ParseHeaderPFM(f, p)

ParseHeaderPGX(f) ==
  LET p == SkipOne(f, [NewParser EXCEPT !.pos = 2, !.is_gray = TRUE], {32})
      order == [p EXCEPT !.ok = @ /\ (IsWord(f, p.pos, "ML") \/ IsWord(f, p.pos, "LM")),
                         !.big_endian = IsWord(f, p.pos, "ML"), !.pos = @ + 1]
      sign == SkipOne(f, order, {32})
      \* A "-" is read and refused: signed samples are not supported.
      signed == [sign EXCEPT !.ok = @ /\ IsWord(f, sign.pos, "+"), !.pos = @ + 1]
      b == ParseUnsigned(f, [signed EXCEPT !.pos = IF IsByte(f, @, {32}) THEN @ + 1 ELSE @],
                         "bits_per_sample")
      x == ParseUnsigned(f, SkipOne(f, b, Whitespace), "xsize")
      y == ParseUnsigned(f, SkipOne(f, x, Whitespace), "ysize")
      line == [y EXCEPT !.pos = IF IsByte(f, @, {13}) /\ IsByte(f, @ + 1, {10}) THEN @ + 1 ELSE @]
      end == SkipOne(f, line, {10})
  IN  [end EXCEPT !.ok = @ /\ end.bits_per_sample <= 16]

\* ApplyColorHints: a hint of the command line names the color space or gives a profile.
\* ParseDescription is in ColorManagement: the value is what it returns, "" if it fails.
ApplyColorHints(ppf, hints) ==
  LET is_gray == ppf.num_color_channels = 1
      Default == [color_space |-> IF is_gray THEN "Gray" ELSE "RGB", icc |-> ""]
      Bad(h) == h.key = "color_space" /\ (h.value = "" \/ is_gray # (h.value = "Gray"))
  IN  IF \E i \in DOMAIN hints : Bad(hints[i]) THEN <<>>
      ELSE <<[ppf EXCEPT !.color_encoding =
               FoldLeft(LAMBDA c, h : [c EXCEPT ![h.key] = h.value], Default, hints)]>>

\* The frame and the extra channels of the pixels from position pos on.
ReadPixels(f, p, num_ec) ==
  LET channels == (IF p.is_gray THEN 1 ELSE 3) + (IF p.has_alpha THEN 1 ELSE 0)
      type == IF p.floating_point THEN "FLOAT" ELSE IF p.bits_per_sample > 8 THEN "UINT16" ELSE "UINT8"
      format == Format(channels, type, IF p.big_endian THEN "big" ELSE "little")
      w == Width(type)
      all == w * (channels + num_ec)
      row == w * channels * p.xsize
      At(pixel, from, n) == [i \in 1 .. n |-> f[p.pos + (pixel - 1) * all + from + i - 1].v]
      Whole == [i \in 1 .. row * p.ysize |-> f[p.pos + i - 1].v] \o <<>>
      Channel(from, n) == FlattenSeq([i \in 1 .. p.xsize * p.ysize |-> At(i, from, n)])
      image == Create(p.xsize, p.ysize, format)
      color == IF num_ec > 0 THEN Channel(0, w * channels)
               ELSE IF p.bits_per_sample = 32
               THEN Flipped([image EXCEPT !.pixels = Whole])   \* PFMs are flipped
               ELSE Whole
      ec == Create(p.xsize, p.ysize, [format EXCEPT !.num_channels = 1])
  IN  [color |-> [image EXCEPT !.pixels = color],
       extra_channels |-> [i \in 1 .. num_ec |->
                             [ec EXCEPT !.pixels = Channel(w * (channels + i - 1), w)]]]

\* DecodeImagePNM and DecodeImagePGX, of a parsed header.
DecodeImage(f, p, hints, pgx) ==
  LET channels == (IF p.is_gray THEN 1 ELSE 3) + (IF p.has_alpha THEN 1 ELSE 0) + Len(p.ec_types)
      w == IF p.floating_point THEN 4 ELSE IF p.bits_per_sample > 8 THEN 2 ELSE 1
      pixels == ReadPixels(f, p, Len(p.ec_types))
  IN  IF \/ ~p.ok \/ p.xsize = 0 \/ p.ysize = 0 \/ p.bits_per_sample \notin 1 .. 32
         \/ Len(f) - p.pos + 1 < p.xsize * p.ysize * channels * w
      THEN <<>>
      ELSE ApplyColorHints(
             [xsize |-> p.xsize, ysize |-> p.ysize, bits_per_sample |-> p.bits_per_sample,
              exponent_bits |-> IF p.floating_point THEN 8 ELSE 0,
              alpha_bits |-> IF p.has_alpha THEN p.bits_per_sample ELSE 0,
              num_color_channels |-> IF p.is_gray THEN 1 ELSE 3,
              from_codestream |-> ~pgx /\ ~p.floating_point, ec_types |-> p.ec_types,
              color |-> pixels.color, extra_channels |-> pixels.extra_channels,
              color_encoding |-> 0], hints)

\* DetectCodec, of the files above; the signatures of the other formats are bytes.
DetectCodec(f) ==
  CASE IsWord(f, 1, "PG") /\ IsByte(f, 2, {32}) /\ (IsWord(f, 3, "ML") \/ IsWord(f, 3, "LM"))
         /\ IsByte(f, 4, {32}) /\ (IsWord(f, 5, "+") \/ IsWord(f, 5, "-")) -> "PGX"
    [] \E w \in {"P5", "P6", "P7", "PF", "Pf"} : IsWord(f, 1, w) -> "PNM"
    [] OTHER -> "Unknown"

DecodeBytes(f, hints) ==
  CASE DetectCodec(f) = "PGX" -> DecodeImage(f, ParseHeaderPGX(f), hints, TRUE)
    [] DetectCodec(f) = "PNM" -> DecodeImage(f, ParseHeader(f), hints, FALSE)
    [] OTHER -> <<>>

\* GetColorEncoding: a profile that cannot be parsed ("bad") is replaced by sRGB.
GetColorEncoding(ppf) ==
  LET is_gray == ppf.num_color_channels = 1
      icc == ppf.color_encoding.icc
      sRGB == <<IF is_gray THEN "Gray" ELSE "RGB">>
  IN  CASE icc = "" -> <<ppf.color_encoding.color_space>>
        [] icc = "bad" -> sRGB
        [] icc = "cmyk" \/ is_gray # (icc = "gray") -> <<>>
        [] OTHER -> sRGB

----------------------------------------------------------------------------
(* cjpegli and djpegli around the JPEG library, which keeps its samples here *)

\* SetDecompressParams
DecompressParams(extension, bitdepth) ==
  [output_data_type |-> IF extension = ".pfm" THEN "FLOAT"
                        ELSE IF bitdepth = 16 THEN "UINT16" ELSE "UINT8",
   output_endianness |-> IF extension = ".pfm" \/ bitdepth = 16 THEN "big" ELSE "native",
   force_grayscale |-> extension = ".pgm", force_rgb |-> extension = ".ppm"]

\* jpeg.components, and jpeg.rows[number of output components][data type]: samples as rows of
\* pixels of integers.
DecodeJpeg(jpeg, params) ==
  LET n == CASE params.force_rgb -> 3 [] params.force_grayscale -> 1 [] OTHER -> jpeg.components
      type == params.output_data_type
      rows == jpeg.rows[n][type]
      format == [Format(n, type, params.output_endianness) EXCEPT !.align = 0]
      image == Create(Len(rows[1]), Len(rows), format)
      Row(y) == FlattenSeq([x \in 1 .. image.xsize |->
                  FlattenSeq([c \in 1 .. n |-> Store(rows[y][x][c], format)])])
  IN  IF jpeg.components \notin {1, 3} THEN <<>>
      ELSE <<[xsize |-> image.xsize, ysize |-> image.ysize, bits_per_sample |-> BitsPerChannel(type),
              exponent_bits |-> IF type = "FLOAT" THEN 8 ELSE 0, alpha_bits |-> 0,
              num_color_channels |-> n, from_codestream |-> FALSE, ec_types |-> <<>>,
              color |-> WithRows(image, [y \in 1 .. image.ysize |-> Row(y)]),
              extra_channels |-> <<>>, color_encoding |-> [color_space |-> "", icc |-> ""]]>>

DJpegliMain(jpeg, extension, bitdepth) ==
  LET ppf == DecodeJpeg(jpeg, DecompressParams(extension, bitdepth))
      written == IF extension # ".pnm" THEN extension
                 ELSE IF ppf[1].num_color_channels = 3 THEN ".ppm" ELSE ".pgm"
  IN  IF bitdepth \notin {8, 16} \/ ppf = <<>> THEN <<>> ELSE Encode(ppf[1], written)

\* VerifyInput of EncodeJpeg: one frame of the size of the image, of full depth.
VerifyInput(ppf) ==
  /\ VerifyBasicInfo(ppf) /\ VerifyImageSize(ppf.color, ppf) /\ VerifyBitDepth(ppf)
  /\ ppf.color.xsize = ppf.xsize /\ ppf.color.ysize = ppf.ysize
  /\ ppf.color.format.data_type # "FLOAT" =>
       ppf.bits_per_sample = BitsPerChannel(ppf.color.format.data_type)

\* The rows that EncodeJpeg hands to jpegli_write_scanlines: whole, or without the alpha.
FedRows(ppf) ==
  LET image == ppf.color
      from == PixelStride(image.format)
      to == ppf.num_color_channels * Width(image.format.data_type)
      Row(y) == SubSeq(image.pixels, y * image.stride + 1, (y + 1) * image.stride)
  IN  IF ~VerifyInput(ppf) THEN <<>>
      ELSE IF from = to THEN [y \in 1 .. ppf.ysize |-> Row(y - 1)]
      ELSE [y \in 1 .. ppf.ysize |->
              FlattenSeq([x \in 1 .. ppf.xsize |->
                            SubSeq(Row(y - 1), (x - 1) * from + 1, (x - 1) * from + to)])]

\* ToFloatRow: the rows as numbers, in XYB mode.
FloatRows(ppf) ==
  [y \in 1 .. ppf.ysize |-> [x \in 1 .. ppf.xsize |-> [c \in 1 .. ppf.num_color_channels |->
     [n |-> Pixel(ppf.color, y - 1, x - 1, c - 1),
      max |-> IF ppf.color.format.data_type = "FLOAT" THEN 0
              ELSE 2 ^ BitsPerChannel(ppf.color.format.data_type) - 1]]]]

----------------------------------------------------------------------------
(* Properties *)

\* The numbers of a pixel file, channel by channel, as a reader of its format sees them.
Numbers(ppf) ==
  [y \in 1 .. ppf.ysize |-> [x \in 1 .. ppf.xsize |->
     [c \in 1 .. ppf.color.format.num_channels |-> Pixel(ppf.color, y - 1, x - 1, c - 1)]]]
ExtraNumbers(ppf) ==
  [i \in DOMAIN ppf.extra_channels |-> [y \in 1 .. ppf.ysize |-> [x \in 1 .. ppf.xsize |->
     Pixel(ppf.extra_channels[i], y - 1, x - 1, 0)]]]

\* The samples that cjpegli hands to the library, which reads them in the format of the image.
FedNumbers(ppf) ==
  LET fed == [ppf.color EXCEPT !.pixels = FlattenSeq(FedRows(ppf)),
                !.format.num_channels = ppf.num_color_channels,
                !.stride = ppf.xsize * ppf.num_color_channels * Width(ppf.color.format.data_type)]
  IN  Numbers([ppf EXCEPT !.color = fed])
Colors(ppf) ==
  [y \in 1 .. ppf.ysize |-> [x \in 1 .. ppf.xsize |->
     [c \in 1 .. ppf.num_color_channels |-> Numbers(ppf)[y][x][c]]]]

WithComments(f) ==
  LET comment == <<Byte(35), Word("a comment"), NL>>
  IN  SubSeq(f, 1, 2) \o comment \o comment \o SubSeq(f, 3, Len(f))

\* What an encoder writes, a decoder reads back as the same image, pixel for pixel, bit depth and
\* extra channels included (the PAM ones in the file, those of PNM and PFM in files of their own), also when
\* comments follow the first line and bytes follow the pixels; a file that lacks its last byte is
\* refused.  An image whose buffer does not fit its size is not written.  What cjpegli hands to the
\* library are the colors without the alpha, and in XYB mode the same numbers.
FileIsTheImage(ppf, extension) ==
  LET Same(e) == /\ e.bits_per_sample = ppf.bits_per_sample /\ e.alpha_bits = ppf.alpha_bits
                 /\ e.exponent_bits = ppf.exponent_bits
                 /\ e.num_color_channels = ppf.num_color_channels
                 /\ Numbers(e) = Numbers(ppf)
                 /\ ConvertPackedPixelFileToImage3F(e) = ConvertPackedPixelFileToImage3F(ppf)
      ec == EncodeExtraChannels(ppf, extension)
  IN  \E f \in {Encode(ppf, extension)} : f # <<>> => \E d \in {DecodeBytes(f, <<>>)} :
        /\ d # <<>> /\ Same(d[1]) /\ GetColorEncoding(d[1]) # <<>>
        /\ DecodeBytes(SubSeq(f, 1, Len(f) - 1), <<>>) = <<>>
        /\ DecodeBytes(Append(f, Byte(0)), <<>>) = d
        /\ extension \notin {".pfm", ".pgx"} => DecodeBytes(WithComments(f), <<>>) = d
        /\ VerifyInput(d[1]) =>
             /\ FedNumbers(d[1]) = Colors(ppf)
             /\ \A y \in 1 .. ppf.ysize, x \in 1 .. ppf.xsize, c \in 1 .. ppf.num_color_channels :
                  FloatRows(d[1])[y][x][c] = ConvertPackedPixelFileToImage3F(ppf)[c][y][x]
        /\ IF extension = ".pam"
           THEN d[1].ec_types = ppf.ec_types /\ ExtraNumbers(d[1]) = ExtraNumbers(ppf)
           ELSE \A i \in DOMAIN ec :
                  ppf.color.format.data_type = ppf.extra_channels[i].format.data_type =>
                    Numbers(DecodeBytes(ec[i], <<>>)[1]) =
                      [y \in 1 .. ppf.ysize |-> [x \in 1 .. ppf.xsize |->
                         <<ExtraNumbers(ppf)[i][y][x]>>]]

\* djpegli writes the samples of the JPEG, in the depth it was asked for, to every extension, but
\* PGX for gray images only; cjpegli, given that file, hands the same samples to the library.
ToolsKeepTheImage(jpeg, extension, bitdepth) ==
  LET params == DecompressParams(extension, bitdepth)
  IN  \E f \in {DJpegliMain(jpeg, extension, bitdepth)} :
        /\ f = <<>> <=> (extension = ".pgx" /\ jpeg.components = 3)
        /\ f # <<>> => \E ppf \in {DecodeBytes(f, <<>>)[1]} :
             FedNumbers(ppf) = jpeg.rows[ppf.num_color_channels][params.output_data_type]

\* Planes of samples of a format's depth come back from a pixel file of that format, whatever
\* the byte order of the machine and of the file.
PlanesComeBack(planes, format) ==
  ConvertPackedPixelFileToImage3F(ConvertImage3FToPackedPixelFile(planes, format)) = planes
=============================================================================
