---------------------------- MODULE MCAlgorithms ----------------------------
(***************************************************************************)
(* The Huffman slots as they are, and the pure algorithms on inputs small  *)
(* enough to enumerate: an initial state holds one input, and one step     *)
(* computes with it.                                                       *)
(***************************************************************************)
EXTENDS HuffmanSlots, Transforms, Colors

HC == INSTANCE HuffmanCodes WITH MaxBitLength <- 4, RootTableBits <- 2, Alphabet <- 5
BI == INSTANCE BitIO WITH ByteBits <- 2, RegBits <- 8, MaxRead <- 3
Q8 == INSTANCE ColorQuantize WITH SampleBits <- 8, CellBits <- <<3, 4, 3, 3>>
Q4 == INSTANCE ColorQuantize WITH SampleBits <- 4, CellBits <- <<2, 3, 1>>
CM(tone) == INSTANCE ColorManagement WITH Enable3DToneMapping <- tone
IC == INSTANCE IccSegments WITH ByteValues <- 8, kMaxIccBytesInMarker <- 5, kCICPTagSize <- 3
Files(little) == INSTANCE ImageFiles WITH LittleEndianMachine <- little

VARIABLES input, done

----------------------------------------------------------------------------
(* Huffman slots *)

C(dc, ac) == [dc |-> dc, ac |-> ac]
S(comps, Ss, Se) == [comps |-> comps, Ss |-> Ss, Se |-> Se]
F(comps, progressive, baseline, own, scans) ==
  [comps |-> comps, progressive |-> progressive, baseline |-> baseline, own |-> own,
   scans |-> scans]
Three == <<C(0, 0), C(1, 1), C(1, 1)>>
SomeFrames ==
  {F(Three, FALSE, b, o, s) : b \in BOOLEAN, o \in BOOLEAN,
     s \in {<<S(<<1, 2, 3>>, 0, 63)>>, <<S(<<1>>, 0, 63), S(<<2, 3>>, 0, 63)>>}} \cup
  {F(<<C(3, 2), C(2, 2), C(3, 0), C(1, 3)>>, FALSE, FALSE, TRUE, <<S(<<1, 2, 3, 4>>, 0, 63)>>),
   \* Seven AC scans: three tables more than slots.
   F(<<C(0, 0), C(1, 1)>>, TRUE, FALSE, FALSE,
     <<S(<<1, 2>>, 0, 0), S(<<1>>, 1, 2), S(<<2>>, 1, 2), S(<<1>>, 3, 63), S(<<1, 2>>, 0, 0),
       S(<<2>>, 3, 63), S(<<1>>, 3, 63), S(<<2>>, 3, 63), S(<<1>>, 1, 2)>>)}

----------------------------------------------------------------------------
(* Huffman codes and bits *)

Arrangements(s) == {[i \in DOMAIN s |-> s[p[i]]] : p \in Permutations(DOMAIN s)}
\* Counts of 0 .. Alphabet - 1, never all 0 (ClusterJpegHistograms leaves empty histograms out);
\* those of Fibonacci make the deepest trees.
Histograms ==
  ([0 .. 4 -> {0, 1, 3, 8}] \ {[s \in 0 .. 4 |-> 0]}) \cup
  {[s \in 0 .. 4 |-> p[s + 1]] : p \in Arrangements(<<1, 1, 2, 3, 5>>) \cup
                                       Arrangements(<<1, 2, 3, 5, 8>>)}
HistogramInputs == [k : {"histogram"}, histogram : Histograms]

\* Sequences of writes of up to four bits: of zeros, of ones, which give escapes, and others.
Writes == {[n |-> 1, v |-> 0], [n |-> 1, v |-> 1], [n |-> 2, v |-> 3], [n |-> 3, v |-> 5],
           [n |-> 3, v |-> 7]}
WriteInputs == UNION {[k : {"writes"}, writes : [1 .. n -> Writes]] : n \in 1 .. 4}

EntropyInputs == HistogramInputs \cup WriteInputs

\* Symbols and bits come back: the Huffman codes of any histogram, and the register, escapes and
\* look-ahead of the bit writer and the bit reader.
SymbolsAndBitsComeBack ==
  done => CASE input.k = "histogram" -> HC!CodesDecode(input.histogram)
            [] input.k = "writes" -> BI!BitsAreRead(input.writes)
            [] OTHER -> TRUE

----------------------------------------------------------------------------
(* Transforms *)

TransformInputs == [k : {"transform"}, coefficient : 0 .. 63, size : 1 .. 16]

\* Every IDCT of idct.cc, of every size, is the definition, and inverts the DCT.
TransformsAreDefined ==
  done /\ input.k = "transform" => TransformIsTheDefinition(input.coefficient, input.size)

----------------------------------------------------------------------------
(* Colors *)

Pixel(space) ==
  CASE space = "GRAYSCALE" -> <<77>>
    [] space \in {"CMYK", "YCCK"} -> <<10, 200, 35, 90>>
    [] space = "UNKNOWN" -> <<3, 9>>
    [] space = "YCbCr" -> <<100, 90, 140>>
    [] space \in {"RGB", "EXT_RGB", "EXT_BGR"} -> <<250, 3, 77>>
    [] OTHER -> <<250, 3, 77, 200>>
Jpegs == {"GRAYSCALE", "RGB", "YCbCr", "CMYK", "YCCK", "UNKNOWN"}
SampleFormats == [type : {"UINT8", "UINT16", "FLOAT"}, endianness : {"native", "little", "big"}]
U8 == [type |-> "UINT8", endianness |-> "native"]
ColorCase(in, jpeg, jfif, out, read, write, machine) ==
  [k |-> "color", pixel |-> Pixel(in), in |-> in, jpeg |-> jpeg, jfif |-> jfif, out |-> out,
   read |-> read, write |-> write, machine |-> machine]
ColorInputs ==
  {ColorCase(in, jpeg, FALSE, out, U8, U8, "little") : in \in Spaces, jpeg \in Jpegs,
                                                       out \in Spaces} \cup
  {ColorCase(in, jpeg, TRUE, out, U8, U8, "little") : in \in Spaces,
                                          jpeg \in {"GRAYSCALE", "YCbCr"}, out \in Spaces} \cup
  {ColorCase("RGB", "YCbCr", FALSE, "EXT_BGRA", r, w, m) :
     r \in SampleFormats, w \in SampleFormats, m \in {"little", "big"}}

\* Colors come back through every pair of transforms and every pair of sample formats.  Gray
\* pixels in a YCbCr file are left out: GrayscaleToYCbCr sets the chroma to 0, not to its middle.
ColorsComeBack ==
  done /\ input.k = "color" =>
    (input.in = "GRAYSCALE" /\ input.jpeg = "YCbCr") \/ ColorComesBack(input)

----------------------------------------------------------------------------
(* Color maps *)

GridInputs == [k : {"grid"}, components : 1 .. 4,
               colors : {1, 2, 3, 7, 8, 9, 16, 17, 26, 27, 100, 200, 216, 255, 256, 300}]
OrderInputs == [k : {"order"}, levels : {<<2, 3, 2>>, <<4, 3>>, <<6, 7, 6>>},
                pixel : {<<0, 50, 127>>, <<63, 128, 200>>, <<255, 0, 128>>, <<64, 255, 255>>,
                         <<1, 254, 0>>, <<200, 85, 84>>}]
Palette == {<<0, 0>>, <<3, 7>>, <<7, 8>>, <<4, 4>>, <<15, 2>>, <<8, 12>>}
PaletteInputs == [k : {"palette"}, colormap : [1 .. 3 -> Palette],
                  pixel : (0 .. 15) \X (0 .. 15)]
Pixels == {<<0, 0, 0>>, <<255, 255, 255>>, <<250, 3, 77>>, <<16, 16, 16>>, <<120, 200, 90>>}
TwoPassInputs == [k : {"two pass"}, pixels : [1 .. 4 -> Pixels],
                  order : {<<1, 2, 3, 4>>, <<4, 3, 2, 1>>, <<2, 4>>}, size : 1 .. 4]
ColormapInputs == GridInputs \cup OrderInputs \cup PaletteInputs \cup TwoPassInputs

\* Color maps of both kinds are within their size, and every pixel gets its nearest color.
ColormapsAreNearest ==
  done => CASE input.k = "grid" -> Q8!GridIsNearest(input.components, input.colors)
            [] input.k = "order" -> Q8!GridIsOrdered(input.levels, input.pixel)
            [] input.k = "palette" -> Q4!PaletteIsNearest(input.colormap, input.pixel)
            [] input.k = "two pass" -> Q8!PaletteIsExact(input.pixels, input.order, input.size)
            [] OTHER -> TRUE

----------------------------------------------------------------------------
(* Color management *)

\* Constant-level operators of ColorManagement that do not depend on the build.
M == INSTANCE ColorManagement WITH Enable3DToneMapping <- TRUE
TransferFunctions ==
  {M!TransferFunction(f) : f \in Range(M!TransferFunctions)} \cup {M!SetGamma(4545455)}
Encoding(space, white, primaries, tf, intent) ==
  LET c == [M!DefaultEncoding EXCEPT !.color_space = space, !.tf = tf,
                                     !.rendering_intent = intent]
  IN  M!SetPrimaries(M!SetWhitePoint(c, white), primaries)
Encodings ==
  {Encoding(space, white, primaries, tf, intent) :
     space \in {"RGB", "Gray"}, white \in {"D65", "E", "DCI", "w1"},
     primaries \in {"SRGB", "2100", "P3", "p1"}, tf \in TransferFunctions,
     intent \in {"Per", "Rel"}} \cup
  {Encoding("XYB", "D65", "SRGB", M!SetGamma(M!kGammaMul \div 3), "Per")} \cup
  {Encoding("Unknown", "D65", primaries, tf, "Sat") : primaries \in {"SRGB", "p1"},
                                                      tf \in TransferFunctions}
Made(tone) ==
  {CM(tone)!MaybeCreateProfile(M!ToExternal(Encoding(space, white, primaries, tf, "Rel"))) :
     space \in {"RGB", "Gray"}, white \in {"D65", "DCI"}, primaries \in {"2100", "P3", "p1"},
     tf \in TransferFunctions \ {M!TransferFunction("Unknown")}}
\* Profiles of others: curves that are no known function, curves that differ, no adaptation, no
\* white point.
Curves(a, b) == <<a, a, b>>
Foreign(tone) ==
  LET srgb == [CM(tone)!MaybeCreateProfile(M!ToExternal(M!DefaultEncoding)) EXCEPT !.cicp = <<>>]
  IN  {srgb, [srgb EXCEPT !.chad = M!None, !.wtpt = "D65"], [srgb EXCEPT !.wtpt = M!None],
       [srgb EXCEPT !.trc = Curves(<<"curve", "u1">>, <<"curve", "u1">>)],
       [srgb EXCEPT !.trc = Curves(<<"curve", "u2">>, <<"curve", "u2">>)],
       [srgb EXCEPT !.trc = Curves(<<"power", 4545455>>, <<"power", 5555555>>)]}
ManagementInputs ==
  [k : {"encoding"}, tone : BOOLEAN, encoding : Encodings] \cup
  UNION {[k : {"profiles"}, tone : {tone}, from : Made(tone) \cup Foreign(tone),
          to : Made(tone) \cup Foreign(tone)] : tone \in BOOLEAN}

\* The description, the profile and the transform of a color encoding mean that encoding.
ColorsAreManaged ==
  done => CASE input.k = "encoding" ->
                 /\ CM(input.tone)!DescriptionParses(input.encoding)
                 /\ input.encoding.color_space # "XYB" =>
                      CM(input.tone)!ProfileIsReadBack(input.encoding)
            [] input.k = "profiles" -> CM(input.tone)!TransformReaches(input.from, input.to)
            [] OTHER -> TRUE

----------------------------------------------------------------------------
(* Segments of profiles *)

Bytes(n) == [i \in 1 .. n |-> IC!Data(i)] \o <<>>
\* Profiles of none to nine and of fifteen segments; the count of segments is below eight.
ProfileLengths == {0, 1, 4, 5, 6, 14, 15, 16, 34, 35, 36, 40, 41, 45, 75}
NumSegments(n) == (n + 4) \div 5
\* In order, reversed, and with two segments exchanged.
SegmentOrders(n) == {[i \in 1 .. n |-> i] \o <<>>, [i \in 1 .. n |-> n + 1 - i] \o <<>>} \cup
             {[i \in 1 .. n |-> IF i = 1 THEN j ELSE IF i = j THEN 1 ELSE i] \o <<>> : j \in 1 .. n}
SegmentInputs == UNION {[k : {"segments"}, icc : {Bytes(n)}, order : SegmentOrders(NumSegments(n))] :
                          n \in ProfileLengths}

\* Two tags of which none, one, or the second too is the CICP tag, whole or too short, within the
\* profile or beyond its end, and with the wrong signature where it points to.
Cicp == <<IC!Data("cicp"), IC!Data("tf"), IC!Data("range")>>
Profile(offset, length, second, before, tail) ==
  <<IC!Count(2), IC!Tag("desc", 3, 2), IC!Tag(second, offset, length)>> \o
  [i \in 1 .. before |-> IC!Data("data")] \o Cicp \o [i \in 1 .. tail |-> IC!Data("data")]
CicpProfiles == {Profile(3 + before + shift, length, second, before, tail) :
                   before \in 0 .. 3, shift \in {0, 1, 4}, length \in {2, 3, 5},
                   second \in {"cicp", "wtpt"}, tail \in {0, 2}}
\* Every way to cut n items after the first k.
Cuts(n, k) == {sizes \in UNION {[1 .. m -> 1 .. n] : m \in 1 .. 4} :
                 sizes[1] >= k /\ FoldLeft(+, 0, sizes) = n}
CicpInputs == UNION {[k : {"cicp"}, icc : {icc}, sizes : Cuts(Len(icc), 3)] : icc \in CicpProfiles}

\* A profile survives its segments, and the encoder finds the transfer function of its CICP tag, in
\* the segments where the first one holds the whole tag, and never takes another item for it.
ProfilesComeBack ==
  done => CASE input.k = "segments" -> IC!IccComesBack(input.icc, input.order)
            [] input.k = "cicp" -> IC!CicpIsFound(input.icc, input.sizes)
            [] OTHER -> TRUE

----------------------------------------------------------------------------
(* Image files *)

I == INSTANCE ImageFiles WITH LittleEndianMachine <- TRUE
\* Bytes of pixels that look like white space, comments and digits, and all ones.
PixelByte(i) == <<10, 35, 32, 255, 0, 49, 13, 127, 9, 48, 80>>[(i % 11) + 1]
\* The byte of a sample that holds its highest bits, at a place of the buffer.
IsTopByte(i, format) ==
  LET n == I!BitsPerChannel(format.data_type) \div 8
  IN  i % n = (IF I!IsLittle(format.endianness) THEN 0 ELSE 1 % n)
ByteFor(i, format, bits) ==
  LET n == I!BitsPerChannel(format.data_type)
  IN  CASE format.data_type = "FLOAT" -> IF IsTopByte(i, format) THEN 63 ELSE PixelByte(i)
        [] IsTopByte(i, format) -> PixelByte(i) % 2 ^ (8 - (n - bits))
        [] OTHER -> PixelByte(i)
Image(w, h, format, bits) ==
  LET image == I!Create(w, h, format)
  IN  [image EXCEPT !.pixels = [i \in DOMAIN @ |-> ByteFor(i, format, bits)]]
PixelFile(w, h, type, bits, channels, alpha, endianness, ec_types) ==
  LET format == I!Format(IF alpha THEN channels + 1 ELSE channels, type, endianness)
  IN  [xsize |-> w, ysize |-> h, bits_per_sample |-> bits,
       exponent_bits |-> IF type = "FLOAT" THEN 8 ELSE 0,
       alpha_bits |-> IF alpha THEN bits ELSE 0, num_color_channels |-> channels,
       from_codestream |-> type # "FLOAT", ec_types |-> ec_types,
       color |-> Image(w, h, format, bits),
       extra_channels |-> [i \in DOMAIN ec_types |->
                             Image(w, h, [format EXCEPT !.num_channels = 1], bits)],
       color_encoding |-> [color_space |-> "", icc |-> ""]]
Depths == {<<"UINT8", 8>>, <<"UINT8", 1>>, <<"UINT8", 5>>, <<"UINT16", 16>>, <<"UINT16", 9>>,
           <<"UINT16", 12>>, <<"FLOAT", 32>>}
PixelFiles ==
  {PixelFile(size[1], size[2], d[1], d[2], n, alpha, e, ec) :
     size \in {<<1, 1>>, <<2, 1>>, <<3, 2>>, <<2, 3>>}, d \in Depths, n \in {1, 3},
     alpha \in BOOLEAN, e \in {"big", "little", "native"}, ec \in {<<>>, <<"Depth", "Black">>}}
\* The same buffers with a smaller image in them, and the copies of these.
Changed(p, w, h, Op(_)) ==
  [p EXCEPT !.color = Op(@), !.xsize = w, !.ysize = h,
            !.extra_channels = [i \in DOMAIN @ |-> Op(@[i])]]
Shrunk(p, w, h) == Changed(p, w, h, LAMBDA image : I!ShrinkTo(image, w, h))
Smaller ==
  UNION {{Shrunk(p, n[1], n[2]),
          Changed(Shrunk(p, n[1], n[2]), n[1], n[2], I!Copy)} :
           p \in {q \in PixelFiles : q.xsize = 3}, n \in {<<2, 2>>, <<3, 1>>, <<1, 1>>}}
Extensions == {".pgm", ".ppm", ".pnm", ".pfm", ".pam", ".pgx"}
FileInputs == [k : {"file"}, little : BOOLEAN, ppf : PixelFiles \cup Smaller, extension : Extensions]

\* Samples of a JPEG as the library delivers them in each type.
Sample(c, type, y, x) ==
  LET v == 1000 * c + 77 * y + 13 * x
  IN  CASE type = "UINT8" -> v % 256 [] type = "UINT16" -> v * 7
        [] type = "FLOAT" -> 1065353216 + v * 768
JpegRows(n, type, w, h) ==
  [y \in 1 .. h |-> [x \in 1 .. w |-> [c \in 1 .. n |-> Sample(c, type, y, x)]]]
Jpeg(n, w, h) ==
  [components |-> n,
   rows |-> [m \in {1, 3} |-> [t \in {"UINT8", "UINT16", "FLOAT"} |-> JpegRows(m, t, w, h)]]]
ToolInputs == [k : {"tool"}, little : BOOLEAN,
               jpeg : {Jpeg(n, w, h) : n \in {1, 3}, w \in {1, 3}, h \in {1, 2}},
               extension : Extensions, bitdepth : {8, 16}]

Planes(type, w, h) ==
  LET max == IF type = "FLOAT" THEN 0 ELSE 2 ^ I!BitsPerChannel(type) - 1
  IN  [c \in 1 .. 3 |-> [y \in 1 .. h |-> [x \in 1 .. w |->
         [n |-> Sample(c, type, y, x), max |-> max]]]]
PlaneInputs ==
  UNION {[k : {"planes"}, little : BOOLEAN, planes : {Planes(t, w, 2) : w \in {1, 3}},
          format : {I!Format(3, t, e) : e \in {"big", "little", "native"}}] :
           t \in {"UINT8", "UINT16", "FLOAT"}}

\* Files of every format, and the command line tools, keep the image.
FilesKeepTheImage ==
  done => CASE input.k = "file" -> Files(input.little)!FileIsTheImage(input.ppf, input.extension)
            [] input.k = "tool" ->
                 Files(input.little)!ToolsKeepTheImage(input.jpeg, input.extension, input.bitdepth)
            [] input.k = "planes" ->
                 Files(input.little)!PlanesComeBack(input.planes, input.format)
            [] OTHER -> TRUE

----------------------------------------------------------------------------
IsSlots == input.k = "slots"

AlgorithmsInit ==
  /\ done = FALSE
  /\ \/ input = [k |-> "slots"] /\ Init
     \/ /\ Init /\ frame = CHOOSE f \in Frames : TRUE
        /\ \/ input \in EntropyInputs \/ input \in TransformInputs \/ input \in ColorInputs
           \/ input \in ColormapInputs \/ input \in ManagementInputs
           \/ input \in SegmentInputs \/ input \in CicpInputs
           \/ input \in FileInputs \/ input \in ToolInputs \/ input \in PlaneInputs
Compute == ~IsSlots /\ ~done /\ done' = TRUE /\ UNCHANGED <<vars, input>>
AlgorithmsNext == (IsSlots /\ Next /\ UNCHANGED <<input, done>>) \/ Compute
AlgorithmsSpec == AlgorithmsInit /\ [][AlgorithmsNext]_<<vars, input, done>>
=============================================================================
