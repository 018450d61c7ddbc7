---------------------------- MODULE IccSegments ----------------------------
(***************************************************************************)
(* An ICC profile in APP2 segments: jpegli_write_icc_profile, the reader   *)
(* of the library (ProcessAPP, in order) and that of dec/jpg.cc (from the  *)
(* saved markers, in any order), and the encoder's search for the CICP     *)
(* tag, in a profile and in the segments it was handed.  A profile is a    *)
(* sequence of items: the number of its tags, the tag table, and the data  *)
(* of the tags.                                                            *)
(***************************************************************************)
EXTENDS Integers, Sequences, FiniteSets, SequencesExt

CONSTANTS ByteValues,            \* 2^8: the index and the total of a segment are bytes
          kMaxIccBytesInMarker,
          kCICPTagSize           \* signature, transfer function, and what else the tag holds

Unknown == [t |-> "unknown"]
kUnknownTf == Unknown

Segment(index, total, payload) ==
  [marker |-> "ICC", index |-> index, total |-> total, payload |-> payload]
OtherSegment == [marker |-> "other", index |-> 0, total |-> 0, payload |-> <<>>]

\* jpegli_write_icc_profile; jpegli_write_m_byte keeps the low byte of the counters.
WriteIccProfile(icc) ==
  LET num_markers == (Len(icc) + kMaxIccBytesInMarker - 1) \div kMaxIccBytesInMarker
      End(i) == IF i = num_markers THEN Len(icc) ELSE i * kMaxIccBytesInMarker
  IN  [i \in 1 .. num_markers |->
         Segment(i % ByteValues, num_markers % ByteValues,
                 SubSeq(icc, (i - 1) * kMaxIccBytesInMarker + 1, End(i)))]

\* ProcessAPP, 0xE2, in the decoder's state.
ProcessAPP(m, s) ==
  CASE m.error \/ s.marker # "ICC" -> m
    [] \/ m.index + 1 # s.index \/ s.total = 0
       \/ m.total \notin {0, s.total}
       \/ m.index + 1 > s.total -> [m EXCEPT !.error = TRUE]
    [] OTHER -> [m EXCEPT !.index = @ + 1, !.total = s.total, !.icc = @ \o s.payload]

\* What jpegli_read_icc_profile finds after the header: icc_profile_, or an error before.
ReadByLibrary(segments) ==
  FoldLeft(ProcessAPP, [index |-> 0, total |-> 0, icc |-> <<>>, error |-> FALSE], segments)

\* ReadICCProfile of dec/jpg.cc: each index of 1 .. total once.
ReadFromMarkers(segments) ==
  LET icc == SelectSeq(segments, LAMBDA s : s.marker = "ICC")
      total == icc[1].total
      At(i) == CHOOSE j \in DOMAIN icc : icc[j].index = i
      ok == /\ icc # <<>>
            /\ \A i \in DOMAIN icc : /\ icc[i].index \in 1 .. total /\ icc[i].total = total
                                     /\ icc[i].payload # <<>>
                                     /\ \A j \in DOMAIN icc : icc[i].index = icc[j].index => i = j
            /\ Len(icc) = total
  IN  IF ok THEN FlattenSeq([i \in 1 .. total |-> icc[At(i)].payload]) ELSE <<>>

----------------------------------------------------------------------------
(* The CICP tag *)

Count(n) == [t |-> "count", n |-> n]
Tag(signature, offset, length) ==
  [t |-> "tag", signature |-> signature, offset |-> offset, length |-> length]
Data(b) == [t |-> "data", b |-> b]

\* FindCICPTag, of one segment: what is known of the tag, and its items so far.
FindCICPTag(data, cicp, is_first_chunk) ==
  LET count == data[1].n
      found == {i \in 1 .. count : data[1 + i].signature = "cicp"}
      tag == data[1 + Max(found)]
      start == IF ~is_first_chunk THEN cicp ELSE [cicp EXCEPT !.offset = tag.offset, !.length = tag.length]
      n == Min({Len(data) - start.offset, kCICPTagSize - Len(start.tag)})
  IN  CASE \/ is_first_chunk /\ data = <<>>
           \/ is_first_chunk /\ Len(data) < 1 + count
           \/ is_first_chunk /\ found = {}
           \/ start.length < kCICPTagSize -> [cicp EXCEPT !.ok = FALSE]
        [] OTHER ->
             [start EXCEPT !.offset = IF @ < Len(data) THEN 0 ELSE @ - Len(data),
                           !.tag = IF start.offset < Len(data)
                                   THEN @ \o SubSeq(data, start.offset + 1, start.offset + n)
                                   ELSE @]

NoTag == [ok |-> TRUE, offset |-> 0, length |-> 0, tag |-> <<>>, last_index |-> 0]
Answer(cicp) ==
  IF cicp.ok /\ Len(cicp.tag) = kCICPTagSize /\ cicp.tag[1] = Data("cicp") THEN cicp.tag[2]
  ELSE kUnknownTf

\* Mutant: the order of the segments is not checked.
OutOfOrderUnchecked(s, last_index) == s.index > s.total

OutOfOrder(s, last_index) == s.index # last_index + 1 \/ s.index > s.total

\* The loop over the markers.  Only a marker that is no ICC segment advances pos: a segment that
\* does not complete the tag is read again, and is then out of order.
RECURSIVE LookupFrom(_, _, _)
LookupFrom(segments, pos, cicp) ==
  IF pos > Len(segments) THEN Answer(cicp)
  ELSE LET s == segments[pos]
           next == FindCICPTag(s.payload, cicp, cicp.last_index = 0)
       IN  CASE s.marker # "ICC" -> LookupFrom(segments, pos + 1, cicp)
             [] s.marker = "ICC" /\ (OutOfOrder(s, cicp.last_index) \/ ~next.ok) -> kUnknownTf
             [] OTHER -> IF Len(next.tag) = kCICPTagSize THEN Answer(next)
                         ELSE LookupFrom(segments, pos, [next EXCEPT !.last_index = @ + 1])

LookupCICPTransferFunctionFromAppData(segments) == LookupFrom(segments, 1, NoTag)

LookupCICPTransferFunctionFromICCProfile(icc) == Answer(FindCICPTag(icc, NoTag, TRUE))

----------------------------------------------------------------------------
(* Properties *)

\* A profile of at most 255 segments comes back from both readers, whatever segments lie between
\* its own and, from the saved markers, in whatever order they are listed; one of more segments is
\* refused, never read as another profile.
IccComesBack(icc, order) ==
  LET s == WriteIccProfile(icc)
      mixed == <<OtherSegment>> \o FlattenSeq([i \in DOMAIN s |-> <<s[i], OtherSegment>>])
      library == ReadByLibrary(mixed)
  IN  /\ library.error <=> Len(s) >= ByteValues
      /\ ~library.error => library.icc = icc
      /\ ReadFromMarkers([i \in DOMAIN s |-> s[order[i]]]) =
           IF Len(s) >= ByteValues THEN <<>> ELSE icc

\* The transfer function of a whole profile is the one of its CICP tag.  Of a profile cut into
\* segments, after another marker, it is the same when the tag is whole in the first segment;
\* otherwise the answer is that tag's or unknown, never an item that was pieced together wrongly.
CicpIsFound(icc, sizes) ==
  LET From(i) == FoldLeft(+, 0, SubSeq(sizes, 1, i - 1))
      cut == [i \in DOMAIN sizes |->
                Segment(i, Len(sizes), SubSeq(icc, From(i) + 1, From(i) + sizes[i]))]
      tags == {icc[1 + i] : i \in 1 .. icc[1].n}
      cicp == {t \in tags : t.signature = "cicp" /\ t.length >= kCICPTagSize
                            /\ t.offset + kCICPTagSize <= Len(icc)
                            /\ icc[t.offset + 1] = Data("cicp")}
      expected == IF cicp = {} THEN kUnknownTf ELSE icc[(CHOOSE t \in cicp : TRUE).offset + 2]
      found == LookupCICPTransferFunctionFromAppData(<<OtherSegment>> \o cut)
      in_first == \A t \in cicp : t.offset + kCICPTagSize <= sizes[1]
  IN  /\ LookupCICPTransferFunctionFromICCProfile(icc) = expected
      /\ found \in {expected, kUnknownTf}
      /\ in_first => found = expected
=============================================================================
