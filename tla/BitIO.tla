------------------------------- MODULE BitIO -------------------------------
(***************************************************************************)
(* The bit streams of the entropy-coded data: the JpegBitWriter, with its  *)
(* register that is discharged whole and its escapes after 0xFF, and the   *)
(* decoder's BitReaderState, which fills a register ahead, stops at        *)
(* markers, and gives back what it has not used so that an MCU can be read *)
(* again when more input has arrived.  The sizes are parameters: a byte    *)
(* (8 bits), the registers (64) and the most that one read may take (16).  *)
(***************************************************************************)
EXTENDS Integers, Sequences, SequencesExt

CONSTANTS ByteBits, RegBits, MaxRead

FF == 2^ByteBits - 1
Marker == <<FF, 1>>   \* what JPEG has after the scan

----------------------------------------------------------------------------
(* JpegBitWriter.  A write is [n, v]: the value v in n bits. *)

NewWriter == [data |-> <<>>, put_buffer |-> 0, free_bits |-> RegBits, healthy |-> TRUE]

EmitByte(data, byte) == IF byte = FF THEN data \o <<byte, 0>> ELSE Append(data, byte)

\* The bytes of a full register, first the most significant one.
DischargeBitBuffer(data, put_buffer) ==
  FoldLeft(LAMBDA d, i : EmitByte(d, (put_buffer \div 2^(RegBits - ByteBits * i)) % 2^ByteBits),
           data, [i \in 1 .. RegBits \div ByteBits |-> i])

\* The register keeps garbage above its valid bits; it is shifted out before a discharge.
ShiftIn(put_buffer, n, v) == ((put_buffer * 2^n) % 2^RegBits) + v

WriteBits(bw, w) ==
  LET free == bw.free_bits - w.n
      full == ShiftIn(bw.put_buffer, bw.free_bits, w.v \div 2^(-free))
  IN  IF w.n = 0 THEN [bw EXCEPT !.healthy = FALSE]
      ELSE IF free < 0
      THEN [bw EXCEPT !.data = DischargeBitBuffer(@, full), !.free_bits = free + RegBits,
                      !.put_buffer = ShiftIn(w.n, w.n, w.v)]
      ELSE [bw EXCEPT !.free_bits = free, !.put_buffer = ShiftIn(@, w.n, w.v)]

\* Ones up to the next byte, then the whole bytes of the register.
JumpToByteBoundary(bw) ==
  LET n == bw.free_bits % ByteBits
      Byte(b, i) == ((b.put_buffer * 2^b.free_bits) \div 2^(RegBits - ByteBits * i)) % 2^ByteBits
      Bytes(b) == [i \in 1 .. (RegBits - b.free_bits) \div ByteBits |-> Byte(b, i)]
      Empty(b) == [b EXCEPT !.data = FoldLeft(EmitByte, @, Bytes(b)),
                            !.put_buffer = 0, !.free_bits = RegBits]
  IN  Empty(IF n > 0 THEN WriteBits(bw, [n |-> n, v |-> 2^n - 1]) ELSE bw)

Written(writes) == JumpToByteBoundary(FoldLeft(WriteBits, NewWriter, writes)).data \o Marker

----------------------------------------------------------------------------
(* BitReaderState; positions count from 0, data beyond len has not arrived. *)

Byte(data, pos) == data[pos + 1]

\* GetNextByte shifted into the register; zeros from a marker, or the end, on.
GetNextByte(br, data, len) ==
  LET c == IF br.pos >= br.next_marker_pos THEN 0 ELSE Byte(data, br.pos)
      escape == IF br.pos + 1 < len THEN Byte(data, br.pos + 1) ELSE 0
  IN  [br EXCEPT !.val = ((@ * 2^ByteBits) % 2^RegBits) + c,
                 !.bits_left = @ + ByteBits,
                 !.pos = IF c = FF /\ escape = 0 THEN @ + 2 ELSE @ + 1,
                 !.next_marker_pos = IF c = FF /\ escape # 0 THEN br.pos ELSE @]

FillBitWindow(br, data, len) ==
  LET bytes == (RegBits - br.bits_left) \div ByteBits   \* until no whole byte fits
  IN  IF br.bits_left > MaxRead THEN br
      ELSE FoldLeft(LAMBDA b, i : GetNextByte(b, data, len), br, [i \in 1 .. bytes |-> i])

Reset(data, len, pos) ==
  FillBitWindow([pos |-> pos, val |-> 0, bits_left |-> 0, next_marker_pos |-> len, got |-> 0],
                data, len)

ReadBits(br, data, len, n) ==
  LET Take(b) == [b EXCEPT !.got = (b.val \div 2^(b.bits_left - n)) % 2^n, !.bits_left = @ - n]
  IN  Take(FillBitWindow(br, data, len))

\* One byte is given back, and with a zero that was an escape the 0xFF before it.
GiveBack(br, data, len) ==
  LET p == br.pos - 1
      escaped == /\ \/ p = len /\ p = br.next_marker_pos
                    \/ p > 0 /\ p < br.next_marker_pos /\ Byte(data, p) = 0
                 /\ Byte(data, p - 1) = FF
  IN  [br EXCEPT !.pos = IF escaped THEN p - 1 ELSE p]

FinishStream(br, data, len) ==
  LET unused == (br.bits_left + ByteBits - 1) \div ByteBits
      bit_pos == (ByteBits - (br.bits_left % ByteBits)) % ByteBits
      Early(b) == b.pos >= b.next_marker_pos /\ (b.pos > b.next_marker_pos \/ bit_pos > 0)
      End(b) == [ok |-> ~Early(b), bit_pos |-> bit_pos,
                 pos |-> IF Early(b) THEN b.next_marker_pos ELSE b.pos]
  IN  End(FoldLeft(LAMBDA b, i : GiveBack(b, data, len), br, [i \in 1 .. unused |-> i]))

\* ProcessScan's reading of one MCU of n bits from a place [pos, bit_pos] with len bytes there.
\* In the last two bytes the answer may be wrong and more input is asked for.
ReadMCU(data, len, at, n) ==
  LET SkipBegun(br) == IF at.bit_pos > 0 THEN ReadBits(br, data, len, at.bit_pos) ELSE br
      Result(value, end) == [need_more |-> end.pos + 2 > len, ok |-> end.ok, value |-> value,
                             at |-> [pos |-> end.pos, bit_pos |-> end.bit_pos]]
      Finish(br) == Result(br.got, FinishStream(br, data, len))
  IN  Finish(ReadBits(SkipBegun(Reset(data, len, at.pos)), data, len, n))

\* FinishScan: the rest of a byte that was begun is skipped, with its escape.
FinishScan(data, at) ==
  IF at.bit_pos = 0 THEN at.pos
  ELSE IF Byte(data, at.pos) = FF THEN at.pos + 2 ELSE at.pos + 1

----------------------------------------------------------------------------
\* Where the MCUs begin, and where the last one ends.
Places(writes, data) ==
  FoldLeft(LAMBDA places, w : Append(places, ReadMCU(data, Len(data), Last(places), w.n).at),
           <<[pos |-> 0, bit_pos |-> 0]>>, writes)

\* The values of the writes, each an MCU, read in order from the stream: with any part of the
\* stream there, an MCU is either put off until more arrives or read with the value written
\* and up to the place where it ends; with all of it there none is put off, and the scan ends
\* at the marker.
BitsAreRead(writes) ==
  \E data \in {Written(writes)} :
    \E places \in {Places(writes, data)} :
      /\ \A i \in DOMAIN writes :
           \E whole \in {ReadMCU(data, Len(data), places[i], writes[i].n)} :
             /\ whole.ok /\ ~whole.need_more /\ whole.value = writes[i].v
             /\ \A len \in (places[i].pos + 1) .. Len(data) - 1 :
                  \E part \in {ReadMCU(data, len, places[i], writes[i].n)} :
                    part.need_more \/ part = whole
      /\ FinishScan(data, Last(places)) = Len(data) - 2
=============================================================================
