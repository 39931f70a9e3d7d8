---------------------------------- MODULE Tlv ----------------------------------
(***************************************************************************)
(* Bit streams (bitstream.c) and the blocks of tag, length and value that  *)
(* are written to them (tlv.c). A stream is the sequence of its bits, the  *)
(* high bit of a byte first, so places in bytes are places in bits. Bytes  *)
(* are narrower than the code's, and with them a length's prefix, the word *)
(* of 32 bits and size_t.                                                  *)
(***************************************************************************)
EXTENDS Integers, Sequences, FiniteSetsExt, SequencesExt

CONSTANTS
  ByteWidth,     \* 8
  Capacities,    \* the bytes of a writer's buffer
  Tags, Values,  \* the blocks that are written
  Lengths,       \* lengths that are written without a value
  Chunks,        \* numbers of bits, and of bytes, that are read or written alone
  MaxItems,      \* bound: what is written
  MaxReads       \* bound: what is read

\* 1 << n.
Two[n \in Nat] == IF n = 0 THEN 1 ELSE 2 * Two[n - 1]

WordBits == 4 * ByteWidth
SizeBits == 8 * ByteWidth     \* of size_t, and of a length
NoReader == [len |-> -1, pos |-> 0]

BitsIn(n) == n * ByteWidth

\* A buffer's bits are far fewer than a size_t counts.
ASSUME TlvAssumption ==
  /\ ByteWidth \in Nat /\ ByteWidth > 2
  /\ Tags \subseteq 0 .. Two[ByteWidth] - 1
  /\ Values \subseteq Seq(0 .. Two[ByteWidth] - 1)
  /\ Lengths \subseteq Nat /\ Chunks \subseteq Nat
  /\ Capacities \subseteq Nat /\ \A c \in Capacities : BitsIn(c) < Two[SizeBits - 1]
  /\ MaxItems \in Nat /\ MaxReads \in Nat

VARIABLES
  writer,   \* a BitWriter: the bits up to bit_pos, and byte_cap
  items,    \* what was written whole, and where
  reader,   \* a BitReader: byte_len and bit_pos
  reads,    \* how often something was read
  got       \* what the last call returned

stream == <<writer, items, reader, reads, got>>

\* The last n slices of v, the highest first, of width bits each; and the
\* number that start and the slices after it are.
Slices(v, n, width) == [i \in 1 .. n |-> (v \div Two[width * (n - i)]) % Two[width]]

Number(start, slices, width) ==
  LET number[i \in 0 .. Len(slices)] ==
        IF i = 0 THEN start ELSE Two[width] * number[i - 1] + slices[i]
  IN number[Len(slices)]

\* The bits of bytes, and how many of n bytes fit in so many bits.
AsBits(bytes) ==
  [i \in 1 .. BitsIn(Len(bytes)) |->
     Slices(bytes[1 + ((i - 1) \div ByteWidth)], ByteWidth, 1)[1 + ((i - 1) % ByteWidth)]]

Fit(n, bits) == IF BitsIn(n) <= bits THEN n ELSE bits \div ByteWidth

-----------------------------------------------------------------------------
(* BitWriter *)

\* bitwriter_write_bits: all or nothing.
WriteBits(w, v, n) ==
  IF n = 0 \/ n > WordBits THEN [w EXCEPT !.rc = "INVALID"]
  ELSE IF Len(w.bits) + n > BitsIn(w.cap) THEN [w EXCEPT !.rc = "OVERFLOW"]
  ELSE [w EXCEPT !.bits = @ \o Slices(v, n, 1), !.rc = "OK"]

\* Bytes one after the other, until one does not fit: those before it stay.
WriteBytes(w, bytes) ==
  LET n == Fit(Len(bytes), BitsIn(w.cap) - Len(w.bits))
  IN [w EXCEPT !.bits = @ \o AsBits(SubSeq(bytes, 1, n)), !.rc = IF n = Len(bytes) THEN "OK" ELSE "OVERFLOW"]

\* The bytes of a length and the prefix that tells them: 1, 2, 4 or 8.
PrefixOf(length) ==
  CHOOSE p \in 0 .. 3 :
    /\ p = 3 \/ length < Two[BitsIn(Two[p]) - 2]
    /\ p = 0 \/ length >= Two[BitsIn(Two[p - 1]) - 2]

\* The bytes of (prefix << n) | length. A length that reaches into the prefix
\* is written into it, which is all ones already.
LengthBytes(length) ==
  LET p == PrefixOf(length)
      low == Two[BitsIn(Two[p]) - 2]
  IN Slices(p * low + (length % low), Two[p], ByteWidth)

\* tlv_encode.
Encode(w, tag, value) == WriteBytes(w, <<tag>> \o LengthBytes(Len(value)) \o value)

-----------------------------------------------------------------------------
(* BitReader, over the first bytes of what was written. *)

Buffer(w) == w.bits \o [i \in 1 .. BitsIn(w.cap) - Len(w.bits) |-> 0]

Fails(r, rc) == [r EXCEPT !.rc = rc]
Passes(r, pos, out) == [r EXCEPT !.pos = pos, !.rc = "OK", !.out = out]

\* bitreader_read_bits: all or nothing.
ReadBits(r, n) ==
  IF n = 0 \/ n > WordBits THEN Fails(r, "INVALID")
  ELSE IF r.pos + n > BitsIn(r.len) THEN Fails(r, "OVERFLOW")
  ELSE Passes(r, r.pos + n, Append(r.out, Number(0, SubSeq(r.data, r.pos + 1, r.pos + n), 1)))

\* Bytes one after the other, until one does not fit: those before it are read.
ReadBytes(r, n) ==
  LET m == Fit(n, BitsIn(r.len) - r.pos)
      bytes == [i \in 1 .. m |-> Number(0, SubSeq(r.data, r.pos + BitsIn(i - 1) + 1, r.pos + BitsIn(i)), 1)]
      a == Passes(r, r.pos + BitsIn(m), r.out \o bytes)
  IN IF m = n THEN a ELSE Fails(a, "OVERFLOW")

\* bitreader_skip; the sum is a size_t.
SkipBits(r, n) ==
  LET to == (r.pos + n) % Two[SizeBits] IN
  IF to > BitsIn(r.len) THEN Fails(r, "OVERFLOW") ELSE Passes(r, to, r.out)

\* bitreader_seek.
Seek(r, to) == IF to > BitsIn(r.len) THEN Fails(r, "BOUNDS") ELSE Passes(r, to, r.out)

Underflow(r) == Fails(r, "UNDERFLOW")

\* What a length's first byte has of it, and the n bytes after that one.
ReadRest(r, first, n) ==
  LET b == ReadBytes([r EXCEPT !.out = <<>>], n) IN
  IF b.rc # "OK" THEN Underflow(b)
  ELSE [b EXCEPT !.out = Append(r.out, Number(first % Two[ByteWidth - 2], b.out, ByteWidth))]

\* Seeded fault: the prefix counts the bytes that follow.
ReadLengthPast(r) ==
  LET a == ReadBytes(r, 1) IN
  IF a.rc # "OK" THEN Underflow(a)
  ELSE ReadRest([a EXCEPT !.out = r.out], Last(a.out), Last(a.out) \div Two[ByteWidth - 2])

\* tlv_decode_length.
ReadLength(r) ==
  LET a == ReadBytes(r, 1) IN
  IF a.rc # "OK" THEN Underflow(a)
  ELSE ReadRest([a EXCEPT !.out = r.out], Last(a.out), Two[Last(a.out) \div Two[ByteWidth - 2]] - 1)

\* tlv_decode_tag and tlv_decode_length.
ReadHead(r) == LET a == ReadBytes(r, 1) IN IF a.rc # "OK" THEN Underflow(a) ELSE ReadLength(a)

\* The product is a size_t, too.
SkipValue(r) == SkipBits(r, BitsIn(Last(r.out)) % Two[SizeBits])

\* tlv_decode: out is the tag, the length and where the value begins. The head
\* is consumed whatever becomes of the value.
Decode(r) ==
  LET h == ReadHead(r) IN
  IF h.rc # "OK" THEN h
  ELSE IF h.pos % ByteWidth # 0 THEN Fails(h, "INVALID")
  ELSE IF h.pos \div ByteWidth + Last(h.out) > h.len THEN Underflow(h)
  ELSE [SkipValue(h) EXCEPT !.out = Append(@, h.pos)]

\* tlv_skip has neither of the two tests in between.
TlvSkip(r) == LET h == ReadHead(r) IN IF h.rc # "OK" THEN h ELSE SkipValue(h)

-----------------------------------------------------------------------------
StreamInit ==
  /\ writer \in {[bits |-> <<>>, cap |-> n, rc |-> "OK"] : n \in Capacities}
  /\ items = <<>> /\ reader = NoReader /\ reads = 0 /\ got = [rc |-> "OK", from |-> 0, call |-> "none", out |-> <<>>]

\* bitwriter_write_byte, _bytes and _bits, tlv_encode_length and tlv_encode. An
\* item is kept in items once it is written whole.
Written(w, item) ==
  /\ reader = NoReader /\ Len(items) < MaxItems /\ writer.rc = "OK"
  /\ writer' = w
  /\ items' = IF w.rc = "OK" THEN Append(items, [at |-> Len(writer.bits), is |-> item]) ELSE items
  /\ UNCHANGED <<reader, reads, got>>

WriteSome(n) == Written(WriteBits(writer, Two[n] - 1, n), <<>>)
WriteLength(length) == Written(WriteBytes(writer, LengthBytes(length)), <<length>>)
WriteBlock(tag, value) == Written(Encode(writer, tag, value), <<tag, value>>)

\* A reader of what was written, or of what is left of it.
InitReader(n) ==
  /\ reader = NoReader
  /\ reader' = [len |-> n, pos |-> 0]
  /\ UNCHANGED <<writer, items, reads, got>>

Reader == [len |-> reader.len, pos |-> reader.pos, data |-> Buffer(writer), rc |-> "OK", out |-> <<>>]

Called(call, r) ==
  /\ reader # NoReader /\ reads < MaxReads
  /\ reader' = [len |-> r.len, pos |-> r.pos]
  /\ reads' = reads + 1
  /\ got' = [rc |-> r.rc, from |-> reader.pos, call |-> call, out |-> r.out]
  /\ UNCHANGED <<writer, items>>

DoneReading == reads = MaxReads /\ UNCHANGED stream

StreamNext ==
  \/ \E n \in Chunks : WriteSome(n)
  \/ \E length \in Lengths : WriteLength(length)
  \/ \E tag \in Tags, value \in Values : WriteBlock(tag, value)
  \/ \E n \in 0 .. writer.cap : InitReader(n)
  \/ \E n \in Chunks : Called("bits", ReadBits(Reader, n)) \/ Called("bytes", ReadBytes(Reader, n))
  \/ \E item \in ToSet(items) : Called("seek", Seek(Reader, item.at))
  \/ Called("length", ReadLength(Reader))
  \/ Called("decode", Decode(Reader))
  \/ Called("skip", TlvSkip(Reader))
  \/ DoneReading

StreamSpec == StreamInit /\ [][StreamNext]_stream

-----------------------------------------------------------------------------
\* Types, and: neither end leaves its buffer.
StreamTypes ==
  /\ Len(writer.bits) <= BitsIn(writer.cap)
  /\ reader.pos \in 0 .. BitsIn(Max({reader.len, 0})) /\ reader.len <= writer.cap
  /\ reads \in 0 .. MaxReads /\ Len(items) <= MaxItems

\* Whatever is read from the place where it was written is what was written, if
\* the buffer that is left reaches so far, and is refused if it does not; a
\* block that begins inside a byte is refused, its head consumed.
\* tlv_skip goes where tlv_decode goes. A length comes back but for the two
\* bits that its prefix takes from the longest ones.
ReadIsWritten ==
  \A item \in ToSet(items) :
    item.at = got.from =>
      LET value == item.is[2]
          head == item.at + BitsIn(1 + Len(LengthBytes(Len(value))))
          fits == head + BitsIn(Len(value)) <= BitsIn(reader.len)
      IN /\ got.call = "decode" /\ Len(item.is) = 2 =>
              IF fits /\ item.at % ByteWidth = 0
              THEN got.rc = "OK" /\ got.out = <<item.is[1], Len(value), head>>
                     /\ reader.pos = head + BitsIn(Len(value))
              ELSE got.rc = IF head <= BitsIn(reader.len) /\ item.at % ByteWidth # 0 THEN "INVALID" ELSE "UNDERFLOW"
         /\ got.call = "skip" /\ Len(item.is) = 2 =>
              (got.rc = "OK" <=> fits) /\ (fits => reader.pos = head + BitsIn(Len(value)))
         /\ got.call = "length" /\ Len(item.is) = 1 =>
              LET end == item.at + BitsIn(Len(LengthBytes(item.is[1]))) IN
              IF end <= BitsIn(reader.len)
              THEN got.rc = "OK" /\ got.out = <<item.is[1] % Two[SizeBits - 2]>>
              ELSE got.rc = "UNDERFLOW"
=============================================================================
