------------------------------- MODULE WireFormats ----------------------------
(***************************************************************************)
(* What the stateless parts of the library promise, for samples of their    *)
(* inputs: structures and strings in streams (XbusStreams), transponder     *)
(* packets (Transponder), checksums (Checksums), packed values              *)
(* (ValueFormats) and the variables of the backport (MandalaVars).  A       *)
(* behaviour takes a sample, and examines it.                               *)
(***************************************************************************)
EXTENDS Transponder, Checksums, MandalaVars

CONSTANT Samples

VARIABLES sample, examined

samplevars == <<sample, examined>>

SampleInit == sample \in Samples /\ examined = FALSE

Examine == ~examined /\ examined' = TRUE /\ UNCHANGED sample

Examining(kind) == examined /\ sample.kind = kind

-----------------------------------------------------------------------------
(* A structure: written into a buffer of some size by one host, cut off on   *)
(* its way, and read by another host.                                       *)

Received ==
    LET sent == WriteStructure(sample.st, sample.size, sample.writer)
    IN  ReadStructure(sample.st, SubSeq(sent, 1, Least(sample.cut, Len(sent))), sample.reader)

Complete == Least(sample.size, sample.cut) >= Total(sample.st)

\* Words in an array are copied as they are in memory.
Portable(field) == field.kind # "words" \/ sample.writer = sample.reader

\* The writer leaves out a number that does not fit and goes on with the next field;
\* the reader does not know.  Nevertheless no field is ever read from the bytes of
\* another one, whatever the size of the buffer and wherever the packet ends: a
\* number is right or zero, an array is right as far as it goes, and all is right
\* if there is room for all.  The order of bytes of the hosts does not matter.
StructuresReturn ==
    Examining("structure") =>
        LET got == Received
        IN  \A i \in DOMAIN sample.st :
              LET own == Content(sample.st, i)
                  n   == sample.st[i].size
              IN  Portable(sample.st[i]) =>
                    \/ got[i] = own
                    \/ ~Complete /\ sample.st[i].kind = "number" /\ got[i] = [k \in 1 .. n |-> Zero]
                    \/ ~Complete /\ sample.st[i].kind # "number"
                         /\ \A k \in 1 .. n : got[i][k] \in {own[k], Kept}

\* Strings: those that write_string() accepts are read back, all of them and in
\* their order, whatever the size of the buffer and however many were refused
\* between them.  From any other bytes read_string() gives only texts whose
\* terminator is where it looks, and goes behind it; else it gives nothing and goes
\* to the end.
StringsReturn ==
    /\ Examining("strings") =>
         ReadStrings(Reader(WriteStrings(sample.size, sample.texts)), sample.max)
           = Accepted(sample.size, sample.texts)
    /\ Examining("bytes") =>
         LET r    == MoveTo(Reader(sample.bytes), sample.pos)
             s    == ReadString(r, sample.max)
             n    == Len(s.data)
             next == sample.pos + n + 1
         IN  \/ s.data = None /\ s.reader.pos = Len(sample.bytes)
                /\ ~\E k \in 1 .. Least(sample.max, Available(r)) :
                       /\ sample.bytes[sample.pos + k] = 0
                       /\ \A j \in 1 .. k - 1 : Printable(sample.bytes[sample.pos + j])
             \/ /\ n < sample.max /\ next <= Len(sample.bytes) /\ s.reader.pos = next
                /\ sample.bytes[next] = 0
                /\ \A k \in 1 .. n : Printable(s.data[k]) /\ s.data[k] = sample.bytes[sample.pos + k]

\* The table has the values of the dataset from the first one on, without a gap:
\* nothing in the packet would tell which one is left out.
Gapless(table) ==
    \A i \in DOMAIN dataset : SlotIndex(table, i) # NoSlot =>
        \A j \in 1 .. i - 1 : SlotIndex(table, j) # NoSlot

\* A transponder packet, however short its buffer is and wherever it is cut off, gives
\* the values that are all there.  The clock of the decoder follows that of the
\* encoder over gaps of up to a whole turn of the time stamps, a turn included.
TransponderReturns ==
    /\ Examining("xpdr") /\ Gapless(sample.table) =>
         LET got == decode_xpdr(encode_xpdr(sample.table, sample.size))
         IN  /\ \A i \in DOMAIN got : got[i] = [k \in 1 .. dataset[i] |-> <<i, k>>]
             /\ sample.size >= 15 /\ Len(sample.table) >= Len(dataset) => Len(got) = Len(dataset)
    /\ Examining("clock") =>
         LET ticks == sample.ticks
             c     == Clock([ts |-> Stamp(ticks[1]), now |-> 0], Tail(ticks))
         IN  c.now = Last(ticks) - ticks[1]

\* What streams carry is what was put into them.
StreamsReturn == StructuresReturn /\ StringsReturn /\ TransponderReturns

-----------------------------------------------------------------------------
\* The checksums: the shortcuts (four bits at a time, tables, tricks with shifts)
\* compute the remainder of the division by their polynomials; checksums of a
\* message in two parts go on with the first one's result (CRC32_SW only if it
\* consists of whole words); and CRC32_SW does not depend on the bytes behind the
\* message that it reads.
ChecksumsAgree ==
    Examining("message") =>
        LET m == sample.msg
            c == sample.crc
            head == SubSeq(m, 1, sample.cut)
            tail == SubSeq(m, sample.cut + 1, Len(m))
            c8  == Low(c, 8)
            c16 == Low(c, 16)
            Padded == m \o [k \in 1 .. (-Len(m)) % 4 |-> 0]
            Swapped == [k \in DOMAIN Padded |-> Padded[4 * ((k - 1) \div 4) + 4 - ((k - 1) % 4)]]
        IN  /\ CRC_8_8C(m, c8) = Mirrored(Poly8c, 8, m, c8)
            /\ CRC_8(Poly8c, m, c8) = Mirrored(Poly8c, 8, m, c8)
            /\ CRC_16_IBM(m, c16) = Mirrored({0, 13, 15}, 16, m, c16)
            /\ CRC_16(PolyCcitt, m, c16) = Checksum(PolyCcitt, 16, m, c16)
            /\ CRC_16_CCITT(m, c16) = Checksum(PolyCcitt, 16, m, c16)
            /\ CRC_32(PolyNodes, m, c) = Mirrored(PolyNodes, 32, m, c)
            /\ CRC32_SW(m, c, sample.behind) = Checksum(Poly32, 32, Swapped, c)
            /\ \A data \in {c, BitsOf(123456789)} : stm_crc_fast(c, data) = stm_crc_slow(c, data)
            /\ CRC_16_CCITT(m, c16) = CRC_16_CCITT(tail, CRC_16_CCITT(head, c16))
            /\ CRC_32(PolyNodes, m, c) = CRC_32(PolyNodes, tail, CRC_32(PolyNodes, head, c))
            /\ sample.cut % 4 = 0 =>
                 CRC32_SW(m, c, sample.behind) = CRC32_SW(tail, CRC32_SW(head, c, sample.behind), sample.behind)

-----------------------------------------------------------------------------
(* Values                                                                  *)

\* Floats without their signs are ordered as these numbers, evenly between two
\* neighbours of 16 bits.  Infinity stands for the number that would follow.
Key(f)     == f.e * 2^23 + f.m
KeyOf(v)   == IF v = Infinite THEN 143 * 2^23 ELSE Key(Unpacked16(Half(0, v)))
FromKey(k) == Float(0, k \div 2^23, k % 2^23)

\* The middle between a number of 16 bits and the next one, below the least one
\* its half.
Middle(v) == IF v = 0 THEN 102 * 2^23 ELSE KeyOf(v) + (KeyOf(v + 1) - KeyOf(v)) \div 2

Nearest(f) ==
    LET v == Packed16(f)
    IN  /\ v < Infinite => Key(f) < Middle(v)
        /\ v > 0 => Key(f) >= Middle(v - 1)

HalfReturned(h) ==
    /\ h.v \in 1 .. Infinite => float_to_f16(float_from_f16(h)) = h
    /\ h.v < Infinite => pack_float_f2(unpack_float_f2(h)) = h
    /\ h.v = Infinite => unpack_float_f2(h) = Float(0, 0, 0)
    /\ h.v > Infinite => float_from_f16(h) = Float(0, 0, 0) /\ unpack_float_f2(h) = Float(0, 0, 0)

Errors == -1 .. 1

\* A number k that was unpacked and is packed again, by one relay after the other:
\* cutting off what was rounded loses up to one unit each time, but never more,
\* never away from zero, and nothing where a unit is a whole number.
Repacked(packs(_, _, _), fmt, k) ==
    \A e1, e2 \in Errors :
        LET again == packs(unpack_value(k, fmt, e1), fmt, e2)
        IN  /\ Abs(again) \in {Abs(k) - 1, Abs(k)}
            /\ (k > 0 => again >= 0) /\ (k < 0 => again <= 0)
            /\ fmt.num = 1 => again = k

\* A real number x: what is out of range saturates, what is in range comes back
\* with an error of less than one unit and what was rounded.
Approximated(packs(_, _, _), fmt, x) ==
    LET unit == Grains * fmt.den
        y    == x * fmt.num
    IN  \A e1, e2 \in Errors :
          LET k == packs(x, fmt, e1)
          IN  /\ k \in fmt.lo .. fmt.hi
              /\ y > fmt.hi * unit + 1 => k = fmt.hi
              /\ y < fmt.lo * unit - 1 => k = fmt.lo
              /\ y \in fmt.lo * unit .. fmt.hi * unit =>
                   Abs(unpack_value(k, fmt, e2) - x) * fmt.num <= unit + 3 * fmt.num + 1

\* An angle comes back as the same angle, up to whole turns, one unit and one grain.
AngleReturned(x, span, max) ==
    \A e1 \in {-(span \div 8), 0, span \div 8}, e2 \in Errors :
        LET k == float_to_angle(x, span, max, e1)
            d == (float_from_angle(k, span, max, e2) - x) % (2 * span)
        IN  /\ Abs(k) <= max
            /\ LET off == IF d > span THEN 2 * span - d ELSE d IN (off - 2) * max <= span + span \div 8

\* The number that is not compared with the sign of its format is left out: see
\* pack_float.
Defined(fmt, x) == fmt.lo < 0 \/ x * fmt.num > -Grains * fmt.den

\* Floats of 16 bits are the nearest ones, with the carries from the mantissa into
\* the exponent and from the largest number to infinity, and they come back
\* unchanged; numbers of fixed point, angles and whole numbers come back as far as
\* their format goes; and the binary search finds every id that is there.
FormatsReturn ==
    /\ Examining("float") => Nearest(sample.f)
    /\ Examining("half") => HalfReturned(sample.h)
    /\ Examining("fixed") =>
         /\ sample.fmt \in TelemetryFixed =>
              /\ sample.k \in sample.fmt.lo .. sample.fmt.hi => Repacked(pack_value, sample.fmt, sample.k)
              /\ Approximated(pack_value, sample.fmt, sample.x)
         /\ sample.fmt \in CoreFixed =>
              LET Packs(x, fmt, err) == pack_float(x, fmt, err, 0)
              IN  /\ sample.k \in sample.fmt.lo .. sample.fmt.hi => Repacked(Packs, sample.fmt, sample.k)
                  /\ Defined(sample.fmt, sample.x) => Approximated(Packs, sample.fmt, sample.x)
    /\ Examining("angle") => AngleReturned(sample.x, sample.span, sample.max)
    /\ Examining("whole") =>
         /\ unpack_uint(pack_uint_u4(sample.v)) = sample.v
         /\ unpack_uint(pack_uint_u2(sample.v)) = Least(sample.v, 65535)
    /\ Examining("lookup") =>
         LET at == fmt_lookup(sample.uid, sample.list)
         IN  IF \E i \in DOMAIN sample.list : sample.list[i] = sample.uid
             THEN sample.list[at + 1] = sample.uid ELSE at = 0

-----------------------------------------------------------------------------
(* Variables of the backport                                               *)

\* A component that is set by the packet of another host is that of the other host,
\* or zero if that is no number, as far as a float can tell; the other components
\* and the other bits remain.
SetReturned(type, own, other, m) ==
    LET x     == pack_set(type, other, m)
        after == unpack_set(type, own, m, x, 6)
    IN  /\ get_data(type, after, m) = IF x = Invalid THEN 0 ELSE x
        /\ type \in {"vect", "point"} => \A k \in DOMAIN own \ {m} : after[k] = own[k]
        /\ type = "flag" => after \ m = own \ m
        /\ type = "uint" /\ other <= 16777216 => after = other

\* Components of variables are set alone and are packed one behind the other; and
\* the buffers of the downlink have room for the variables of the table, in both
\* modes.
VariablesReturn ==
    /\ Examining("set") => SetReturned(sample.args[1], sample.args[2], sample.args[3], sample.args[4])
    /\ Examining("vect") =>
         LET bytes == [i \in 1 .. Components(sample.type) |-> [k \in 1 .. sample.n |-> <<i, k>>]]
         IN  UnpackEach(PackEach(bytes, sample.n), Len(bytes), sample.n) = bytes
    /\ Examining("template") =>
         LET size(var) == VarSize(var, IF sample.hd THEN var.full ELSE var.ext)
         IN  /\ \A i \in DOMAIN Variables : size(Variables[i]) <= VarBytes
             /\ FoldSeq(LAMBDA var, sum : sum + size(var), 0, Variables) <= SnapshotBytes
             /\ Len(Variables) <= 8 * MaskBytes(Len(Variables))

\* Values come back from packets, as far as their formats go.
ValuesReturn == FormatsReturn /\ VariablesReturn

=============================================================================
