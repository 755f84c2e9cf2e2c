--------------------------- MODULE TelemetryStream ---------------------------
(***************************************************************************)
(* How the values of one telemetry packet are written and read, byte by     *)
(* byte: TelemetryEncoder::encode_values and TelemetryDecoder::decode_values *)
(* (src/xbus/telemetry/) over the bounded streams of src/xbus/XbusStream*.h. *)
(*                                                                          *)
(* A packet is: a time stamp and a byte of the hash of the table; the       *)
(* number of values; code bytes, each with one bit for each of the next     *)
(* seven fields and followed by the values of the fields whose bit is set;  *)
(* after two or more code bytes without a bit, an offset to the next field  *)
(* instead of them; and at the end all bit fields, packed.  Two values of   *)
(* four bits share a byte.                                                  *)
(*                                                                          *)
(* An input is a table (a sequence of fields: places count from 1), the     *)
(* number of the packet, the places whose value has changed, the bit fields *)
(* that are set, the size of the buffer, and fill, which the values are      *)
(* computed from.  Which places change is the business of TelemetryEncoder. *)
(* Operators named Bad... are wrong forms of the operator that follows.     *)
(***************************************************************************)
EXTENDS Integers, Sequences, FiniteSets, FiniteSetsExt

CONSTANT Inputs

Formats == {"none", "bit", "u4", "u8", "u16", "u32"}
Seqs    == {"always", "skip", "rare", "scheduled"}

ASSUME StreamAssumption ==
    \A in \in Inputs :
        /\ \A i \in DOMAIN in.table : in.table[i].fmt \in Formats /\ in.table[i].seq \in Seqs
        /\ in.changed \cup in.set \subseteq DOMAIN in.table
        /\ in.pseq \in 0 .. 3 /\ in.size \in Nat /\ in.size >= 3 /\ in.fill \in Nat

VARIABLES input, phase, packet, result

vars == <<input, phase, packet, result>>

-----------------------------------------------------------------------------
(* What both sides agree upon                                              *)

\* What pack_value() and unpack_value() return.
SizeOf(fmt) == CASE fmt \in {"none", "bit"} -> 0
                 [] fmt \in {"u4", "u8"}    -> 1
                 [] fmt = "u16"             -> 2
                 [] fmt = "u32"             -> 4

\* The bytes of the value at place i; a value of four bits is one number.
Value(in, i) ==
    IF in.table[i].fmt = "u4" THEN <<(in.fill * (i + 1)) % 16>>
    ELSE [k \in 1 .. SizeOf(in.table[i].fmt) |-> (in.fill * (3 * i + k)) % 256]

\* Packet number n has a place for a field of this pace.
Passes(seq, n) ==
    \/ seq \in {"always", "scheduled"}
    \/ seq = "skip" /\ n % 2 = 0
    \/ seq = "rare" /\ n % 4 = 0

\* The first place from i on that holds a bit field, or the place behind the table.
FirstBit(tab, i) ==
    LET bits == {j \in i .. Len(tab) : tab[j].fmt = "bit"}
    IN  IF bits = {} THEN Len(tab) + 1 ELSE CHOOSE j \in bits : \A k \in bits : j <= k

Has(byte, bit) == (byte \div (2 ^ bit)) % 2 = 1

\* In front of the values stand a time stamp and a byte of the hash of the table:
\* hdr_s, which encode() has written and decode() reads.
Hdr == <<1, 2, 3>>

-----------------------------------------------------------------------------
(* encode_values()                                                         *)

\* XbusStreamWriter::write(): what does not fit is not written.
Write(out, bytes, size) ==
    LET all == out \o bytes IN SubSeq(all, 1, IF Len(all) < size THEN Len(all) ELSE size)

\* (*ptr) |= v; behind the buffer it changes no byte of the packet.
OrAt(out, ptr, v) == IF ptr \in DOMAIN out THEN [out EXCEPT ![ptr] = @ + v] ELSE out

\* (*code_cnt)++.
CountAt == Len(Hdr) + 1
CountUp(out) == IF CountAt \in DOMAIN out THEN [out EXCEPT ![CountAt] = (@ + 1) % 256] ELSE out

\* The bytes of an offset: as many full ones as it takes, and the rest.
BadOffset(d) == IF d >= 127 THEN <<255>> \o (IF d = 127 THEN <<>> ELSE <<128 + (d - 127)>>)
                ELSE <<d + 128>>                 \* no end behind a full one
Offset(d) == [k \in 1 .. d \div 127 |-> 255] \o <<128 + (d % 127)>>

\* bit = 6: the next field starts a code.  paired and torn are history: the last
\* value is the second one of a pair; codes were taken back that had found no place.
StartEncode(in) ==
    LET out == Write(Hdr, <<0>>, in.size)
    IN  [index |-> 1, out |-> out, keep |-> Len(out), code |-> Len(out) + 1, bit |-> 6,
         zeros |-> 0, first |-> 0, nibble |-> 0, paired |-> FALSE, torn |-> FALSE]

BadNextCode(in, i, e) ==        \* a pair stays open
    IF e.bit < 6 THEN [e EXCEPT !.bit = @ + 1]
    ELSE [e EXCEPT !.out = Write(@, <<0>>, in.size), !.code = Len(e.out) + 1, !.bit = 0,
                   !.first = IF e.zeros = 0 THEN i ELSE @, !.zeros = @ + 1]
NextCode(in, i, e) ==
    IF e.bit < 6 THEN [e EXCEPT !.bit = @ + 1]
    ELSE [e EXCEPT !.out = Write(@, <<0>>, in.size), !.code = Len(e.out) + 1, !.bit = 0,
                   !.first = IF e.zeros = 0 THEN i ELSE @, !.zeros = @ + 1, !.nibble = 0]

\* Codes without a bit are replaced by an offset: the stream goes back by their
\* number, also when some of them found no place, and then over what was there before;
\* below 0 it is set to the end of the buffer, which is where it was.
Back(out, n) == IF n <= Len(out) THEN SubSeq(out, 1, Len(out) - n) ELSE out

BadMark(in, i, e) ==            \* one code is left
    IF e.zeros < 2 THEN [e EXCEPT !.out = OrAt(@, e.code, 2 ^ e.bit)]
    ELSE [e EXCEPT !.out = Write(Back(@, 1), Offset(i - e.first), in.size), !.bit = 6]
Mark(in, i, e) ==
    IF e.zeros < 2 THEN [e EXCEPT !.out = OrAt(@, e.code, 2 ^ e.bit)]
    ELSE [e EXCEPT !.out = Write(Back(@, e.zeros), Offset(i - e.first), in.size), !.bit = 6]

Put(in, i, e) ==
    LET v == Value(in, i)
    IN  IF in.table[i].fmt = "u4" /\ e.nibble # 0
        THEN [e EXCEPT !.out = OrAt(@, e.nibble, 16 * v[1]), !.nibble = 0, !.paired = TRUE]
        ELSE LET out == Write(e.out, v, in.size)
             IN  [e EXCEPT !.out = out, !.keep = Len(out), !.paired = FALSE,
                           !.nibble = IF in.table[i].fmt = "u4" THEN Len(e.out) + 1 ELSE 0]

EncodeField(in, e) ==
    LET i == e.index
        c == NextCode(in, i, e)
    IN  [(IF ~Passes(in.table[i].seq, in.pseq) THEN e
          ELSE IF i \notin in.changed THEN c
          ELSE [Put(in, i, Mark(in, i, c)) EXCEPT
                    !.out = CountUp(@), !.zeros = 0,
                    !.torn = @ \/ (c.zeros >= 2 /\ c.code \notin DOMAIN c.out)])
         EXCEPT !.index = i + 1]

RECURSIVE EncodeFields(_, _)
EncodeFields(in, e) ==
    IF e.index > Len(in.table) \/ in.table[e.index].fmt = "bit" THEN e
    ELSE EncodeFields(in, EncodeField(in, e))

\* The values that the packet carries, as the loop leaves them.
Encoded(in) == EncodeFields(in, StartEncode(in))

\* One byte for eight fields from the first bit field on.
BitBytes(in) ==
    LET from == FirstBit(in.table, 1)
        bit(i, j) == IF i \in in.set THEN 2 ^ j ELSE 0
    IN  [k \in 1 .. (Len(in.table) - from + 8) \div 8 |->
            MapThenSumSet(LAMBDA j : bit(from + 8 * (k - 1) + j, j), 0 .. 7)]

EncodeValues(in) ==
    LET e == Encoded(in) IN Write(SubSeq(e.out, 1, e.keep), BitBytes(in), in.size)

-----------------------------------------------------------------------------
(* decode_values()                                                         *)

Left(d) == Len(packet) - d.pos

\* read<uint8_t>(): at the end of the stream it is 0.
Next1(d) == IF Left(d) = 0 THEN 0 ELSE packet[d.pos + 1]
Step1(d) == IF Left(d) = 0 THEN d.pos ELSE d.pos + 1

\* values: place -> value read, for the places that were updated.
StartDecode == [pos |-> CountAt, index |-> 1, cnt |-> packet[CountAt],
                code |-> 0, bit |-> 6, pair |-> 0, nibble |-> FALSE, stop |-> FALSE,
                values |-> [i \in {} |-> <<>>]]

Stop(d) == [d EXCEPT !.stop = TRUE]

\* An offset goes on while its bytes are full.
RECURSIVE ReadOffset(_, _, _)
ReadOffset(d, offset, dindex) ==
    IF offset # 127 THEN [d EXCEPT !.index = @ + dindex]
    ELSE IF ~Has(Next1(d), 7) THEN Stop([d EXCEPT !.pos = Step1(d)])
    ELSE ReadOffset([d EXCEPT !.pos = Step1(d)], Next1(d) % 128, dindex + (Next1(d) % 128))

ReadCode(tab, d) ==
    LET c == [d EXCEPT !.pos = Step1(d), !.code = Next1(d), !.bit = 0, !.nibble = FALSE]
        o == ReadOffset(c, c.code % 128, c.code % 128)
    IN  IF d.bit < 6 THEN [d EXCEPT !.bit = @ + 1]
        ELSE IF ~Has(c.code, 7) THEN c
        ELSE IF c.code % 128 < 7 THEN Stop(c)
        ELSE IF o.stop \/ o.index > Len(tab) THEN Stop(o)
        ELSE [o EXCEPT !.bit = 6, !.code = 64]

Read(d, i, v) ==
    [d EXCEPT !.cnt = @ - 1,
              !.values = [j \in DOMAIN @ \cup {i} |-> IF j = i THEN v ELSE @[j]]]

\* The value of the field at d.index, or the end of the loop.  With half of a
\* pair left nothing is read for a field of another format: tables where such a
\* field follows are not Sorted (TelemetryEncoder).
ReadValue(tab, d) ==
    LET u4 == tab[d.index].fmt = "u4"
        sz == SizeOf(tab[d.index].fmt)
        v  == SubSeq(packet, d.pos + 1, d.pos + sz)
    IN  IF d.nibble
        THEN Read([d EXCEPT !.nibble = FALSE], d.index, IF u4 THEN <<d.pair \div 16>> ELSE <<>>)
        ELSE IF sz = 0 \/ sz > Left(d) THEN Stop(d)
        ELSE LET r == [d EXCEPT !.pos = @ + sz, !.nibble = u4, !.pair = IF u4 THEN v[1] ELSE @]
             IN  Read(r, d.index, IF u4 THEN <<v[1] % 16>> ELSE v)

\* One turn of the loop; index moves on unless the loop is left by a break.
DecodeField(tab, pseq, d) ==
    IF ~Passes(tab[d.index].seq, pseq) THEN [d EXCEPT !.index = @ + 1]
    ELSE LET c == ReadCode(tab, d)
             v == ReadValue(tab, c)
         IN  IF c.stop \/ (Left(c) = 0 /\ ~c.nibble) THEN Stop(c)
             ELSE IF ~Has(c.code, c.bit) THEN [c EXCEPT !.index = @ + 1]
             ELSE IF v.stop \/ v.cnt = 0 THEN Stop(v)
             ELSE [v EXCEPT !.index = @ + 1]

RECURSIVE DecodeFields(_, _, _)
DecodeFields(tab, pseq, d) ==
    IF d.stop \/ d.index > Len(tab) \/ Left(d) = 0 \/ d.cnt = 0 \/ tab[d.index].fmt = "bit"
    THEN d
    ELSE DecodeFields(tab, pseq, DecodeField(tab, pseq, d))

\* The appended bit fields, as many as there are bytes for.
BadDecodeBits(tab, d) == d         \* bits are taken for values
DecodeBits(tab, d) ==
    LET from == FirstBit(tab, d.index)
        n    == Len(tab) - from + 1
        read == {i \in from .. Len(tab) : (i - from) \div 8 < Left(d)}
        v(i) == <<IF Has(packet[d.pos + 1 + (i - from) \div 8], (i - from) % 8) THEN 1 ELSE 0>>
    IN  IF d.index > Len(tab) \/ Left(d) = 0 \/ d.cnt # 0 THEN d
        ELSE [d EXCEPT !.cnt = n - Cardinality(read),
                       !.pos = @ + (IF (n + 7) \div 8 < Left(d) THEN (n + 7) \div 8 ELSE Left(d)),
                       !.values = [i \in DOMAIN @ \cup read |-> IF i \in read THEN v(i) ELSE @[i]]]

\* reset: the decoder gives up its table and all values.
Nothing == [reset |-> FALSE, values |-> [i \in {} |-> <<>>]]
Refused == [Nothing EXCEPT !.reset = TRUE]

DecodeValues(tab, pseq) ==
    LET d == DecodeBits(tab, DecodeFields(tab, pseq, StartDecode))
    IN  IF Left(d) # 0 \/ d.cnt # 0 THEN Refused ELSE [reset |-> FALSE, values |-> d.values]

\* decode(), which has the table: one without values is no error.
DecodePacket(tab, pseq) ==
    IF Len(packet) < Len(Hdr) THEN Nothing
    ELSE IF packet[Len(Hdr)] # Hdr[Len(Hdr)] THEN Refused
    ELSE IF Len(packet) = Len(Hdr) THEN Nothing
    ELSE DecodeValues(tab, pseq)

-----------------------------------------------------------------------------
Init ==
    /\ input \in Inputs
    /\ phase = "encode" /\ packet = <<>> /\ result = Refused

Encode ==
    /\ phase = "encode" /\ phase' = "decode"
    /\ packet' = EncodeValues(input)
    /\ UNCHANGED <<input, result>>

Decode ==
    /\ phase = "decode" /\ phase' = "done"
    /\ result' = DecodePacket(input.table, input.pseq)
    /\ UNCHANGED <<input, packet>>

Next == Encode \/ Decode

Spec == Init /\ [][Next]_vars

-----------------------------------------------------------------------------
\* What the packet is to carry.
Bits == {i \in DOMAIN input.table : i >= FirstBit(input.table, 1)}
Carried == {i \in input.changed : i \notin Bits /\ Passes(input.table[i].seq, input.pseq)}
Sent(i) == IF i \in Bits THEN <<IF i \in input.set THEN 1 ELSE 0>> ELSE Value(input, i)

\* The packet would need no larger buffer, and no codes without a place were taken
\* back while it was written.
Ample == [input EXCEPT !.size = Len(Hdr) + 5 * Len(input.table) + 2]
Torn  == Encoded(input).torn
Fits  == Len(EncodeValues(Ample)) <= input.size /\ ~Torn

\* The last value of the packet is the second one of a pair, and no bits follow.
EndsInPair == Bits = {} /\ Encoded(input).paired

\* A packet that fits its buffer is read as it was written: every value at its
\* place, none missing, none else, whatever codes, offsets, pairs and paces there
\* are, unless its last byte is a pair.
RoundTrip ==
    (phase = "done" /\ Fits /\ ~EndsInPair) =>
        /\ ~result.reset
        /\ DOMAIN result.values = Carried \cup Bits
        /\ \A i \in DOMAIN result.values : result.values[i] = Sent(i)

\* A packet that did not fit, of which XbusStreamWriter dropped bytes without
\* notice, gives no wrong value: the values read are the values sent.  This leaves
\* out the packets where codes were taken back that had found no place
\* (TelemetryEncoder.cpp:361): their number is taken off the values in front, and
\* what is written there is read as values that nobody sent.
Truthful ==
    (phase = "done" /\ ~Torn) =>
        \A i \in DOMAIN result.values : i \in Carried \cup Bits /\ result.values[i] = Sent(i)

\* The same for all packets that fit: TelemetryDecoder.cpp:74 "get values from
\* packed stream", which TelemetryEncoder.cpp:316 "pack updated slots values" made.
UpdatedSlotsRead ==
    (phase = "done" /\ Fits) => DOMAIN result.values = Carried \cup Bits

=============================================================================
