-------------------------------- MODULE Cobs --------------------------------
(***************************************************************************)
(* The packets of serial lines (src/xbus/serial/CobsEncoder.h and           *)
(* CobsDecoder.h): a payload and its CRC of two bytes are cut into blocks   *)
(* that end before each byte of zero, a block is led by its length, and a   *)
(* zero ends the packet.                                                    *)
(*                                                                          *)
(* The decoder gets any bytes at all, in chunks of any length: what comes   *)
(* out of an encoder, what is left of it, what is damaged, and noise.  One  *)
(* action is one call of decode().  seen, read and missed are history.       *)
(* Operators named Bad... are wrong forms of the operator that follows.     *)
(***************************************************************************)
EXTENDS Integers, Sequences

CONSTANTS
    packet_size,  \* xbus::size_packet_max, 512 in the code
    MaxByte,      \* 0xFF in the code; also the code of a full block
    Crc(_),       \* payload -> the two bytes of its CRC
    MaxChunk      \* bound: the bytes that one call of decode() gets

ASSUME CobsAssumption ==
    packet_size \in Nat \ {0} /\ MaxByte \in Nat \ {0, 1} /\ MaxChunk \in Nat \ {0}

esc == 0

Bytes    == 0 .. MaxByte
Payloads == UNION {[1 .. n -> Bytes] : n \in 1 .. packet_size}

ASSUME CrcAssumption == \A p \in Payloads : Crc(p) \in [1 .. 2 -> Bytes]

Chunks   == UNION {[1 .. n -> Bytes] : n \in 0 .. MaxChunk}

VARIABLES
    dec,      \* the decoder: code, copy, and the bytes up to rcnt in buf
    status,   \* what decode() returned last
    out,      \* data() of a packet, up to size(); valid until the next call
    seen,     \* the bytes since the decoder was restarted
    read,     \* those that out was read from
    missed    \* the last call refused a byte of a packet as it was encoded

vars == <<dec, status, out, seen, read, missed>>

-----------------------------------------------------------------------------
(* The encoder                                                             *)

\* Blocks that are finished, and the bytes of the block in progress.
NewBlock(e) == [done |-> e.done \o <<Len(e.block) + 1>> \o e.block, block |-> <<>>]

\* A full block is finished before the next byte.
Closed(e) == IF Len(e.block) + 1 = MaxByte THEN NewBlock(e) ELSE e

BadPut(e, c) ==               \* no limit of a block
    IF c = esc THEN NewBlock(e) ELSE [e EXCEPT !.block = Append(@, c)]
Put(e, c) == IF c = esc THEN NewBlock(Closed(e)) ELSE [Closed(e) EXCEPT !.block = Append(@, c)]

\* The blocks behind each of the bytes of d.
Blocks(d) ==
    LET e[n \in 0 .. Len(d)] == IF n = 0 THEN [done |-> <<>>, block |-> <<>>] ELSE Put(e[n - 1], d[n])
    IN  e

\* encode(src, sz), without the delimiter at the end.
Data(p)   == p \o Crc(p)
Encode(p) == NewBlock(Blocks(Data(p))[Len(Data(p))]).done

BadOverhead ==                \* as if a full block had MaxByte bytes of data
    2 + (packet_size + 2 + MaxByte - 1) \div MaxByte + 1

\* overhead(packet_size)
Overhead == 2 + (packet_size + 2 + MaxByte - 2) \div (MaxByte - 1) + 1

Packets == [p \in Payloads |-> Encode(p)]

\* What may arrive of the bytes of a packet and its delimiter.
Begun == UNION {{SubSeq(Append(Packets[p], esc), 1, n) : n \in 1 .. Len(Packets[p]) + 1} :
                 p \in Payloads}

-----------------------------------------------------------------------------
(* The decoder                                                             *)

BadCapacityOver == packet_size + 3     \* one byte behind the buffer
Capacity == packet_size + 2

Start == [code |-> MaxByte, copy |-> 0, buf |-> <<>>]

\* What one byte does to the decoder, and the status it sets, if any.
Is(d, result) == [dec |-> d, status |-> result]

BadDelimiter(d) ==            \* a block that is cut off counts
    IF Len(d.buf) <= 2 THEN Is(Start, "ErrorSize")
    ELSE LET n == Len(d.buf) - 2
         IN  IF SubSeq(d.buf, n + 1, n + 2) = Crc(SubSeq(d.buf, 1, n))
             THEN Is(Start, "PacketAvailable") ELSE Is(Start, "ErrorCRC")

Delimiter(d) ==
    IF d.copy > 0 \/ Len(d.buf) <= 2 THEN Is(Start, "ErrorSize")
    ELSE LET n == Len(d.buf) - 2
         IN  IF SubSeq(d.buf, n + 1, n + 2) = Crc(SubSeq(d.buf, 1, n))
             THEN Is(Start, "PacketAvailable") ELSE Is(Start, "ErrorCRC")

\* write_decoded_byte(), then the rest of the turn for decoder next.
WriteByte(d, b, next) ==
    IF Len(d.buf) >= Capacity THEN Is(Start, "ErrorOverflow")
    ELSE Is([next EXCEPT !.buf = Append(d.buf, b)], "Unknown")

Byte(d, c) ==
    IF c = esc THEN Delimiter(d)
    ELSE IF d.copy > 0 THEN WriteByte(d, c, [d EXCEPT !.copy = @ - 1])
    ELSE LET begun == [d EXCEPT !.code = c, !.copy = c - 1]
         IN  IF d.code # MaxByte THEN WriteByte(d, esc, begun) ELSE Is(begun, "Unknown")

\* The loop of decode(): it stops behind a packet, an error stays the status.
Turn(r, c) ==
    IF r.status = "PacketAvailable" THEN r
    ELSE LET b     == Byte(r.dec, c)
             fine == Append(r.seen, c) \in Begun
             next  == [r EXCEPT !.dec = b.dec,
                                !.status = IF b.status = "Unknown" THEN @ ELSE b.status,
                                !.seen = IF b.status = "Unknown" THEN Append(@, c) ELSE <<>>,
                                !.missed = @ \/ (fine /\ b.status \notin {"Unknown", "PacketAvailable"})]
         IN  IF b.status # "PacketAvailable" THEN next
             ELSE [next EXCEPT !.out = SubSeq(r.dec.buf, 1, Len(r.dec.buf) - 2), !.read = r.seen]

State(r) ==
    /\ dec' = r.dec
    /\ status' = r.status
    /\ out' = r.out
    /\ seen' = r.seen
    /\ read' = r.read
    /\ missed' = r.missed

NoBytes(d, bytes) == [dec |-> d, status |-> "Unknown", out |-> <<>>, seen |-> bytes, read |-> <<>>,
                      missed |-> FALSE]

Init ==
    /\ dec = Start
    /\ status = "Unknown"
    /\ out = <<>> /\ seen = <<>> /\ read = <<>>
    /\ missed = FALSE

Decode(chunk) ==
    LET t[n \in 0 .. Len(chunk)] == IF n = 0 THEN NoBytes(dec, seen) ELSE Turn(t[n - 1], chunk[n])
        r == t[Len(chunk)]
        all == IF chunk = <<>> THEN "DataDropped" ELSE "DataAccepted"
    IN  State([r EXCEPT !.status = IF @ = "Unknown" THEN all ELSE @])

Reset == State(NoBytes(Start, <<>>))

Next == (\E chunk \in Chunks : Decode(chunk)) \/ Reset

Spec == Init /\ [][Next]_vars

-----------------------------------------------------------------------------
\* The buffer of the decoder (write_decoded_byte) and the block that it copies
\* are never longer than there is room.
TypeOK ==
    /\ dec.code \in Bytes \ {esc} /\ dec.copy \in 0 .. dec.code - 1
    /\ dec.buf \in Seq(Bytes) /\ Len(dec.buf) <= packet_size + 2
    /\ status \in {"Unknown", "DataAccepted", "DataDropped", "PacketAvailable", "ErrorSize",
                   "ErrorCRC", "ErrorOverflow"}

\* encode() has no checks: for every payload that can arrive, the buffer has to be
\* long enough for its CRC, the codes of its blocks and the delimiter as well.
EncodedFits == status = "PacketAvailable" => Len(Encode(out)) + 1 <= packet_size + Overhead

\* Whatever bytes came before, and however they are cut into calls: none of the
\* bytes of encode() is refused by a decoder that has been restarted, and their
\* delimiter gives the packet back, also the longest one and one whose CRC
\* contains a zero or crosses the end of a block.
WholeReturned == ~missed

\* No other bytes give a packet, but those of encode() with an empty block behind
\* a full one: a block that is cut off, a packet that is too long or has no
\* payload is refused, although the CRC may match.
OthersRefused ==
    status = "PacketAvailable" =>
        /\ out \in Payloads
        /\ read \in {Packets[out], Append(Packets[out], 1)}

=============================================================================
