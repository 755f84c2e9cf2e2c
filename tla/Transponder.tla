----------------------------- MODULE Transponder -----------------------------
(***************************************************************************)
(* The transponder packets of telemetry: TelemetryEncoder::encode_xpdr and  *)
(* TelemetryDecoder::decode_xpdr (src/xbus/telemetry), and the clock that   *)
(* the decoder makes of the time stamps of all packets.                     *)
(*                                                                          *)
(* The dataset is a fixed list of values; a packet does not describe them.  *)
(* Their formats come from the dictionary, which is not in the repository:  *)
(* the sizes are an example.  The bytes of value i are pairs <<i, k>>.      *)
(***************************************************************************)
EXTENDS XbusStreams

dataset == <<4, 4, 2, 2, 1, 1, 1>>

\* The slots of the values in a table: _xpdr_slot_idx, 255 for those without one.
NoSlot == 255
SlotIndex(table, i) ==
    IF \E j \in DOMAIN table : table[j] = i
    THEN (CHOOSE j \in DOMAIN table : table[j] = i /\ \A k \in 1 .. j - 1 : table[k] # i) - 1 ELSE NoSlot

\* Values without a slot are left out; what does not fit is cut off.
encode_xpdr(table, size) ==
    LET Put(w, i) == IF SlotIndex(table, i) >= Len(table) THEN w
                     ELSE WriteBytes(w, [k \in 1 .. dataset[i] |-> <<i, k>>])
    IN  FoldLeft(Put, Writer(size), [i \in DOMAIN dataset |-> i]).buf

\* The values that are unpacked, until the bytes end; the other ones stay as they were.
decode_xpdr(bytes) ==
    LET Get(s, i) ==
          IF s.ended \/ dataset[i] > Available(s.reader) THEN [s EXCEPT !.ended = TRUE]
          ELSE [reader |-> MoveTo(s.reader, s.reader.pos + dataset[i]),
                values |-> Append(s.values, Taken(s.reader, dataset[i])), ended |-> FALSE]
    IN  FoldLeft(Get, [reader |-> Reader(bytes), values |-> <<>>, ended |-> FALSE],
                 [i \in DOMAIN dataset |-> i]).values

-----------------------------------------------------------------------------
(* The clock: time stamps of 16 bits in ticks of 20 ms                      *)

Stamp(tick) == tick % 65536
Ticks(ts, last) == LET dts == (ts - last) % 65536 IN IF dts = 0 THEN 65536 ELSE dts

\* The clock of the decoder after packets that were sent at these ticks.
Clock(start, ticks) ==
    FoldLeft(LAMBDA c, tick : [ts |-> Stamp(tick), now |-> c.now + Ticks(Stamp(tick), c.ts)], start, ticks)

=============================================================================
