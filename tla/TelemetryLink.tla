---------------------------- MODULE TelemetryLink ----------------------------
(***************************************************************************)
(* A telemetry stream between an encoder and a decoder                      *)
(* (src/xbus/telemetry/): how the decoder gets the table of the encoder,    *)
(* and how it notices that the table is no longer the one it has.           *)
(*                                                                          *)
(* Each packet of values carries one of the four bytes of the hash of the   *)
(* table, chosen by the number of the packet (decode); the table itself is  *)
(* sent in blocks on request, each with the whole hash (encode_format,      *)
(* decode_format).  The carrier loses messages and may reorder them, and    *)
(* the table changes at any time.                                           *)
(*                                                                          *)
(* The hash is ideal: it matches the bytes of the table it was computed of  *)
(* and no others; single bytes of the hashes of two tables may be equal.    *)
(* How values are written is in TelemetryStream; here a packet has no       *)
(* values ("none"), values ("some"), or values that end in a pair of four   *)
(* bits, which no decoder reads ("pair").  Versions and block sizes are the *)
(* same on both sides.  The owner of the decoder, who requests the blocks,  *)
(* is not part of the library.  Operators named Bad... are wrong forms of   *)
(* the operator that follows.                                               *)
(***************************************************************************)
EXTENDS Integers, Sequences, FiniteSets

CONSTANTS
    Tables,      \* the tables the encoder may have: sequences of fields
    HashOf,      \* table -> four bytes, <<b0, b1, b2, b3>>
    Kinds,       \* the kinds of packets of a table that is not empty
    field_size,  \* sizeof(field_s): 3 in the code
    block_size,  \* 64 in the code
    fields_size, \* sizeof(_slots.fields): 720 in the code
    NetSize,     \* bound: messages on their way
    Reorder,     \* whether the carrier reorders messages
    Lossy,       \* whether the carrier loses messages
    AnyPart      \* whether the owner asks for blocks in any order

ASSUME LinkAssumption ==
    /\ field_size \in Nat \ {0} /\ block_size \in Nat \ {0}
    /\ fields_size \in Nat \ {0} /\ NetSize \in Nat
    /\ \A t \in Tables : Len(t) \in Nat /\ Len(t) * field_size <= fields_size
    /\ DOMAIN HashOf = Tables
    /\ \A t \in Tables : HashOf[t] \in [1 .. 4 -> 0 .. 255]
    /\ \A t, u \in Tables : HashOf[t] = HashOf[u] => t = u
    /\ {Reorder, Lossy, AnyPart} \subseteq BOOLEAN

VARIABLES
    table,       \* the table of the encoder
    pseq,        \* the number of the next packet
    net,         \* the messages on their way, oldest first
    dec,         \* the decoder
    ask,         \* the block that the owner of the decoder asks for next
    misreads,    \* history: packets numbered one after the other, written with one table,
                 \* whose values were read with one other table (counted up to 4)
    misread      \* history: the number of the last of them, the table it was written
                 \* with, and the hash of the one it was read with

history == <<misreads, misread>>
vars == <<table, pseq, net, dec, ask, history>>

Bytes(t) == [i \in 1 .. Len(t) * field_size |->
                <<t[1 + (i - 1) \div field_size], (i - 1) % field_size>>]
Parts(t) == (Len(t) * field_size + block_size - 1) \div block_size

MaxParts == (fields_size + block_size - 1) \div block_size

Unset == <<"none", 0>>
NoHash == <<0, 0, 0, 0>>

\* The hash of bytes that are no table.
OtherHash == <<256, 256, 256, 256>>
Hash(bytes) == IF \E t \in Tables : Bytes(t) = bytes
               THEN HashOf[CHOOSE t \in Tables : Bytes(t) = bytes] ELSE OtherHash

None == [seq |-> 0, table |-> <<>>, hash |-> NoHash]

\* _hash has no initialiser: it is whatever the memory held.
Init ==
    /\ table \in Tables
    /\ pseq = 0
    /\ net = <<>>
    /\ dec \in [fields : {[i \in 1 .. fields_size |-> Unset]}, slots_cnt : {0},
                hash : {NoHash} \cup {HashOf[t] : t \in Tables}, hash_valid : {0}, valid : {FALSE}]
    /\ ask = 0
    /\ misreads = 0
    /\ misread = None

-----------------------------------------------------------------------------
(* The encoder                                                             *)

\* add(), clear() and sync_flush() change the table and its hash together.
ChangeTable ==
    /\ table' \in Tables
    /\ UNCHANGED <<pseq, net, dec, ask, history>>

Send(m) == Len(net) < NetSize /\ net' = Append(net, m)

ValuesMessage(t, n, k) == [type |-> "values", seq |-> n, feed_hash |-> HashOf[t][n + 1],
                           kind |-> k, table |-> t]

Encode ==
    /\ \E k \in IF table = <<>> THEN {"none"} ELSE Kinds : Send(ValuesMessage(table, pseq, k))
    /\ pseq' = (pseq + 1) % 4
    /\ UNCHANGED <<table, dec, ask, history>>

Block(t, part) ==
    SubSeq(Bytes(t), part * block_size + 1,
           IF (part + 1) * block_size < Len(Bytes(t)) THEN (part + 1) * block_size ELSE Len(Bytes(t)))

FormatMessage(t, part) == [type |-> "format", part |-> part, pcnt |-> Parts(t),
                           hash |-> HashOf[t], data |-> Block(t, part)]

\* The owner may ask for a block that the table does not have any more.
EncodeFormat(part) ==
    /\ Send(FormatMessage(table, part))
    /\ UNCHANGED <<table, pseq, dec, ask, history>>

Request == \E p \in IF AnyPart THEN 0 .. MaxParts - 1 ELSE {ask} : EncodeFormat(p)

-----------------------------------------------------------------------------
(* The decoder                                                             *)

\* reset(false) and reset()
ResetTable(d) == [d EXCEPT !.slots_cnt = 0, !.valid = FALSE]
Reset(d) == [ResetTable(d) EXCEPT !.hash = NoHash, !.hash_valid = 0]

Loaded(d) == SubSeq(d.fields, 1, d.slots_cnt * field_size)

\* The check of the hash feed in decode().
BadFeed(d, m) ==              \* the table is kept
    [d EXCEPT !.hash[m.seq + 1] = m.feed_hash]
BadFeedUncounted(d, m) ==     \* every packet counts
    LET same == d.hash[m.seq + 1] = m.feed_hash
    IN  IF same THEN [d EXCEPT !.hash_valid = @ + 1]
        ELSE [Reset(d) EXCEPT !.hash[m.seq + 1] = m.feed_hash, !.hash_valid = 1]
Feed(d, m) ==
    LET i    == m.seq + 1
        same == d.hash[i] = m.feed_hash
        kept == IF ~same /\ (d.hash_valid > 0 \/ d.hash[i] # 0) THEN Reset(d) ELSE d
        fed  == [kept EXCEPT !.hash[i] = m.feed_hash,
                             !.hash_valid = IF same /\ @ = 4 THEN @ ELSE @ + 1]
    IN  IF fed.hash_valid > 4 THEN Reset(fed) ELSE fed

\* Values read with a table they were not written with may be refused or not.
Values(d, m) ==
    CASE d.hash_valid # 4             -> {[d EXCEPT !.valid = FALSE]}
      [] d.hash_valid = 4 /\ d.slots_cnt = 0 -> {[d EXCEPT !.valid = m.kind = "none"]}
      [] OTHER ->
           LET read == [d EXCEPT !.valid = TRUE]
           IN  IF m.kind = "none" THEN {read}
               ELSE IF Bytes(m.table) # Loaded(d) THEN {read, Reset(read)}
               ELSE IF m.kind = "pair" THEN {Reset(read)}
               ELSE {read}

\* check_hash(): the first sz bytes are the table.
BadCheckHash(d, sz) == d.hash_valid = 4    \* the bytes are not looked at
CheckHash(d, sz) == d.hash_valid = 4 /\ Hash(SubSeq(d.fields, 1, sz)) = d.hash
Load(d, sz) == [d EXCEPT !.slots_cnt = sz \div field_size, !.valid = TRUE]

\* decode_format(): the decoder and what is returned.
Error(d) == [dec |-> Reset(d), ok |-> FALSE]
Good(d) == [dec |-> d, ok |-> TRUE]

\* A block was written: if there is a table, it has to be the same still.
Recheck(d) ==
    IF d.slots_cnt = 0 THEN Good(d)
    ELSE IF CheckHash(d, d.slots_cnt * field_size) THEN Good(Load(d, d.slots_cnt * field_size))
    ELSE Good(ResetTable(d))

\* The first block brings the hash.
BadBegin(d, m) ==             \* the table is dropped if the hash is the same, too
    IF m.part > 0 THEN d ELSE [Reset(d) EXCEPT !.hash = m.hash, !.hash_valid = 4]
Begin(d, m) ==
    IF m.part > 0 THEN d
    ELSE [(IF m.hash # d.hash THEN Reset(d) ELSE d) EXCEPT !.hash = m.hash, !.hash_valid = 4]

Format(d, m) ==
    LET begin == Begin(d, m)
        pos   == m.part * block_size
        sz    == Len(m.data)
        final == m.part + 1 = m.pcnt \/ (m.part = 0 /\ m.pcnt = 0)
        w     == [begin EXCEPT !.fields = [i \in DOMAIN @ |->
                    IF pos < i /\ i <= pos + sz THEN m.data[i - pos] ELSE @[i]]]
    IN  IF \/ m.part > 0 /\ m.hash # d.hash
           \/ final /\ sz > block_size
           \/ ~final /\ sz # block_size
           \/ pos + sz > fields_size
        THEN Error(begin)
        ELSE IF final /\ (pos + sz) % field_size # 0 THEN Error(w)
        ELSE IF final /\ CheckHash(w, pos + sz) THEN Good(Load(w, pos + sz))
        ELSE Recheck(w)

Remove(i) == SubSeq(net, 1, i - 1) \o SubSeq(net, i + 1, Len(net))
Arriving == IF Reorder THEN DOMAIN net ELSE DOMAIN net \cap {1}

Misread(d, m) == d.valid /\ d.slots_cnt > 0 /\ m.kind # "none" /\ Bytes(m.table) # Loaded(d)

Record(d, m) ==
    LET now   == [seq |-> m.seq, table |-> m.table, hash |-> d.hash]
        again == misreads > 0 /\ now = [misread EXCEPT !.seq = (@ + 1) % 4]
    IN  IF Misread(d, m)
        THEN /\ misread' = now
             /\ misreads' = IF ~again THEN 1 ELSE IF misreads = 4 THEN 4 ELSE misreads + 1
        ELSE misread' = None /\ misreads' = 0

Decode ==
    /\ \E i \in Arriving :
          /\ net[i].type = "values"
          /\ dec' \in Values(Feed(dec, net[i]), net[i])
          /\ Record(dec', net[i])
          /\ net' = Remove(i)
    /\ UNCHANGED <<table, pseq, ask>>

\* The owner asks for the next block after a block that was accepted, and starts
\* again after the last one and after an error.
DecodeFormat ==
    /\ \E i \in Arriving :
          /\ net[i].type = "format"
          /\ LET r == Format(dec, net[i])
             IN  /\ dec' = r.dec
                 /\ ask' = IF AnyPart \/ ~r.ok \/ net[i].part + 1 >= net[i].pcnt THEN 0
                           ELSE net[i].part + 1
          /\ net' = Remove(i)
    /\ UNCHANGED <<table, pseq, history>>

Lose ==
    /\ Lossy
    /\ \E i \in DOMAIN net : net' = Remove(i)
    /\ UNCHANGED <<table, pseq, dec, ask, history>>

Next == ChangeTable \/ Encode \/ Request \/ Decode \/ DecodeFormat \/ Lose

Spec == Init /\ [][Next]_vars

\* The encoder sends packets, the owner asks for blocks, and what was sent and
\* not lost arrives, each again and again.
FairSpec == Spec /\ SF_vars(Encode) /\ SF_vars(Request) /\ WF_vars(Decode \/ DecodeFormat)

-----------------------------------------------------------------------------
\* hash_valid > 4 "should never happen" (TelemetryDecoder.cpp:51).
TypeOK ==
    /\ table \in Tables /\ pseq \in 0 .. 3 /\ ask \in 0 .. MaxParts - 1 /\ Len(net) <= NetSize
    /\ DOMAIN dec.fields = 1 .. fields_size
    /\ dec.slots_cnt * field_size \in 0 .. fields_size
    /\ dec.hash_valid \in 0 .. 4
    /\ dec.valid \in BOOLEAN

\* Whatever blocks were lost, repeated, late or written over a table in use: a
\* decoder that has a table has one of the encoder's, in full, with its hash.
Genuine ==
    dec.slots_cnt > 0 =>
        dec.hash_valid = 4 /\ \E t \in Tables : Bytes(t) = Loaded(dec) /\ HashOf[t] = dec.hash

\* Values are never read with a table they were not written with.  (To be true,
\* any two hashes have to differ in every byte.)
NeverMisread == misreads = 0

\* If hashes differ in some byte only, then of packets that are numbered one after
\* the other and written with one table, values of three at most are read with one
\* other table before the decoder notices, whatever arrives between them.  (Packets
\* of several tables may be more, when each table shares another byte with the
\* decoder's, and so may packets with gaps between their numbers.)
FewMisreads == misreads <= 3

\* If the table does not change any more and nothing is lost, then the decoder
\* gets the table and keeps it.
GetsTable ==
    <>[][Encode \/ Request \/ Decode \/ DecodeFormat]_vars
        => <>[](dec.valid /\ Loaded(dec) = Bytes(table))

=============================================================================
