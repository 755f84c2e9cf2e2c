-------------------------- MODULE TelemetryEncoder --------------------------
(***************************************************************************)
(* The telemetry encoder (src/xbus/telemetry/TelemetryEncoder.{h,cpp}): the *)
(* table of the values that a stream carries, and which of them a packet    *)
(* contains.  How a packet is written byte by byte is in TelemetryStream.   *)
(*                                                                          *)
(* The table is the first slots_cnt elements of an array, ordered by format *)
(* and uid.  Values that are not in the table may be kept behind it until   *)
(* sync_flush() adds them.  Every action is a whole call, except that       *)
(* sync_flush() takes one step for every turn of its loop, in which nothing *)
(* else can happen.  Operators named Bad... are wrong forms of the operator *)
(* that follows.                                                            *)
(***************************************************************************)
EXTENDS Integers, Sequences, FiniteSets, FiniteSetsExt

CONSTANTS
    slots_size,  \* 240 in the code
    Fields,      \* the field descriptors that add() is called with
    Dictionary,  \* uid -> [fmt, seq, aux], what mandala::fmt() finds
    Dataset,     \* the uids of xpdr::dataset, a sequence
    Values,      \* raw values (with their types) that update() is called with
    Nibbles, Bytes, Words   \* bounds: the values of four bits, a byte and a raw_t

Uids == DOMAIN Dictionary \cup {f.uid : f \in Fields}
Index == 0 .. slots_size - 1

\* fmt_e: "word" stands for the formats that fill a raw_t, "byte" for those that
\* are shorter.
Formats == {"none", "word", "byte", "u4", "bit"}
Seqs    == {"always", "skip", "rare", "scheduled"}

Field == [uid : Uids \cup {0}, fmt : Formats, seq : Seqs]

\* What memset() leaves in a slot.
ZeroField == [uid |-> 0, fmt |-> "none", seq |-> "always"]

Raws == 0 .. Words - 1

Slot == [field : Field, upd : BOOLEAN, value : Values \cup {0}, packed : Raws]
NewSlot(f) == [field |-> f, upd |-> FALSE, value |-> 0, packed |-> 0]

ASSUME EncoderAssumption ==
    /\ slots_size \in Nat \ {0}
    /\ Uids \subseteq Nat \ {0}
    /\ Fields \subseteq Field
    /\ \A u \in DOMAIN Dictionary :
           Dictionary[u] \in [fmt : Formats, seq : Seqs, aux : BOOLEAN]
    /\ Dataset \in Seq(Nat \ {0})
    /\ Values \subseteq Nat
    /\ {Nibbles, Bytes, Words} \subseteq Nat \ {0}

\* What sent has of a value that was in no packet.
Nothing == -1

\* _xpdr_slot_idx[i] of a value that is not in the table.
no_slot == 255
NoLoop  == [i |-> -1, pos |-> -1]

VARIABLES
    slots, slots_cnt, sync_cnt,
    slots_upd_cnt, xpdr_slot_idx, hash,   \* computed from the table by add()
    enforced_upd,
    flush,       \* i and pos of the loop in sync_flush(), or NoLoop
    pseq,        \* the number of the next packet, which the caller counts
    sent,        \* uid -> what packets said last of its value, or Nothing
    asked        \* the uids that update() said it would add since the last flush

table  == <<slots, slots_cnt, slots_upd_cnt, xpdr_slot_idx, hash>>
client == <<pseq, sent, asked>>
vars   == <<table, sync_cnt, enforced_upd, flush, client>>

InTable == 0 .. slots_cnt - 1

\* The hash of the fields of the table is ideal: it is what it was computed of.
HashOf(s, n) == [i \in 0 .. n - 1 |-> s[i].field]

Init ==
    /\ slots = [i \in Index |-> NewSlot(ZeroField)]
    /\ slots_cnt = 0 /\ sync_cnt = 0 /\ slots_upd_cnt = 0 /\ enforced_upd = 0
    /\ xpdr_slot_idx = [d \in DOMAIN Dataset |-> no_slot]
    /\ hash = HashOf(slots, 0)
    /\ flush = NoLoop
    /\ pseq = 0
    /\ sent = [u \in Uids |-> Nothing]
    /\ asked = {}

-----------------------------------------------------------------------------
(* add()                                                                   *)

\* slot_lookup() finds a slot, for some uid.
BadKnown(uid) == \E i \in 0 .. slots_cnt - 2 : slots[i].field.uid = uid   \* but the last
Known(uid) == \E i \in InTable : slots[i].field.uid = uid

\* The loops of add() that look for a place stop at the first slot, from where
\* they start, with one of these formats or with a uid that is greater.
Until(from, fmts, uid) ==
    Min({i \in from .. slots_cnt :
            \/ i = slots_cnt
            \/ slots[i].field.fmt \in fmts
            \/ slots[i].field.uid > uid})

\* The loops that look for the first slot of a group.
Group(fmts) ==
    Min({i \in 0 .. slots_cnt : i = slots_cnt \/ slots[i].field.fmt \in fmts})

BadPlace(f) ==                \* the choices ("u4") not kept apart
    CASE f.fmt = "bit" -> Until(Group({"bit"}), {}, f.uid)
      [] OTHER         -> Until(0, {"bit"}, f.uid)
Place(f) ==
    CASE f.fmt = "bit" -> Until(Group({"bit"}), {}, f.uid)
      [] f.fmt = "u4"  -> Until(Group({"bit", "u4"}), {"bit"}, f.uid)
      [] OTHER         -> Until(0, {"bit", "u4"}, f.uid)

\* _insert(): the slots from place n on move up.
BadInserted(n, f) ==          \* the fields move, values stay
    [i \in Index |->
        IF i < n \/ i > slots_cnt THEN slots[i]
        ELSE IF i = n THEN NewSlot(f)
        ELSE [slots[i] EXCEPT !.field = slots[i - 1].field]]
Inserted(n, f) ==
    [i \in Index |-> IF i < n \/ i > slots_cnt THEN slots[i]
                     ELSE IF i = n THEN NewSlot(f)
                     ELSE slots[i - 1]]

\* What follows _insert() in add(), for the new array and count.
UpdCount(s, n) == Min({i \in 0 .. n : i = n \/ s[i].field.fmt = "bit"})

BadXpdrIndex(s, n) ==         \* an index that was found stays
    [d \in DOMAIN Dataset |->
        LET found == {j \in 0 .. n - 1 : s[j].field.uid = Dataset[d]}
        IN  IF xpdr_slot_idx[d] # no_slot \/ found = {} THEN xpdr_slot_idx[d] ELSE Min(found)]
XpdrIndex(s, n) ==
    [d \in DOMAIN Dataset |->
        LET found == {j \in 0 .. n - 1 : s[j].field.uid = Dataset[d]}
        IN  IF found = {} THEN xpdr_slot_idx[d] ELSE Min(found)]

\* Field f gets a slot, with the flags and values of slot s.
AddSlot(f, s) ==
    LET n == Place(f)
    IN  /\ slots' = [Inserted(n, f) EXCEPT ![n] = [s EXCEPT !.field = f]]
        /\ slots_cnt' = slots_cnt + 1
        /\ slots_upd_cnt' = UpdCount(slots', slots_cnt')
        /\ xpdr_slot_idx' = XpdrIndex(slots', slots_cnt')
        /\ hash' = HashOf(slots', slots_cnt')

Add(f) ==
    /\ flush = NoLoop
    /\ \/ /\ slots_cnt < slots_size
          /\ ~Known(f.uid)
          /\ AddSlot(f, NewSlot(f))
       \/ /\ slots_cnt >= slots_size \/ Known(f.uid)
          /\ UNCHANGED table
    /\ UNCHANGED <<sync_cnt, enforced_upd, flush, client>>

Clear ==
    /\ flush = NoLoop
    /\ slots' = [i \in Index |-> NewSlot(ZeroField)]
    /\ slots_cnt' = 0 /\ slots_upd_cnt' = 0 /\ sync_cnt' = 0
    /\ hash' = HashOf(slots', 0)
    /\ xpdr_slot_idx' = [d \in DOMAIN Dataset |-> no_slot]
    /\ asked' = {}
    /\ UNCHANGED <<enforced_upd, flush, pseq, sent>>

-----------------------------------------------------------------------------
(* update() and sync_flush()                                               *)

\* _set_data()
SetData(s, v) ==
    [s EXCEPT !.value = v,
              !.upd   = @ \/ (s.value # v /\ s.field.seq # "scheduled")]

\* Pending slots, as the loop of update() looks for them.
Pending == {i \in Index : slots_cnt <= i /\ i < slots_cnt + sync_cnt}

Update(uid, v) ==
    /\ flush = NoLoop
    /\ \E i \in InTable :
           /\ slots[i].field.uid = uid
           /\ \A j \in 0 .. i - 1 : slots[j].field.uid # uid
           /\ slots' = [slots EXCEPT ![i] = SetData(@, v)]
    /\ UNCHANGED <<slots_cnt, slots_upd_cnt, xpdr_slot_idx, hash,
                   sync_cnt, enforced_upd, flush, client>>

\* update(..., sync = true) of a value that is not in the table.
UpdatePending(uid, v) ==
    /\ flush = NoLoop
    /\ ~Known(uid)
    /\ \E i \in Pending :
           /\ slots[i].field.uid = uid
           /\ \A j \in Pending : j < i => slots[j].field.uid # uid
           /\ slots' = [slots EXCEPT ![i] = SetData(@, v)]
    /\ UNCHANGED <<slots_cnt, slots_upd_cnt, xpdr_slot_idx, hash,
                   sync_cnt, enforced_upd, flush, client>>

\* Behind the array of fields are the flags of slots 0 to 2, behind the flags is
\* the value of slot 0, and behind the values are the packed values: what they
\* hold after slot slots_size + k was written depends on the bytes written.
Overwritten(k, flagged, u, v, p) ==
    [i \in Index |-> [slots[i] EXCEPT
        !.upd    = IF i \in flagged THEN u ELSE @,
        !.value  = IF i = 0 \/ i \in flagged THEN v ELSE @,
        !.packed = IF i = k THEN p ELSE @]]
WrittenBehind(k, flagged) ==
    {Overwritten(k, flagged, u, v, p) : u \in BOOLEAN, v \in Values \cup {0}, p \in Raws}

\* Fields that were added since have moved a pending place behind the array;
\* the flags that are read as its uid are those of uid.
UpdateBehind(uid) ==
    /\ flush = NoLoop
    /\ ~Known(uid)
    /\ \A i \in Pending : slots[i].field.uid # uid
    /\ \E k \in Index : /\ slots_size + k < slots_cnt + sync_cnt
                        /\ slots' \in WrittenBehind(k, {})
    /\ UNCHANGED <<slots_cnt, slots_upd_cnt, xpdr_slot_idx, hash,
                   sync_cnt, enforced_upd, flush, pseq, sent, asked>>

\* The new slot is written behind the one that was counted.
UpdateNew(uid, v) ==
    LET pos == slots_cnt + sync_cnt + 1
        f   == [uid |-> uid, fmt |-> Dictionary[uid].fmt, seq |-> Dictionary[uid].seq]
    IN  /\ flush = NoLoop
        /\ ~Known(uid)
        /\ \A i \in Pending : slots[i].field.uid # uid
        /\ slots_cnt + sync_cnt < slots_size
        /\ ~Dictionary[uid].aux
        /\ sync_cnt' = sync_cnt + 1
        /\ \/ /\ pos < slots_size
              /\ slots' = [slots EXCEPT ![pos] = SetData([@ EXCEPT !.field = f], v)]
              /\ asked' = asked \cup {uid}
           \/ /\ pos = slots_size
              /\ slots' \in WrittenBehind(0, {i \in Index : i <= 2})
              /\ UNCHANGED asked
        /\ UNCHANGED <<slots_cnt, slots_upd_cnt, xpdr_slot_idx, hash,
                       enforced_upd, flush, pseq, sent>>

SyncFlush ==
    /\ flush = NoLoop
    /\ flush' = [i |-> slots_cnt, pos |-> slots_cnt + sync_cnt]
    /\ UNCHANGED <<table, sync_cnt, enforced_upd, client>>

\* Slot i as it is read; behind the array, flags are read as a field.
SlotsAt(i) ==
    IF i < slots_size THEN {slots[i]}
    ELSE [field : [uid : Uids \cup {0}, fmt : Formats, seq : {"always"}], upd : BOOLEAN,
          value : Values \cup {0}, packed : Raws]

\* One turn: add(f), and flags and values go with the field.
FlushTurn ==
    /\ flush # NoLoop
    /\ flush.i < flush.pos
    /\ slots_cnt < slots_size
    /\ \E s \in SlotsAt(flush.i) :
          IF Known(s.field.uid) THEN UNCHANGED table ELSE AddSlot(s.field, s)
    /\ flush' = [flush EXCEPT !.i = @ + 1]
    /\ UNCHANGED <<sync_cnt, enforced_upd, client>>

FlushEnd ==
    /\ flush # NoLoop
    /\ flush.i = flush.pos \/ slots_cnt >= slots_size
    /\ flush' = NoLoop
    /\ sync_cnt' = 0
    /\ asked' = {}
    /\ UNCHANGED <<table, enforced_upd, pseq, sent>>

-----------------------------------------------------------------------------
(* encode()                                                                *)

\* pack_value() fills as many bytes of a raw_t as the format has; the others are
\* whatever was there.
RawsOf(s) ==
    CASE s.field.fmt = "word" -> {s.value % Words}
      [] s.field.fmt \in {"byte", "u4"} ->
             {w \in Raws : w % Bytes = Min({s.value, Bytes - 1})}
      [] OTHER -> Raws

\* What the packet says of a slot.
Said(s, raw) ==
    raw % (CASE s.field.fmt = "word" -> Words
             [] s.field.fmt = "u4"   -> Nibbles
             [] OTHER                -> Bytes)

\* _slots.packed[i] += 0x01010101
Repacked(raw) == (raw + Bytes + 1) % Words

BadEnforced(s) == s             \* nothing is enforced
Enforced(s) ==
    [s EXCEPT ![enforced_upd].upd = TRUE, ![enforced_upd].packed = Repacked(@)]

BadNextEnforced == enforced_upd + 1     \* no end
NextEnforced ==
    IF enforced_upd + 1 >= slots_cnt \/ enforced_upd + 1 >= slots_upd_cnt
    THEN 0 ELSE enforced_upd + 1

\* The slots that packet number n looks at.
Due(n) ==
    {i \in InTable :
        /\ \A j \in 0 .. i : slots[j].field.fmt # "bit"
        /\ \/ slots[i].field.seq \in {"always", "scheduled"}
           \/ slots[i].field.seq = "skip" /\ n % 2 = 0
           \/ slots[i].field.seq = "rare" /\ n % 4 = 0}

\* The slots from the first bit on go into every packet.
Appended == {i \in InTable : \E j \in 0 .. i : slots[j].field.fmt = "bit"}

Bit(s) == IF s.value # 0 THEN 1 ELSE 0

Encode ==
    /\ flush = NoLoop
    /\ LET s   == Enforced(slots)
           upd == {i \in Due(pseq) : s[i].upd}
       IN  \E raw \in [upd -> Raws] :
             /\ \A i \in upd : raw[i] \in RawsOf(s[i])
             /\ slots' = [i \in Index |->
                    IF i \in upd THEN [s[i] EXCEPT !.upd = FALSE, !.packed = raw[i]] ELSE s[i]]
             /\ sent' = [u \in Uids |->
                    IF \E i \in upd : s[i].field.uid = u /\ s[i].packed # raw[i]
                    THEN LET i == CHOOSE i \in upd : s[i].field.uid = u IN Said(s[i], raw[i])
                    ELSE IF \E i \in Appended : s[i].field.uid = u
                    THEN Bit(s[CHOOSE i \in Appended : s[i].field.uid = u])
                    ELSE sent[u]]
    /\ enforced_upd' = NextEnforced
    /\ pseq' = (pseq + 1) % 4
    /\ UNCHANGED <<slots_cnt, slots_upd_cnt, xpdr_slot_idx, hash,
                   sync_cnt, flush, asked>>

Next ==
    \/ \E f \in Fields : Add(f)
    \/ Clear
    \/ \E u \in Uids, v \in Values : Update(u, v)
    \/ \E u \in DOMAIN Dictionary, v \in Values : UpdatePending(u, v) \/ UpdateNew(u, v)
    \/ \E u \in DOMAIN Dictionary : UpdateBehind(u)
    \/ SyncFlush \/ FlushTurn \/ FlushEnd
    \/ Encode

Spec == Init /\ [][Next]_vars

\* sync_flush() returns, and the owner of the encoder sends packets again and
\* again, whatever else it calls in between.
FairSpec == Spec /\ WF_vars(FlushTurn \/ FlushEnd) /\ SF_vars(Encode)

-----------------------------------------------------------------------------
TypeOK ==
    /\ slots \in [Index -> Slot]
    /\ slots_cnt \in 0 .. slots_size /\ slots_upd_cnt \in 0 .. slots_size
    /\ sync_cnt \in 0 .. slots_size
    /\ enforced_upd \in Index
    /\ xpdr_slot_idx \in [DOMAIN Dataset -> Index \cup {no_slot}]
    /\ pseq \in 0 .. 3

Rank(fmt) == IF fmt = "bit" THEN 2 ELSE IF fmt = "u4" THEN 1 ELSE 0

\* The table is ordered: values, choices, bits, and by uid in each group, so
\* that encode_values and decode_values, which leave their first loop at the
\* first bit, reach every field.
Sorted ==
    \A i, j \in InTable : i < j =>
        LET f == slots[i].field
            g == slots[j].field
        IN  Rank(f.fmt) < Rank(g.fmt) \/ (Rank(f.fmt) = Rank(g.fmt) /\ f.uid < g.uid)

\* A uid has at most one slot, whatever way its fields came in.
NoDuplicates ==
    \A i, j \in InTable : slots[i].field.uid = slots[j].field.uid => i = j

\* What add() computed from the table fits the table, wherever slots have moved
\* since: the limit of the enforced updates, the places of the transponder
\* values, and the hash that decoders compare.
Cached ==
    /\ \A i \in InTable : i < slots_upd_cnt <=> slots[i].field.fmt # "bit"
    /\ \A d \in DOMAIN Dataset :
          IF Known(Dataset[d])
          THEN xpdr_slot_idx[d] \in InTable /\ slots[xpdr_slot_idx[d]].field.uid = Dataset[d]
          ELSE xpdr_slot_idx[d] = no_slot
    /\ hash = HashOf(slots, slots_cnt)

ValueOf(s, n, u) == {s[i].value : i \in {i \in 0 .. n - 1 : s[i].field.uid = u}}

\* A change of the table leaves the value of every field that was in it.
ValuesKept ==
    [][slots_cnt' > slots_cnt =>
        \A u \in Uids : Known(u) => ValueOf(slots, slots_cnt, u)' = ValueOf(slots, slots_cnt, u)]_vars

Current(s) ==
    LET u == s.field.uid
    IN  CASE s.field.fmt = "bit"  -> sent[u] = Bit(s)
          [] s.field.fmt = "none" -> TRUE
          [] OTHER                -> \E raw \in RawsOf(s) : sent[u] = Said(s, raw)

Changes ==
    \/ slots_cnt' # slots_cnt
    \/ \E i \in Index : slots'[i].value # slots[i].value \/ slots'[i].field # slots[i].field

\* Once values and table do not change any more, packets have said all of them:
\* scheduled values too, and those whose change met an enforced update.
Settles == <>[][~Changes]_vars => <>[](\A i \in InTable : slots[i].field.uid \in Uids => Current(slots[i]))

\* A value of which update() has said that it is going to be added (synced) is
\* in the table when sync_flush() returns (MandalaPackBase.h:77 says of the
\* dataset of such values that they "can be added automatically to the stream").
SyncedAdded ==
    [][flush # NoLoop /\ flush' = NoLoop
        => asked \subseteq {slots[i].field.uid : i \in InTable}']_vars

=============================================================================
