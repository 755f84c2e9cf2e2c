------------------------------ MODULE Downlink -------------------------------
(***************************************************************************)
(* The telemetry stream of the backported Mandala:                          *)
(* Mandala::pack_downstream and unpack_downstream                           *)
(* (src/mandala/backport/MandalaFlat.cpp), unpack_stream (MandalaCore.cpp). *)
(*                                                                          *)
(* The vehicle sends the variables that differ from a snapshot of what was   *)
(* sent before, as many as there is room for, behind masks that tell which.  *)
(* Packets may be lost and nothing is acknowledged: from time to time        *)
(* everything is sent again.  In each of the two modes of the stream a        *)
(* variable takes another number of bytes, and has another place in the      *)
(* snapshot.                                                                *)
(*                                                                          *)
(* A table says how many bytes a variable takes in high definition (full)     *)
(* and in the compact mode (ext), and how many variables share a mask (8 in   *)
(* the code).  The value of a variable is a small number; the compact mode,    *)
(* if it differs, does not tell the values 2n and 2n + 1 apart.             *)
(***************************************************************************)
EXTENDS Integers, Sequences

CONSTANTS
    Settings,      \* records with the fields vars, bits, maxSize and periodic
    Values,
    Cycle,         \* packets in ten seconds
    MaxLost, MaxChanges    \* bounds: packets lost; changes of values or of the mode

\* Every variable takes a byte at least, and no more in the compact mode.
ASSUME SettingsAssumption ==
    \A s \in Settings :
        /\ s.vars \in Seq([full : Nat \ {0}, ext : Nat \ {0}])
        /\ \A i \in DOMAIN s.vars : s.vars[i].ext <= s.vars[i].full
        /\ s.bits \in Nat \ {0} /\ s.maxSize \in Nat

VARIABLES
    setting,
    value,         \* the variables of the vehicle
    hd,            \* the bit of cmode that chooses the mode
    dl_hd_save, dl_reset, dl_reset_mask, dl_snapshot,
    clock,         \* dl_timestamp, in packets, modulo ten seconds
    heard,         \* the variables of the receiver: the bytes they were unpacked from
    fresh,         \* history: variables whose last copy has arrived
    whole,         \* history: the last packet had room for all, and nothing has changed since
    lost, changes  \* what the bounds count

downvars == <<setting, value, hd, dl_hd_save, dl_reset, dl_reset_mask, dl_snapshot, clock, heard,
              fresh, whole, lost, changes>>

Indices == DOMAIN setting.vars

-----------------------------------------------------------------------------
(* Variables and their bytes                                               *)

\* pack() and pack_ext().
PackedSize(i, mode) == IF mode THEN setting.vars[i].full ELSE setting.vars[i].ext
Packed(i, v, mode) ==
    LET same == setting.vars[i].full = setting.vars[i].ext
    IN  [k \in 1 .. PackedSize(i, mode) |-> IF mode \/ same THEN v ELSE v \div 2]

\* The bytes of the first n variables.
Places(mode) ==
    LET at[n \in 0 .. Len(setting.vars)] == IF n = 0 THEN 0 ELSE at[n - 1] + PackedSize(n, mode)
    IN  at

SnapshotSize == Places(TRUE)[Len(setting.vars)]

\* snapshot bytes from a place on
Segment(snapshot, at, n) == [k \in 1 .. n |-> snapshot[at + k]]
Store(snapshot, at, bytes) ==
    [k \in DOMAIN snapshot |-> IF k - at \in DOMAIN bytes THEN bytes[k - at] ELSE snapshot[k]]

-----------------------------------------------------------------------------
(* pack_downstream                                                         *)

\* The loop: the bytes behind the header so far, where the mask of this group is
\* among them, the sizes of data and masks without the masks that are zero and may
\* be the last ones, the place in the snapshot, and whether it has ended.
PackStart(flags) ==
    [buf |-> <<{}>>, at |-> 1, cnt |-> 0, masks |-> 0, zeros |-> 1, place |-> 0,
     flags |-> flags, snapshot |-> dl_snapshot, sent |-> {}, cut |-> FALSE]

Overflow(s, sz) == s.cnt + s.masks + 2 + sz + s.zeros >= setting.maxSize

BadCut(s, i) == [s EXCEPT !.cut = TRUE, !.flags = @ \ {i}]     \* the flag is lost
Cut(s, i) == [s EXCEPT !.cut = TRUE, !.flags = @ \cup {i}]

Posted(s, i, bytes) ==
    [s EXCEPT !.buf = [s.buf EXCEPT ![s.at] = @ \cup {(i - 1) % setting.bits}] \o bytes,
              !.cnt = @ + Len(bytes), !.masks = @ + s.zeros, !.zeros = 0,
              !.flags = @ \ {i}, !.snapshot = Store(@, s.place, bytes), !.sent = @ \cup {i}]

\* Behind a variable: the next place, and the next mask if it was the last of its group.
Behind(s, i, sz) ==
    LET next == [s EXCEPT !.place = @ + sz]
    IN  IF i % setting.bits # 0 THEN next
        ELSE [next EXCEPT !.buf = Append(@, {}), !.at = Len(s.buf) + 1, !.zeros = @ + 1]

PackTurn(s, i) ==
    LET bytes == Packed(i, value[i], hd)
        sz    == Len(bytes)
        filtered == i \notin s.flags /\ Segment(s.snapshot, s.place, sz) = bytes
    IN  IF s.cut THEN s
        ELSE IF filtered THEN Behind(s, i, sz)
        ELSE IF Overflow(s, sz) THEN Cut(s, i)
        ELSE Behind(Posted(s, i, bytes), i, sz)

\* The turns for the variables, one after the other.
Packing(flags) ==
    LET s[n \in 0 .. Len(setting.vars)] == IF n = 0 THEN PackStart(flags) ELSE PackTurn(s[n - 1], n)
    IN  s

-----------------------------------------------------------------------------
(* unpack_stream                                                           *)

UnpackStart(got, mode, buf) ==
    [got |-> got, mode |-> mode, at |-> 1, ptr |-> 2, left |-> Len(buf) - 1, buf |-> buf, ended |-> FALSE]

UnpackTurn(s, i) ==
    LET sz     == PackedSize(i, s.mode)
        marked == (i - 1) % setting.bits \in s.buf[s.at]
        read   == IF marked
                  THEN [s EXCEPT !.got[i] = SubSeq(s.buf, s.ptr, s.ptr + sz - 1), !.ptr = @ + sz, !.left = @ - sz]
                  ELSE s
    IN  IF s.ended THEN s
        ELSE IF marked /\ s.left <= 0 THEN [s EXCEPT !.ended = TRUE]
        ELSE IF i % setting.bits # 0 THEN read
        ELSE [read EXCEPT !.at = read.ptr, !.ptr = @ + 1, !.left = @ - 1, !.ended = read.left <= 1]

Unpacking(got, mode, buf) ==
    LET s[n \in 0 .. Len(setting.vars)] ==
            IF n = 0 THEN UnpackStart(got, mode, buf) ELSE UnpackTurn(s[n - 1], n)
    IN  s

\* A packet of the header alone carries nothing.
Unpacked(got, mode, buf) ==
    IF buf = <<>> THEN got ELSE Unpacking(got, mode, buf)[Len(setting.vars)].got

-----------------------------------------------------------------------------
(* Vehicle and receiver                                                    *)

\* Neither the snapshot nor dl_hd_save nor the flags are initialised; but dl_reset is.
DownlinkInit ==
    /\ setting \in Settings
    /\ value = [i \in Indices |-> 0]
    /\ hd = FALSE /\ dl_hd_save \in BOOLEAN
    /\ dl_reset = TRUE
    /\ dl_reset_mask \in {{}, Indices}
    /\ dl_snapshot \in {[k \in 1 .. SnapshotSize |-> v] : v \in Values}
    /\ clock = 0
    /\ heard = [i \in Indices |-> <<>>]
    /\ fresh = {} /\ whole = FALSE
    /\ lost = 0 /\ changes = 0

BadFlags(mode) == IF dl_reset THEN Indices ELSE dl_reset_mask    \* the mode is not watched
Flags(mode) == IF dl_reset \/ dl_hd_save # mode THEN Indices ELSE dl_reset_mask

\* Without a dl_period the time that has passed counts, whatever it is.
NextClock == IF setting.periodic THEN {(clock + 1) % Cycle} ELSE 0 .. Cycle - 1

BadDue == FALSE                \* never again
Due == clock = 0

\* One call of pack_downstream; its packet arrives at unpack_downstream or is lost.
Downstream(arrives) ==
    LET s   == Packing(Flags(hd))[Len(setting.vars)]
        buf == SubSeq(s.buf, 1, s.cnt + s.masks)
    IN  /\ ~arrives => lost < MaxLost /\ lost' = lost + 1
        /\ arrives => lost' = lost
        /\ dl_hd_save' = hd
        /\ dl_reset' = Due
        /\ dl_reset_mask' = s.flags
        /\ dl_snapshot' = s.snapshot
        /\ clock' \in NextClock
        /\ heard' = IF arrives THEN Unpacked(heard, hd, buf) ELSE heard
        /\ fresh' = IF arrives THEN fresh \cup s.sent ELSE fresh \ s.sent
        /\ whole' = ~s.cut
        /\ UNCHANGED <<setting, value, hd, changes>>

\* The vehicle changes a variable, or the mode.
Changed ==
    /\ changes < MaxChanges /\ changes' = changes + 1
    /\ whole' = FALSE
    /\ \/ hd' = ~hd /\ UNCHANGED value
       \/ \E i \in Indices : \E v \in Values \ {value[i]} : value' = [value EXCEPT ![i] = v] /\ UNCHANGED hd
    /\ UNCHANGED <<setting, dl_hd_save, dl_reset, dl_reset_mask, dl_snapshot, clock, heard, fresh, lost>>

DownlinkNext == Changed \/ \E arrives \in BOOLEAN : Downstream(arrives)

\* The vehicle goes on to send: its clock, which only pack_downstream moves, goes on.
Sends == clock' \in NextClock

DownlinkSpec == DownlinkInit /\ [][DownlinkNext]_downvars /\ WF_clock(Sends)

-----------------------------------------------------------------------------
Shown(i) == heard[i] = Packed(i, value[i], hd)

\* After a packet with room for everything the receiver shows the variables of the
\* vehicle, in the precision of the mode, but for those whose last copy was lost:
\* whatever was cut off before for want of room, whatever the snapshot holds at the
\* first packet, and wherever the mode has moved the places in the snapshot.
DownlinkInSync == whole => \A i \in fresh : Shown(i)

\* "periodically send everything": with a dl_period that divides ten seconds the
\* receiver shows all the variables in the end, although packets were lost before,
\* if ten seconds have enough packets for all.
DownlinkRecovers == setting.periodic => <>[](\A i \in Indices : Shown(i))

=============================================================================
