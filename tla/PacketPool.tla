----------------------------- MODULE PacketPool -----------------------------
(***************************************************************************)
(* What the CAN pool promises to its callers, without trees, items and      *)
(* countdowns: for every key at most one packet is being collected, a       *)
(* collected packet is the data of one first frame and of frames with       *)
(* consecutive numbers, a complete packet waits untouched in its place      *)
(* until it is read, and the result of push tells what became of the frame. *)
(* Packets being collected may be given up, but only by a call that reports *)
(* an error or by a timeout.                                                *)
(***************************************************************************)
EXTENDS Integers, Sequences, FiniteSets

CONSTANTS Keys, Blocks, Places, MaxBlocks, FrmSeqMax, Dlcs, DestSizes

ZeroLength == 255
SeqFrames  == 0 .. FrmSeqMax
frm_end    == FrmSeqMax + 1
frm_start  == FrmSeqMax + 2
frm_single == FrmSeqMax + 3
Frames     == 0 .. frm_single

VARIABLES
    partial,     \* for every key the blocks collected so far, <<>> for none
    done,        \* the complete packet in every place, or NoPacket
    call,        \* the last call, with its arguments
    rv,          \* its result, if it was a push
    got          \* <<the packet>> if it was a read that returned one

vars == <<partial, done, call, rv, got>>

NoPacket == [key |-> "none", blocks |-> <<>>, last |-> 0]
Packet(k, blocks, last) == [key |-> k, blocks |-> blocks, last |-> last]

Collecting == {k \in Keys : partial[k] # <<>>}
Waiting    == {s \in Places : done[s] # NoPacket}

\* The number of blocks of all packets.
Held ==
    Cardinality(UNION {{k} \X (1 .. Len(partial[k])) : k \in Collecting})
        + Cardinality(UNION {{s} \X (1 .. Len(done[s].blocks)) : s \in Waiting})

Init ==
    /\ partial = [k \in Keys |-> <<>>]
    /\ done = [s \in Places |-> NoPacket]
    /\ call = <<"init">>
    /\ rv = "-"
    /\ got = <<>>

\* The packets in L, and no other, are given up.
GiveUp(L) == partial' = [k \in Keys |-> IF k \in L THEN <<>> ELSE partial[k]]

-----------------------------------------------------------------------------
(* push(k, f, d, n)                                                        *)

WrongLength(f, n) ==
    \/ f \in SeqFrames \cup {frm_start} /\ n # 8
    \/ f = frm_end /\ n = 0

\* A place is left for a first frame of key k.
PlaceLeft(k) == Cardinality(Collecting \ {k}) + Cardinality(Waiting) < Cardinality(Places)

\* The n-th frame of the middle carries the number n - 1, counted in turn.
Expected(k) == (Len(partial[k]) - 1) % (FrmSeqMax + 1)
Previous(k) == (Len(partial[k]) - 2) % (FrmSeqMax + 1)

\* The frame is taken.
Start(k, d) ==
    /\ rv' = "MsgAccepted"
    /\ PlaceLeft(k)
    /\ partial' = [partial EXCEPT ![k] = <<d>>]
    /\ UNCHANGED done

Continue(k, f, d) ==
    /\ rv' = "MsgAccepted"
    /\ k \in Collecting
    /\ f = Expected(k)
    /\ partial' = [partial EXCEPT ![k] = Append(@, d)]
    /\ UNCHANGED done

Deliver(k, packet) ==
    /\ rv' = "PacketAvailable"
    /\ \E s \in Places \ Waiting : done' = [done EXCEPT ![s] = packet]
    /\ GiveUp({k})

\* A packet of one frame; an unfinished packet of the same key is given up.
Single(k, d, n) ==
    /\ PlaceLeft(k)
    /\ Deliver(k, Packet(k, <<d>>, IF n = 0 THEN ZeroLength ELSE n))

Complete(k, d, n) ==
    /\ k \in Collecting
    /\ Deliver(k, Packet(k, Append(partial[k], d), n))

\* The frame is not taken.
Repeat(k, f) ==
    /\ rv' = "MsgDropped"
    /\ k \in Collecting
    /\ f = Previous(k)
    /\ UNCHANGED <<partial, done>>

\* The packet that the frame may belong to is lost with it, and so may others.
Refuse(k, result) ==
    /\ rv' = result
    /\ \E L \in SUBSET Collecting : GiveUp(L \cup {k})
    /\ UNCHANGED done

IsOrphan(k, f) == k \notin Collecting \/ (f # frm_end /\ f \notin {Expected(k), Previous(k)})

\* What becomes of a frame for which there is room and that has a right length.
Accept(k, f, d, n) ==
    \/ f = frm_start /\ (Start(k, d) \/ (~PlaceLeft(k) /\ Refuse(k, "ErrorTreeOverflow")))
    \/ f = frm_single /\ (Single(k, d, n) \/ (~PlaceLeft(k) /\ Refuse(k, "ErrorTreeOverflow")))
    \/ f = frm_end /\ Complete(k, d, n)
    \/ f \in SeqFrames /\ (Continue(k, f, d) \/ Repeat(k, f))
    \/ f \in SeqFrames \cup {frm_end} /\ IsOrphan(k, f) /\ Refuse(k, "ErrorOrphan")

Push(k, f, d, n) ==
    /\ call' = <<"push", k, f, d, n>>
    /\ got' = <<>>
    /\ \/ /\ rv' = "ErrorSlotsOverflow"
          /\ Held = MaxBlocks
          /\ Refuse(k, "ErrorSlotsOverflow")
       \/ /\ rv' = "ErrorDLC"
          /\ Held < MaxBlocks
          /\ WrongLength(f, n)
          /\ UNCHANGED <<partial, done>>
       \/ /\ rv' \notin {"ErrorSlotsOverflow", "ErrorDLC"}
          /\ Held < MaxBlocks
          /\ ~WrongLength(f, n)
          /\ Accept(k, f, d, n)

-----------------------------------------------------------------------------
(* read_packet and timeout                                                 *)

Size(pkt) == 2 + 8 * (Len(pkt.blocks) - 1) + (IF pkt.last = ZeroLength THEN 0 ELSE pkt.last)

\* A packet that fits the buffer is returned whole, any other one is cut short.
Delivered(pkt, sz, p) ==
    /\ p.key = pkt.key
    /\ p.size <= sz
    /\ IF Size(pkt) <= sz
       THEN /\ p.size = Size(pkt)
            /\ p.blocks = IF pkt.last = ZeroLength THEN <<>> ELSE pkt.blocks
       ELSE /\ p.size < Size(pkt)
            /\ p.blocks = SubSeq(pkt.blocks, 1, Len(p.blocks))

Read(sz) ==
    /\ call' = <<"read", sz>>
    /\ rv' = "-"
    /\ IF Waiting = {} THEN got' = <<>> /\ UNCHANGED done
       ELSE /\ Len(got') = 1
            /\ \E s \in Waiting : /\ Delivered(done[s], sz, got'[1])
                                  /\ done' = [done EXCEPT ![s] = NoPacket]
    /\ UNCHANGED partial

TimeoutCall ==
    /\ call' = <<"timeout">>
    /\ rv' = "-"
    /\ got' = <<>>
    /\ \E L \in SUBSET Collecting : GiveUp(L)
    /\ UNCHANGED done

Next ==
    \/ \E k \in Keys, f \in Frames, d \in Blocks, n \in Dlcs : Push(k, f, d, n)
    \/ \E sz \in DestSizes : Read(sz)
    \/ TimeoutCall

Spec == Init /\ [][Next]_vars

=============================================================================
