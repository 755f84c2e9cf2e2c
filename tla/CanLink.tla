------------------------------- MODULE CanLink -------------------------------
(***************************************************************************)
(* The CAN link: Codec::send_packet of several nodes (src/xbus/can/          *)
(* CanCodec.cpp), a bus that may lose or repeat frames, and one receiving   *)
(* node, whose Codec::push_message fills the pool of CanPool and whose      *)
(* Codec::read_packet takes packets out and checks their CRC.               *)
(*                                                                          *)
(* A byte is a token <<m, i>>: byte i of the payload of message m, or one    *)
(* of the two bytes of its CRC.  The CRC is ideal: it matches the bytes it  *)
(* was computed from and no others.  Nodes have different addresses (the    *)
(* branch of push_message for an address conflict is not taken).            *)
(* Operators named Bad... are wrong forms of the operator that follows.     *)
(***************************************************************************)
EXTENDS CanPool

CONSTANTS
    Nodes,       \* the sending nodes
    Tokens,      \* the bytes that occur in a frame
    Messages,    \* records [key |-> [pid, src], len, tag]; tag tells contents apart
    Accepted,    \* the keys that accept_filter() of the receiver lets pass
    MaxSends,    \* bound: calls of send_packet
    MaxFaults    \* bound: frames lost or repeated, and send_message()s that fail

ASSUME LinkAssumption ==
    /\ \A m \in Messages : m.key \in Keys /\ m.key.src \in Nodes /\ m.len \in Nat
    /\ Accepted \subseteq Keys
    /\ \A m \in Messages : {m} \X (-2 .. m.len) \subseteq Tokens
    /\ Blocks = [1 .. 8 -> Tokens] /\ Dlcs = 0 .. 8
    /\ MaxSends \in Nat /\ MaxFaults \in Nat

VARIABLES
    tx,          \* for every node the state of the loop in send_packet, or Idle
    txdata,      \* for every node the bytes of its txmsg
    wire,        \* <<the frame>> on the bus with the message it is of, or <<>>
    out,         \* <<the packet>> Codec::read_packet returned, or <<>>
    whole,       \* the keys of which every frame from the start on came through
    sends, faults,
    completed,   \* how often send_packet sent all frames of a message
    delivered    \* how often Codec::read_packet returned a message

link == <<tx, txdata, wire, out, whole, sends, faults, completed, delivered>>
lvars == <<vars, link>>

\* The tokens for the bytes that are no payload.
crc_low == -1
crc_high == -2
outside == 0     \* memory behind the payload

Bytes(m, from, n) ==
    [i \in 1 .. n |-> <<m, IF from + i <= m.len THEN from + i ELSE outside>>]

Payload(m) == Bytes(m, 0, m.len)
Crc(m) == << <<m, crc_low>>, <<m, crc_high>> >>

\* A packet of one frame has no CRC.
Sent(m) == IF m.len <= 8 THEN Payload(m) ELSE Payload(m) \o Crc(m)

Idle == [msg |-> "none"]

LInit ==
    /\ Init
    /\ tx = [s \in Nodes |-> Idle]
    /\ txdata = [s \in Nodes |-> ZeroBlock]
    /\ wire = <<>>
    /\ out = <<>>
    /\ whole = {}
    /\ sends = 0
    /\ faults = 0
    /\ completed = [m \in Messages |-> 0]
    /\ delivered = [m \in Messages |-> 0]

\* The step of a sender does not touch the receiver.
PoolUnchanged ==
    /\ Return("-")
    /\ UNCHANGED <<trees, items, free>>

(* send_packet(data, size), up to the first send_message().                 *)
SendPacket(m) ==
    /\ sends < MaxSends
    /\ tx[m.key.src] = Idle
    /\ LET single == m.len <= 8
       IN  tx' = [tx EXCEPT ![m.key.src] =
                    [msg |-> m,
                     frm |-> IF single THEN frm_single ELSE frm_start,
                     src |-> 0,
                     cnt |-> IF single THEN m.len ELSE m.len + 2]]
    /\ sends' = sends + 1
    /\ out' = <<>>
    /\ PoolUnchanged
    /\ UNCHANGED <<txdata, wire, whole, faults, completed, delivered>>

\* The frame kind and the bytes that one turn of the loop writes into txmsg.
Turn(t) ==
    LET m == t.msg
    IN  IF t.frm = frm_single THEN [frm |-> frm_single, bytes |-> Payload(m)]
        ELSE IF t.cnt > 8
        THEN [frm   |-> t.frm,
              bytes |-> IF t.cnt = 9 THEN Bytes(m, t.src, 7) \o <<Crc(m)[1]>>
                        ELSE Bytes(m, t.src, 8)]
        ELSE [frm   |-> frm_end,
              bytes |-> IF t.cnt > 2 THEN Bytes(m, t.src, t.cnt - 2) \o Crc(m)
                        ELSE IF t.cnt = 2 THEN Crc(m)
                        ELSE <<Crc(m)[2]>>]

BadNextFrm(frm) == IF frm = frm_start THEN 0 ELSE frm + 1    \* not taken in turn
NextFrm(frm) == IF frm = frm_start \/ frm >= FrmSeqMax THEN 0 ELSE frm + 1

\* One turn of the loop; the frame is handed to send_message() in txmsg, whose
\* bytes behind dlc are those of earlier frames.
SendFrame(s) ==
    /\ tx[s] # Idle
    /\ wire = <<>>
    /\ LET t    == tx[s]
           turn == Turn(t)
           dlc  == Min({t.cnt, 8})
           data == [i \in 1 .. 8 |-> IF i <= Len(turn.bytes) THEN turn.bytes[i]
                                     ELSE txdata[s][i]]
           last == t.cnt = dlc
       IN  /\ txdata' = [txdata EXCEPT ![s] = data]
           /\ \/ /\ wire' = <<[key |-> t.msg.key, frm |-> turn.frm, data |-> data, dlc |-> dlc,
                               msg |-> t.msg]>>
                 /\ tx' = [tx EXCEPT ![s] =
                             IF last THEN Idle
                             ELSE [t EXCEPT !.frm = NextFrm(t.frm), !.src = t.src + dlc,
                                            !.cnt = t.cnt - dlc]]
                 /\ completed' = IF last THEN [completed EXCEPT ![t.msg] = @ + 1] ELSE completed
                 /\ UNCHANGED faults
              \/ \* send_message() fails: send_packet returns false
                 /\ faults < MaxFaults
                 /\ faults' = faults + 1
                 /\ tx' = [tx EXCEPT ![s] = Idle]
                 /\ UNCHANGED <<wire, completed>>
    /\ out' = <<>>
    /\ PoolUnchanged
    /\ UNCHANGED <<whole, sends, delivered>>

\* push_message(msg) at the receiver.
PushMessage(frame) ==
    \/ /\ frame.key \in Accepted
       /\ Push(frame.key, frame.frm, frame.data, frame.dlc)
    \/ /\ frame.key \notin Accepted
       /\ Return("MsgAccepted")
       /\ UNCHANGED <<trees, items, free>>

\* The keys whose packet in progress is given up when push_message calls timeout().
Late == IF rv' \in {"ErrorSlotsOverflow", "ErrorTreeOverflow", "ErrorOrphan"}
        THEN {trees[t].key : t \in Expired(Pool)} ELSE {}

\* The frame on the bus reaches the receiver.
Arrive ==
    /\ wire # <<>>
    /\ PushMessage(wire[1])
    /\ LET k == wire[1].key
           others == whole \ Late
       IN  whole' = IF rv' \in {"ErrorSlotsOverflow", "ErrorTreeOverflow"} THEN others \ {k}
                    ELSE IF wire[1].frm = frm_start THEN others \cup {k}
                    ELSE IF wire[1].frm = frm_end THEN others \ {k}
                    ELSE others

Receive ==
    /\ Arrive
    /\ wire' = <<>>
    /\ out' = <<>>
    /\ UNCHANGED <<tx, txdata, sends, faults, completed, delivered>>

\* The bus delivers a frame and repeats it.
Repeat ==
    /\ faults < MaxFaults
    /\ faults' = faults + 1
    /\ Arrive
    /\ out' = <<>>
    /\ UNCHANGED <<tx, txdata, wire, sends, completed, delivered>>

Lose ==
    /\ faults < MaxFaults
    /\ faults' = faults + 1
    /\ wire # <<>>
    /\ wire' = <<>>
    /\ whole' = whole \ {wire[1].key}
    /\ out' = <<>>
    /\ PoolUnchanged
    /\ UNCHANGED <<tx, txdata, sends, completed, delivered>>

\* The bytes behind the pid in the buffer that the pool filled.
Content(p) == [i \in 1 .. p.size - 2 |-> p.blocks[((i - 1) \div 8) + 1][((i - 1) % 8) + 1]]

\* check_crc(): the last two bytes are the CRC of what stands before them.
BadCrcMatches(key, b) == TRUE
CrcMatches(key, b) ==
    LET m == b[Len(b)][1]
    IN  m.key = key /\ b = Payload(m) \o Crc(m)

Is(m, key, b) == m.key = key /\ b = Payload(m)

\* One turn of the loop of Codec::read_packet (the lock is released between
\* turns).  Up to pid_raw_t and eight bytes there is no CRC.
ReadTurn(sz) ==
    /\ \/ /\ ReadPacket(sz)
          /\ LET p == got'[1]
                 b == Content(p)
             IN  out' = IF p.size <= 10 THEN <<[key |-> p.key, bytes |-> b]>>
                        ELSE IF CrcMatches(p.key, b)
                        THEN <<[key |-> p.key, bytes |-> SubSeq(b, 1, Len(b) - 2)]>>
                        ELSE <<>>
       \/ /\ ReadNothing
          /\ out' = <<>>
    /\ delivered' = [m \in Messages |->
                        IF out' # <<>> /\ Is(m, out'[1].key, out'[1].bytes)
                        THEN delivered[m] + 1 ELSE delivered[m]]
    /\ UNCHANGED <<tx, txdata, wire, whole, sends, faults, completed>>

LNext ==
    \/ \E m \in Messages : SendPacket(m)
    \/ \E s \in Nodes : SendFrame(s)
    \/ Receive
    \/ Repeat
    \/ Lose
    \/ \E sz \in DestSizes : ReadTurn(sz)

LSpec == LInit /\ [][LNext]_lvars

-----------------------------------------------------------------------------
\* Whatever frames were lost, repeated or never sent, and whatever the pool put
\* together, Codec::read_packet returns only packets of which send_packet has
\* sent every frame, from the node that it names, with every byte in its place.
Integrity ==
    out # <<>> => \E m \in Messages : completed[m] > 0 /\ Is(m, out[1].key, out[1].bytes)

\* A packet of several frames is not returned more often than it was sent,
\* although the bus may repeat each of its frames (a repeated frm_single does
\* yield its packet again).
NotMultiplied ==
    \A m \in Messages : m.len > 8 => delivered[m] <= completed[m]

\* When all frames of a packet arrive, if repeated, it becomes complete with its
\* last frame and its bytes are those that were sent, for every length of packet
\* and whatever was left behind by earlier packets of the same key or is in
\* progress from others, as long as an item is free for the last frame (and a
\* tree for the only one).
ArrivedComplete ==
    [][(/\ Receive
        /\ wire[1].key \in Accepted
        /\ \/ wire[1].frm = frm_end /\ wire[1].key \in whole
           \/ wire[1].frm = frm_single
        /\ rv' \notin {"ErrorSlotsOverflow", "ErrorTreeOverflow"})
       => \E t \in Finished(Pool)' :
              Content(Copy(Pool', t, 2 + wire[1].msg.len + 2)) = Sent(wire[1].msg)]_lvars

=============================================================================
