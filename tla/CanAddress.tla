------------------------------ MODULE CanAddress ------------------------------
(***************************************************************************)
(* Nodes of the CAN link that share an address (src/xbus/can/CanCodec.cpp).  *)
(* Each node has two threads: one calls send_packet(), the other hands the    *)
(* frames that it hears to push_message(), which on a frame with the node's   *)
(* own address chooses another one and announces it.  Both build their        *)
(* frames in the same txmsg, field by field.  A third node receives, with     *)
(* the pool of CanPool.                                                       *)
(*                                                                          *)
(* updateNodeId() is not in the repository: it chooses any other address.     *)
(* A message names the node that sends it in key.src; what its frames carry  *)
(* is the address that the node had when send_packet() was called.            *)
(***************************************************************************)
EXTENDS CanLink

CONSTANTS
    Addresses,
    Announcement   \* the pid of sendAddressing(), 0xFFFF in the code

ASSUME AddressAssumption ==
    /\ Nodes \subseteq Addresses /\ Cardinality(Addresses) > 1
    /\ \A m \in Messages : m.key.pid # Announcement
    /\ \A k \in Accepted : k.pid # Announcement

VARIABLES
    adr,         \* for every node _extid_defaults.src
    txmsg,       \* for every node id (key and frm) and dlc of its txmsg; txdata is the rest
    pc,          \* for every node where the turn of the loop in send_packet() is
    as,          \* for every node the address that send_packet() found
    heard,       \* for every node <<the address in the frame>> it did not yet push, or <<>>
    answer,      \* for every node where sendAddressing() is, with the address it found
    had          \* history: for every node the addresses it had

address == <<adr, txmsg, pc, as, heard, answer, had>>
avars == <<lvars, address>>

NoAnswer == [at |-> "none", adr |-> CHOOSE a \in Addresses : TRUE]

AddressInit ==
    /\ had = [n \in Nodes |-> {adr[n]}]
    /\ txmsg = [n \in Nodes |-> [key |-> ZeroKey, frm |-> 0, dlc |-> 0]]
    /\ pc = [n \in Nodes |-> "idle"]
    /\ as = adr
    /\ heard = [n \in Nodes |-> <<>>]
    /\ answer = [n \in Nodes |-> NoAnswer]

\* All nodes have one address, or each its own.
AInit == LInit /\ (\E a \in Addresses : adr = [n \in Nodes |-> a]) /\ AddressInit
DistinctInit == adr = [n \in Nodes |-> n] /\ AddressInit

\* send_packet(): the address is taken once for all frames of the packet.
StartPacket(m) ==
    LET n == m.key.src
    IN  /\ SendPacket(m)
        /\ pc' = [pc EXCEPT ![n] = IF m.len <= 8 THEN "id" ELSE "data"]
        /\ as' = [as EXCEPT ![n] = adr[n]]
        /\ UNCHANGED <<adr, txmsg, heard, answer, had>>

\* The turn writes data, id and dlc; for a single frame id, dlc and data.
Following(single, at) ==
    CASE at = "data" -> IF single THEN "send" ELSE "id"
      [] at = "id"   -> "dlc"
      [] at = "dlc"  -> IF single THEN "data" ELSE "send"

WriteField(n) ==
    /\ pc[n] \in {"data", "id", "dlc"}
    /\ LET turn == Turn(tx[n])
           data == [i \in 1 .. 8 |-> IF i <= Len(turn.bytes) THEN turn.bytes[i] ELSE txdata[n][i]]
       IN  /\ txdata' = IF pc[n] = "data" THEN [txdata EXCEPT ![n] = data] ELSE txdata
           /\ txmsg' =
                CASE pc[n] = "id"  -> [txmsg EXCEPT ![n].key = [pid |-> tx[n].msg.key.pid, src |-> as[n]],
                                                    ![n].frm = turn.frm]
                  [] pc[n] = "dlc" -> [txmsg EXCEPT ![n].dlc = Min({tx[n].cnt, 8})]
                  [] OTHER         -> txmsg
    /\ pc' = [pc EXCEPT ![n] = Following(tx[n].msg.len <= 8, @)]
    /\ out' = <<>>
    /\ PoolUnchanged
    /\ UNCHANGED <<tx, wire, whole, sends, faults, completed, delivered, adr, as, heard, answer, had>>

\* send_message(txmsg) of either thread: the receiver pushes the frame, the other
\* nodes hear it, once they have pushed the one before.
Broadcast(n) ==
    /\ \A o \in Nodes \ {n} : heard[o] = <<>>
    /\ PushMessage([key |-> txmsg[n].key, frm |-> txmsg[n].frm, data |-> txdata[n], dlc |-> txmsg[n].dlc])
    /\ heard' = [o \in Nodes |-> IF o = n THEN heard[o] ELSE <<txmsg[n].key.src>>]
    /\ out' = <<>>
    /\ UNCHANGED <<wire, whole, txdata, txmsg, sends, faults, delivered, adr, as, had>>

SendTurn(n) ==
    /\ pc[n] = "send"
    /\ Broadcast(n)
    /\ LET t == tx[n]
           dlc == Min({t.cnt, 8})
           last == t.cnt = dlc
       IN  /\ tx' = [tx EXCEPT ![n] = IF last THEN Idle
                                      ELSE [t EXCEPT !.frm = NextFrm(t.frm), !.src = t.src + dlc,
                                                     !.cnt = t.cnt - dlc]]
           /\ pc' = [pc EXCEPT ![n] = IF last THEN "idle" ELSE "data"]
           /\ completed' = IF last THEN [completed EXCEPT ![t.msg] = @ + 1] ELSE completed
    /\ UNCHANGED answer

\* push_message() of a frame that was heard.
BadConflicts(n, src) == TRUE             \* whatever address the frame has
Conflicts(n, src) == src = adr[n]

Hear(n) ==
    /\ heard[n] # <<>>
    /\ answer[n].at = "none"
    /\ heard' = [heard EXCEPT ![n] = <<>>]
    /\ ~Conflicts(n, heard[n][1])
    /\ out' = <<>>
    /\ PoolUnchanged
    /\ UNCHANGED <<tx, txdata, wire, whole, sends, faults, completed, delivered>>
    /\ UNCHANGED <<adr, txmsg, pc, as, answer, had>>

\* updateNodeId() and the start of sendAddressing().
Move(n, a) ==
    /\ heard[n] # <<>>
    /\ answer[n].at = "none"
    /\ heard' = [heard EXCEPT ![n] = <<>>]
    /\ Conflicts(n, heard[n][1])
    /\ a # adr[n]
    /\ adr' = [adr EXCEPT ![n] = a]
    /\ had' = [had EXCEPT ![n] = @ \cup {a}]
    /\ answer' = [answer EXCEPT ![n] = [at |-> "id", adr |-> a]]
    /\ out' = <<>>
    /\ PoolUnchanged
    /\ UNCHANGED <<tx, txdata, wire, whole, sends, faults, completed, delivered>>
    /\ UNCHANGED <<txmsg, pc, as>>

\* The rest of sendAddressing(): id, then dlc, then send_message().
WriteAnswer(n) ==
    /\ answer[n].at \in {"id", "dlc"}
    /\ txmsg' = IF answer[n].at = "id"
                THEN [txmsg EXCEPT ![n].key = [pid |-> Announcement, src |-> answer[n].adr],
                                   ![n].frm = frm_single]
                ELSE [txmsg EXCEPT ![n].dlc = 0]
    /\ answer' = [answer EXCEPT ![n].at = IF @ = "id" THEN "dlc" ELSE "send"]
    /\ out' = <<>>
    /\ PoolUnchanged
    /\ UNCHANGED <<tx, txdata, wire, whole, sends, faults, completed, delivered>>
    /\ UNCHANGED <<adr, pc, as, heard, had>>

SendAnswer(n) ==
    /\ answer[n].at = "send"
    /\ Broadcast(n)
    /\ answer' = [answer EXCEPT ![n] = NoAnswer]
    /\ UNCHANGED <<tx, pc, completed>>

\* check_crc() covers the pid, but not the address.
BadCovered(key, b) == TRUE               \* not looked at
Covered(key, b) ==
    LET m == b[Len(b)][1]
    IN  m.key.pid = key.pid /\ b = Payload(m) \o Crc(m)

ReadAddressed(sz) ==
    /\ \/ /\ ReadPacket(sz)
          /\ LET p == got'[1]
                 b == Content(p)
             IN  out' = IF p.size <= 10 THEN <<[key |-> p.key, bytes |-> b]>>
                        ELSE IF Covered(p.key, b)
                        THEN <<[key |-> p.key, bytes |-> SubSeq(b, 1, Len(b) - 2)]>>
                        ELSE <<>>
       \/ ReadNothing /\ out' = <<>>
    /\ UNCHANGED <<tx, txdata, wire, whole, sends, faults, completed, delivered>>
    /\ UNCHANGED address

NodeStep(n) == WriteField(n) \/ SendTurn(n) \/ WriteAnswer(n) \/ SendAnswer(n) \/ Hear(n)

ANext ==
    \/ \E m \in Messages : StartPacket(m)
    \/ \E n \in Nodes : NodeStep(n) \/ \E a \in Addresses : Move(n, a)
    \/ \E sz \in DestSizes : ReadAddressed(sz)

ASpec == AInit /\ [][ANext]_avars

-----------------------------------------------------------------------------
\* A packet of several frames that read_packet() returns is one that a node was
\* asked to send, in full and with its pid, and names an address that this node
\* had: although nodes send with the same address, change it in the middle of a
\* packet, and their two threads overwrite each other's txmsg (CanCodec.cpp:84,
\* 102-105, 167-169).  Of a packet in a single frame this does not hold.
AddressedIntegrity ==
    out # <<>> /\ Len(out[1].bytes) > 8 =>
        \E m \in Messages :
            /\ out[1].bytes = Payload(m) /\ out[1].key.pid = m.key.pid
            /\ out[1].key.src \in had[m.key.src]

\* The addresses of a node's frames that are on their way: those that its threads
\* will write into txmsg, and that in txmsg once one of them has written it.
Written(n) ==
    \/ pc[n] \in {"dlc", "send"} \/ answer[n].at \in {"dlc", "send"}
    \/ pc[n] = "data" /\ tx[n].msg.len <= 8
Underway(n) ==
    (IF pc[n] = "idle" THEN {} ELSE {as[n]})
        \cup (IF answer[n].at = "none" THEN {} ELSE {answer[n].adr})
        \cup (IF Written(n) THEN {txmsg[n].key.src} ELSE {})

\* Once all addresses differ and no frame with another one is on its way, they stay
\* as they are, whatever the nodes send (CanCodec.cpp:82-86, 99, 116).
Settled ==
    \A n \in Nodes :
        /\ heard[n] # <<adr[n]>>
        /\ \A o \in Nodes \ {n} : adr[n] # adr[o] /\ adr[n] \notin Underway(o)
SettledStay == [][Settled => Settled' /\ UNCHANGED adr]_avars
=============================================================================
