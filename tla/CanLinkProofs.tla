---------------------------- MODULE CanLinkProofs ----------------------------
(***************************************************************************)
(* Proofs about the CAN link, for any numbers of nodes, messages and faults, *)
(* any lengths of messages and any sizes of the pool.                       *)
(*                                                                          *)
(* Blocks of different packets do mix in the pool: when all frame numbers    *)
(* of a turn are lost the rest is appended, and the CRC is what tells.  What *)
(* makes it tell is an invariant about single bytes, not about packets: the  *)
(* high byte of a message's CRC comes last in a complete packet and nowhere  *)
(* else, and is there only if all frames of the message were sent (GoodTree, *)
(* GoodFrame).  That a frame_end completes one packet at most, although the  *)
(* bus repeats it, needs the count in EndsCounted.                          *)
(*                                                                          *)
(* A packet whose frames all come through is assembled block by block in one *)
(* tree: as long as that holds of a sender the pool has its bytes so far and *)
(* expects the number of its next frame (Held, WholeInv).                    *)
(*                                                                          *)
(* The last parts are about CanAddress, where nodes may share an address: a  *)
(* packet may be a mix of frames of several nodes, but each of its bytes is  *)
(* of a node that had the address which the packet names (NamedTree).        *)
(***************************************************************************)
EXTENDS CanAddress, CanPoolProofs, FiniteSetTheorems

-----------------------------------------------------------------------------
(* The invariant                                                           *)

\* What a node is sending.
Sending ==
    {t \in [msg : Messages, frm : Frames, src : Nat, cnt : Nat] :
        \/ t.frm = frm_single /\ t.msg.len <= 8 /\ t.src = 0 /\ t.cnt = t.msg.len
        \/ /\ t.frm \in SeqFrames \cup {frm_start} /\ t.msg.len > 8
           /\ t.cnt > 0 /\ t.src + t.cnt = t.msg.len + 2
           /\ t.frm = frm_start => t.src = 0}

\* Payload, the memory behind it, or the low byte of a CRC.
Ordinary == UNION {{m} \X (-1 .. m.len) : m \in Messages}

\* The data of a frame of the start or the middle.
FullBlock(d) == \A i \in 1 .. 8 : d[i] \in Ordinary

\* The messages of which all frames were sent.
Done == {m \in Messages : completed[m] > 0}

\* The data of the last frame of m.
EndOf(m, d, last) == last \in 1 .. 8 /\ d[last] = <<m, crc_high>>

\* The data of the only frame of m.
OnlyOf(m, d) == m.len <= 8 /\ \A i \in 1 .. m.len : d[i] = <<m, i>>

\* A frame of send_packet(), when all frames of the messages in done were sent.
GoodFrame(w, done) ==
    /\ w.msg \in Messages /\ w.key = w.msg.key
    /\ w.frm \in Frames /\ w.data \in Blocks /\ w.dlc \in 0 .. 8
    /\ w.frm \in SeqFrames \cup {frm_start} => w.dlc = 8 /\ FullBlock(w.data)
    /\ w.frm = frm_end => w.msg \in done /\ w.msg.len > 8 /\ EndOf(w.msg, w.data, w.dlc)
    /\ w.frm = frm_single => w.msg \in done /\ w.dlc = w.msg.len /\ OnlyOf(w.msg, w.data)

\* The blocks that a tree with this key and dlc has collected.
GoodBody(key, last, body, done) ==
    LET n == Len(body)
    IN  /\ \A j \in 1 .. n : (j < n \/ last = 0) => FullBlock(body[j])
        /\ n > 1 /\ last # 0 => \E m \in done : EndOf(m, body[n], last)
        /\ n = 1 /\ last # 0 =>
               \E m \in done : /\ key = m.key /\ OnlyOf(m, body[1])
                               /\ last = IF m.len = 0 THEN ZeroLength ELSE m.len

GoodTree(p, t, done) == GoodBody(p.trees[t].key, p.trees[t].dlc, Body(p, t), done)

\* The complete packets that end like m.
Ends(p, m) ==
    {t \in Finished(p) : LET body == Body(p, t)
                         IN  Len(body) > 1 /\ body[Len(body)][p.trees[t].dlc] = <<m, crc_high>>}

\* The frame on the bus can still complete a packet of m.
EndOnWire(m) ==
    /\ wire # <<>>
    /\ wire[1].frm = frm_end /\ wire[1].msg = m
    /\ Working(Pool, m.key) # {}

EndsCounted(m) ==
    Cardinality(Ends(Pool, m)) + (IF EndOnWire(m) THEN 1 ELSE 0) + delivered[m] <= completed[m]

Senders == tx \in [Nodes -> Sending \cup {Idle}] /\ txdata \in [Nodes -> Blocks]
Counters == completed \in [Messages -> Nat] /\ delivered \in [Messages -> Nat]
OnWire == wire = <<>> \/ (wire = <<wire[1]>> /\ GoodFrame(wire[1], Done))

LinkInv ==
    /\ IInv
    /\ Senders
    /\ Counters
    /\ OnWire
    /\ \A t \in Used(Pool) : GoodTree(Pool, t, Done)
    /\ \A m \in Messages : m.len > 8 => EndsCounted(m)

-----------------------------------------------------------------------------
(* Bytes                                                                   *)

\* The frame kinds differ.
LEMMA FrameKinds ==
  /\ SeqFrames \subseteq Frames /\ {frm_start, frm_end, frm_single} \subseteq Frames
  /\ frm_end \notin SeqFrames /\ frm_start \notin SeqFrames /\ frm_single \notin SeqFrames
  /\ frm_start # frm_end /\ frm_single # frm_end /\ frm_single # frm_start
BY SizesAssumption DEF SeqFrames, Frames, frm_start, frm_end, frm_single

\* Consecutive bytes of a message are a sequence of tokens.
LEMMA BytesType ==
  ASSUME NEW m \in Messages, NEW from \in Nat, NEW n \in Nat
  PROVE  /\ Bytes(m, from, n) \in Seq({m} \X (0 .. m.len)) /\ Len(Bytes(m, from, n)) = n
         /\ \A i \in 1 .. n : Bytes(m, from, n)[i] = <<m, IF from + i <= m.len THEN from + i ELSE 0>>
<1> DEFINE b == Bytes(m, from, n)
<1>1. m.len \in Nat  BY LinkAssumption
<1>2. \A i \in 1 .. n : b[i] = <<m, IF from + i <= m.len THEN from + i ELSE 0>>
  BY DEF Bytes, outside
<1>3. b \in [1 .. n -> {m} \X (0 .. m.len)]
  <2>1. \A i \in 1 .. n : (IF from + i <= m.len THEN from + i ELSE 0) \in 0 .. m.len  BY <1>1
  <2>2. b = [i \in 1 .. n |-> <<m, IF from + i <= m.len THEN from + i ELSE 0>>]  BY DEF Bytes, outside
  <2> HIDE DEF b
  <2> QED  BY <2>1, <2>2
<1> HIDE DEF b
<1>4. b \in Seq({m} \X (0 .. m.len))  BY <1>3, SeqDef
<1>5. DOMAIN b = 1 .. n /\ DOMAIN b = 1 .. Len(b) /\ Len(b) \in Nat  BY <1>3, <1>4, LenProperties
<1>6. Len(b) = n  BY <1>5
<1> QED  BY <1>2, <1>4, <1>6 DEF b

\* The payload, and what is sent of a message with a CRC.
LEMMA PayloadType ==
  ASSUME NEW m \in Messages
  PROVE  /\ Payload(m) \in Seq({m} \X (0 .. m.len)) /\ Len(Payload(m)) = m.len
         /\ \A i \in 1 .. m.len : Payload(m)[i] = <<m, i>>
         /\ Payload(m) \o Crc(m) \in Seq({m} \X (-2 .. m.len))
         /\ Len(Payload(m) \o Crc(m)) = m.len + 2
         /\ \A i \in 1 .. m.len : (Payload(m) \o Crc(m))[i] = <<m, i>>
         /\ (Payload(m) \o Crc(m))[m.len + 1] = <<m, crc_low>>
         /\ (Payload(m) \o Crc(m))[m.len + 2] = <<m, crc_high>>
<1> DEFINE a == Payload(m)
           c == Crc(m)
           T == {m} \X (-2 .. m.len)
<1>1. m.len \in Nat  BY LinkAssumption
<1>2. a \in Seq({m} \X (0 .. m.len)) /\ Len(a) = m.len  BY <1>1, BytesType DEF Payload
<1>3. \A i \in 1 .. m.len : a[i] = <<m, i>>
  <2>1. \A i \in 1 .. m.len : a[i] = <<m, IF 0 + i <= m.len THEN 0 + i ELSE 0>>
    BY <1>1, BytesType DEF Payload
  <2> QED  BY <1>1, <2>1
<1>4. a \in Seq(T)
  <2>1. {m} \X (0 .. m.len) \subseteq T  BY <1>1
  <2> QED  BY <1>2, <2>1
<1>5. c = << <<m, crc_low>>, <<m, crc_high>> >> /\ <<m, crc_low>> \in T /\ <<m, crc_high>> \in T
  BY <1>1 DEF Crc, crc_low, crc_high
<1>6. c \in Seq(T) /\ Len(c) = 2 /\ c[1] = <<m, crc_low>> /\ c[2] = <<m, crc_high>>
  <2> HIDE DEF T
  <2> QED  BY <1>5
<1> HIDE DEF a, c, T
<1>7. /\ a \o c \in Seq(T) /\ Len(a \o c) = m.len + 2
      /\ \A i \in 1 .. m.len : (a \o c)[i] = a[i]
      /\ (a \o c)[m.len + 1] = c[1] /\ (a \o c)[m.len + 2] = c[2]
  <2>1. /\ a \o c \in Seq(T) /\ Len(a \o c) = Len(a) + Len(c)
        /\ \A i \in 1 .. Len(a) + Len(c) : (a \o c)[i] = IF i <= Len(a) THEN a[i] ELSE c[i - Len(a)]
    BY <1>4, <1>6, ConcatProperties
  <2> DEFINE j == m.len + 1
             l == m.len + 2
  <2>2. /\ \A i \in 1 .. m.len : i \in 1 .. m.len + 2 /\ i <= m.len
        /\ j \in 1 .. m.len + 2 /\ ~(j <= m.len) /\ j - m.len = 1
        /\ l \in 1 .. m.len + 2 /\ ~(l <= m.len) /\ l - m.len = 2
    BY <1>1
  <2> HIDE DEF j, l
  <2>3. \A i \in 1 .. m.len + 2 : (a \o c)[i] = IF i <= m.len THEN a[i] ELSE c[i - m.len]
    BY <1>2, <1>6, <2>1
  <2>4. (a \o c)[j] = c[1] /\ (a \o c)[l] = c[2]
    <3>1. (a \o c)[j] = c[j - m.len]  BY <2>2, <2>3
    <3>2. (a \o c)[l] = c[l - m.len]  BY <2>2, <2>3
    <3> QED  BY <2>2, <3>1, <3>2
  <2>5. \A i \in 1 .. m.len : (a \o c)[i] = a[i]  BY <2>2, <2>3
  <2>6. Len(a \o c) = m.len + 2  BY <1>2, <1>6, <2>1
  <2> QED  BY <2>1, <2>4, <2>5, <2>6 DEF j, l
<1> QED  BY <1>2, <1>3, <1>6, <1>7 DEF a, c, T

\* What check_crc() accepts ends with the high byte of the CRC, and the rest is the
\* payload.
LEMMA CrcLast ==
  ASSUME NEW m \in Messages, NEW b, b = Payload(m) \o Crc(m)
  PROVE  /\ Len(b) = m.len + 2 /\ b[Len(b)] = <<m, crc_high>>
         /\ SubSeq(b, 1, Len(b) - 2) = Payload(m)
<1>1. m.len \in Nat  BY LinkAssumption
<1>2. Len(b) = m.len + 2 /\ b[Len(b)] = <<m, crc_high>>  BY PayloadType
<1> DEFINE T == {m} \X (-2 .. m.len)
           s == SubSeq(b, 1, m.len)
           a == Payload(m)
<1>3. b \in Seq(T) /\ Len(b) = m.len + 2 /\ \A i \in 1 .. m.len : b[i] = <<m, i>>
  BY PayloadType
<1>4. a \in Seq(T) /\ Len(a) = m.len /\ \A i \in 1 .. m.len : a[i] = <<m, i>>
  <2>1. {m} \X (0 .. m.len) \subseteq T  BY <1>1
  <2>2. a \in Seq({m} \X (0 .. m.len)) /\ Len(a) = m.len /\ \A i \in 1 .. m.len : a[i] = <<m, i>>
    BY PayloadType
  <2> HIDE DEF T, a
  <2> QED  BY <2>1, <2>2
<1> HIDE DEF T, a
<1>5. s \in Seq(T) /\ Len(s) = m.len /\ \A i \in 1 .. m.len : s[i] = b[i]
  BY <1>1, <1>3
<1> HIDE DEF s
<1>6. s = a
  <2>1. Len(s) = Len(a) /\ \A i \in 1 .. Len(s) : s[i] = a[i]  BY <1>3, <1>4, <1>5
  <2> QED  BY <1>4, <1>5, <2>1, SeqEqual
<1>7. Len(b) - 2 = m.len  BY <1>1, <1>2
<1> QED  BY <1>2, <1>6, <1>7 DEF s, a

\* The bytes that send_packet() sends of m.
LEMMA SentType ==
  ASSUME NEW m \in Messages
  PROVE  /\ Sent(m) \in Seq({m} \X (-2 .. m.len))
         /\ Len(Sent(m)) = IF m.len <= 8 THEN m.len ELSE m.len + 2
         /\ \A i \in 1 .. m.len : Sent(m)[i] = <<m, i>>
         /\ m.len > 8 => Sent(m)[m.len + 1] = <<m, crc_low>> /\ Sent(m)[m.len + 2] = <<m, crc_high>>
<1>1. PICK len \in Nat : len = m.len  BY LinkAssumption
<1>2. CASE len <= 8
  <2> DEFINE a == Payload(m)
             S == {m} \X (0 .. m.len)
             T == {m} \X (-2 .. m.len)
  <2>1. a \in Seq(S) /\ Len(a) = m.len /\ \A i \in 1 .. m.len : a[i] = <<m, i>>  BY PayloadType
  <2>2. S \subseteq T  BY <1>1
  <2>3. Sent(m) = a  BY <1>1, <1>2 DEF Sent
  <2> HIDE DEF a, S, T
  <2>4. a \in Seq(T)  BY <2>1, <2>2
  <2>5. m.len <= 8 /\ ~(m.len > 8)  BY <1>1, <1>2
  <2> QED  BY <2>1, <2>3, <2>4, <2>5 DEF T
<1>3. CASE len > 8
  <2>1. ~(m.len <= 8)  BY <1>1, <1>3
  <2>2. Sent(m) = Payload(m) \o Crc(m)  BY <2>1 DEF Sent
  <2> QED  BY <2>1, <2>2, PayloadType
<1> QED  BY <1>2, <1>3

\* c is a, of length n, with b, of length l, behind it.
Joined(c, a, n, b, l) ==
    /\ Len(c) = n + l
    /\ \A i \in 1 .. n : c[i] = a[i]
    /\ \A j \in 1 .. l : c[n + j] = b[j]

\* The elements of a concatenation.
LEMMA ConcatAt ==
  ASSUME NEW S, NEW a \in Seq(S), NEW b \in Seq(S), NEW n, NEW l, Len(a) = n, Len(b) = l,
         NEW c, c = a \o b
  PROVE  Joined(c, a, n, b, l)
<1>1. n \in Nat /\ l \in Nat  BY LenProperties
<1>2. /\ c \in Seq(S) /\ Len(c) = Len(a) + Len(b)
      /\ \A i \in 1 .. Len(a) + Len(b) : c[i] = IF i <= Len(a) THEN a[i] ELSE b[i - Len(a)]
  BY ConcatProperties
<1>3. /\ Len(c) = n + l
      /\ \A i \in 1 .. n + l : c[i] = IF i <= n THEN a[i] ELSE b[i - n]
  BY <1>2
<1>4. \A i \in 1 .. n : c[i] = a[i]
  <2>1. \A i \in 1 .. n : i \in 1 .. n + l /\ i <= n  BY <1>1
  <2> QED  BY <1>3, <2>1
<1>5. ASSUME NEW j \in 1 .. l PROVE c[n + j] = b[j]
  <2>1. n + j \in 1 .. n + l /\ ~(n + j <= n) /\ (n + j) - n = j  BY <1>1
  <2>2. c[n + j] = b[(n + j) - n]  BY <1>3, <2>1
  <2> QED  BY <2>1, <2>2
<1> QED  BY <1>3, <1>4, <1>5 DEF Joined

\* b is the next k bytes, from src on, of what is sent of m.
Part(b, m, src, k) == Len(b) = k /\ \A i \in 1 .. k : b[i] = Sent(m)[src + i]

\* Bytes of the payload are part of it.
LEMMA BytesPart ==
  ASSUME NEW m \in Messages, NEW len \in Nat, len = m.len,
         NEW src \in Nat, NEW n \in Nat, src + n <= len
  PROVE  Part(Bytes(m, src, n), m, src, n) /\ Bytes(m, src, n) \in Seq({m} \X (-2 .. m.len))
<1> DEFINE T == {m} \X (-2 .. m.len)
           S == {m} \X (0 .. m.len)
           a == Bytes(m, src, n)
<1>1. a \in Seq(S) /\ Len(a) = n /\ \A i \in 1 .. n : a[i] = <<m, IF src + i <= m.len THEN src + i ELSE 0>>
  BY BytesType
<1>2. S \subseteq T  OBVIOUS
<1>3. \A i \in 1 .. n : src + i \in 1 .. len /\ src + i <= len  OBVIOUS
<1>4. \A i \in 1 .. len : Sent(m)[i] = <<m, i>>  BY SentType
<1> HIDE DEF a, S, T
<1>5. \A i \in 1 .. n : a[i] = Sent(m)[src + i]
  <2> TAKE i \in 1 .. n
  <2>1. a[i] = <<m, src + i>>  BY <1>1, <1>3
  <2> QED  BY <1>3, <1>4, <2>1
<1>6. a \in Seq(T)  BY <1>1, <1>2
<1> QED  BY <1>1, <1>5, <1>6 DEF Part, a, T

\* The turns of a packet of several frames, by the number of bytes left.
LEMMA PartSends ==
  ASSUME NEW m \in Messages, NEW len \in Nat, len = m.len, len > 8,
         NEW src \in Nat, NEW cnt \in Nat, src + cnt = len + 2
  PROVE  /\ cnt > 9 => Part(Bytes(m, src, 8), m, src, 8)
         /\ cnt = 9 => Part(Bytes(m, src, 7) \o <<Crc(m)[1]>>, m, src, 8)
         /\ cnt > 2 /\ cnt <= 8 => Part(Bytes(m, src, cnt - 2) \o Crc(m), m, src, cnt)
         /\ cnt = 2 => Part(Crc(m), m, src, 2)
         /\ cnt = 1 => Part(<<Crc(m)[2]>>, m, src, 1)
<1> DEFINE x == Sent(m)
           T == {m} \X (-2 .. m.len)
           c == Crc(m)
           c1 == <<c[1]>>
           c2 == <<c[2]>>
<1>2. x[len + 1] = <<m, crc_low>> /\ x[len + 2] = <<m, crc_high>>  BY SentType
<1>3. c = << <<m, crc_low>>, <<m, crc_high>> >> /\ <<m, crc_low>> \in T /\ <<m, crc_high>> \in T
  BY DEF Crc, crc_low, crc_high
<1> HIDE DEF T, x
<1>4. /\ c \in Seq(T) /\ Len(c) = 2 /\ c[1] = x[len + 1] /\ c[2] = x[len + 2]
      /\ c1 \in Seq(T) /\ Len(c1) = 1 /\ c1[1] = x[len + 1]
      /\ Len(c2) = 1 /\ c2[1] = x[len + 2]
  BY <1>2, <1>3
<1> HIDE DEF c, c1, c2
<1>5. ASSUME cnt > 9 PROVE Part(Bytes(m, src, 8), m, src, 8)
  <2>1. src + 8 <= len  BY <1>5
  <2> QED  BY <2>1, BytesPart
<1>6. ASSUME cnt = 9 PROVE Part(Bytes(m, src, 7) \o c1, m, src, 8)
  <2> DEFINE a == Bytes(m, src, 7)
             b == a \o c1
  <2>1. src + 7 <= len /\ src + 8 = len + 1  BY <1>6
  <2>2. Part(a, m, src, 7) /\ a \in Seq(T)  BY <2>1, BytesPart DEF T
  <2> HIDE DEF a
  <2>3. Len(a) = 7 /\ \A i \in 1 .. 7 : a[i] = x[src + i]  BY <2>2 DEF Part, x
  <2>4. Joined(b, a, 7, c1, 1)  BY <1>4, <2>2, <2>3, ConcatAt
  <2> HIDE DEF b
  <2>5. Len(b) = 8 /\ (\A i \in 1 .. 7 : b[i] = a[i]) /\ b[8] = c1[1]
    <3>1. Len(b) = 7 + 1 /\ (\A i \in 1 .. 7 : b[i] = a[i]) /\ b[7 + 1] = c1[1]
      BY <2>4 DEF Joined
    <3> QED  BY <3>1
  <2>6. \A i \in 1 .. 8 : i \in 1 .. 7 \/ i = 8  OBVIOUS
  <2>7. b[8] = x[src + 8]  BY <1>4, <2>1, <2>5
  <2>8. \A i \in 1 .. 8 : b[i] = x[src + i]  BY <2>3, <2>5, <2>6, <2>7
  <2> QED  BY <2>5, <2>8 DEF Part, a, b, x
<1>7. ASSUME cnt > 2, cnt <= 8 PROVE Part(Bytes(m, src, cnt - 2) \o c, m, src, cnt)
  <2>1. PICK n \in Nat : n = cnt - 2  BY <1>7
  <2> DEFINE a == Bytes(m, src, n)
             b == a \o c
  <2>2. src + n <= len /\ src + (n + 1) = len + 1 /\ src + (n + 2) = len + 2 /\ n + 2 = cnt
    BY <2>1
  <2>3. Part(a, m, src, n) /\ a \in Seq(T)  BY <2>2, BytesPart DEF T
  <2> HIDE DEF a
  <2>4. Len(a) = n /\ \A i \in 1 .. n : a[i] = x[src + i]  BY <2>3 DEF Part, x
  <2>5. Joined(b, a, n, c, 2)  BY <1>4, <2>3, <2>4, ConcatAt
  <2> HIDE DEF b
  <2>6. Len(b) = n + 2 /\ (\A i \in 1 .. n : b[i] = a[i]) /\ b[n + 1] = c[1] /\ b[n + 2] = c[2]
    BY <2>5 DEF Joined
  <2>7. \A i \in 1 .. cnt : i \in 1 .. n \/ i = n + 1 \/ i = n + 2  BY <2>2
  <2>8. b[n + 1] = x[src + (n + 1)] /\ b[n + 2] = x[src + (n + 2)]  BY <1>4, <2>2, <2>6
  <2>9. \A i \in 1 .. cnt : b[i] = x[src + i]  BY <2>4, <2>6, <2>7, <2>8
  <2> QED  BY <2>1, <2>2, <2>6, <2>9 DEF Part, a, b, x
<1>8. ASSUME cnt = 2 PROVE Part(c, m, src, 2)
  <2>1. src + 1 = len + 1 /\ src + 2 = len + 2  BY <1>8
  <2>2. \A i \in 1 .. 2 : i = 1 \/ i = 2  OBVIOUS
  <2>3. \A i \in 1 .. 2 : c[i] = x[src + i]  BY <1>4, <2>1, <2>2
  <2> QED  BY <1>4, <2>3 DEF Part, x
<1>9. ASSUME cnt = 1 PROVE Part(c2, m, src, 1)
  <2>1. src + 1 = len + 2  BY <1>9
  <2>2. \A i \in 1 .. 1 : i = 1  OBVIOUS
  <2>3. \A i \in 1 .. 1 : c2[i] = x[src + i]  BY <1>4, <2>1, <2>2
  <2> QED  BY <1>4, <2>3 DEF Part, x
<1> QED  BY <1>5, <1>6, <1>7, <1>8, <1>9 DEF x, c, c1, c2

\* One turn of the loop in send_packet() writes the next bytes of what is sent.
LEMMA TurnSends ==
  ASSUME NEW t \in Sending
  PROVE  /\ Min({t.cnt, 8}) = (IF t.cnt <= 8 THEN t.cnt ELSE 8)
         /\ Part(Turn(t).bytes, t.msg, t.src, Min({t.cnt, 8}))
         /\ Turn(t).frm = IF t.frm = frm_single \/ t.cnt > 8 THEN t.frm ELSE frm_end
<1>1. PICK m \in Messages, src \in Nat, cnt \in Nat : m = t.msg /\ src = t.src /\ cnt = t.cnt
  BY DEF Sending
<1>2. PICK len \in Nat : len = m.len  BY LinkAssumption
<1>3. Min({cnt, 8}) = IF cnt <= 8 THEN cnt ELSE 8
  <2>1. {cnt, 8} \in SUBSET Nat  OBVIOUS
  <2>2. Min({cnt, 8}) \in {cnt, 8} /\ \A n \in {cnt, 8} : Min({cnt, 8}) <= n  BY <2>1, MinIsLeast
  <2> QED  BY <2>2
<1>4. \/ t.frm = frm_single /\ len <= 8 /\ src = 0 /\ cnt = len
      \/ t.frm # frm_single /\ len > 8 /\ cnt > 0 /\ src + cnt = len + 2
  BY <1>1, <1>2, FrameKinds DEF Sending
<1> DEFINE b == Turn(t).bytes
<1>5. CASE t.frm = frm_single /\ len <= 8 /\ src = 0 /\ cnt = len
  <2>1. b = Payload(m) /\ Turn(t).frm = frm_single  BY <1>1, <1>5 DEF Turn
  <2>2. Payload(m) = Bytes(m, src, len)  BY <1>2, <1>5 DEF Payload
  <2> HIDE DEF b
  <2>3. src + len <= len  BY <1>5
  <2>4. Part(b, m, src, len)  BY <1>2, <2>1, <2>2, <2>3, BytesPart
  <2> QED  BY <1>1, <1>3, <1>5, <2>1, <2>4 DEF b
<1>6. CASE t.frm # frm_single /\ len > 8 /\ cnt > 0 /\ src + cnt = len + 2
  <2>1. Turn(t).frm = IF cnt > 8 THEN t.frm ELSE frm_end  BY <1>1, <1>6 DEF Turn
  <2>2. b = IF cnt > 8 THEN IF cnt = 9 THEN Bytes(m, src, 7) \o <<Crc(m)[1]>> ELSE Bytes(m, src, 8)
            ELSE IF cnt > 2 THEN Bytes(m, src, cnt - 2) \o Crc(m)
                 ELSE IF cnt = 2 THEN Crc(m) ELSE <<Crc(m)[2]>>
    BY <1>1, <1>6 DEF Turn
  <2>3. /\ cnt > 9 => Part(Bytes(m, src, 8), m, src, 8)
        /\ cnt = 9 => Part(Bytes(m, src, 7) \o <<Crc(m)[1]>>, m, src, 8)
        /\ cnt > 2 /\ cnt <= 8 => Part(Bytes(m, src, cnt - 2) \o Crc(m), m, src, cnt)
        /\ cnt = 2 => Part(Crc(m), m, src, 2)
        /\ cnt = 1 => Part(<<Crc(m)[2]>>, m, src, 1)
    BY <1>2, <1>6, PartSends
  <2> HIDE DEF b
  <2>4. Part(b, m, src, IF cnt <= 8 THEN cnt ELSE 8)
    <3>1. CASE cnt > 9  BY <2>2, <2>3, <3>1
    <3>2. CASE cnt = 9  BY <2>2, <2>3, <3>2
    <3>3. CASE cnt > 2 /\ cnt <= 8  BY <2>2, <2>3, <3>3
    <3>4. CASE cnt = 2  BY <2>2, <2>3, <3>4
    <3>5. CASE cnt = 1  BY <2>2, <2>3, <3>5
    <3>6. cnt > 9 \/ cnt = 9 \/ (cnt > 2 /\ cnt <= 8) \/ cnt = 2 \/ cnt = 1  BY <1>6
    <3> QED  BY <3>1, <3>2, <3>3, <3>4, <3>5, <3>6
  <2> QED  BY <1>1, <1>3, <1>6, <2>1, <2>4 DEF b
<1> QED  BY <1>4, <1>5, <1>6

-----------------------------------------------------------------------------
(* What a step leaves as it is                                             *)

\* A packet in the pool stays good when more messages were sent.
LEMMA SameGood ==
  ASSUME NEW p, NEW q, NEW t, Same(p, q, t), NEW done, NEW more, done \subseteq more,
         GoodTree(p, t, done)
  PROVE  GoodTree(q, t, more)
BY DEF Same, GoodTree, GoodBody

\* The same of the packets of which one ends like m.
LEMMA SameEnds ==
  ASSUME NEW p, NEW q, NEW m, NEW t, Same(p, q, t)
  PROVE  t \in Ends(p, m) <=> t \in Ends(q, m)
BY SameKind DEF Same, Ends

\* The packets of the pool are finitely many.
LEMMA EndsFinite ==
  ASSUME NEW p, NEW m
  PROVE  IsFiniteSet(Ends(p, m)) /\ Cardinality(Ends(p, m)) \in Nat
<1>1. Ends(p, m) \in SUBSET (1 .. NumTrees)  BY DEF Ends, Finished, Used, Trees
<1>2. NumTrees \in Int /\ 1 \in Int  BY SizesAssumption
<1> QED  BY <1>1, <1>2, FS_Interval, FS_Subset, FS_CardinalityType

\* Fewer complete packets.
LEMMA EndsFewer ==
  ASSUME NEW p, NEW q, NEW m, Ends(q, m) \subseteq Ends(p, m)
  PROVE  Cardinality(Ends(q, m)) <= Cardinality(Ends(p, m))
BY EndsFinite, FS_Subset

\* One more.
LEMMA EndsMore ==
  ASSUME NEW p, NEW q, NEW m, NEW t, Ends(q, m) \subseteq Ends(p, m) \cup {t}
  PROVE  Cardinality(Ends(q, m)) <= Cardinality(Ends(p, m)) + 1
<1> DEFINE S == Ends(p, m)
<1>1. IsFiniteSet(S) /\ Cardinality(S) \in Nat /\ Cardinality(Ends(q, m)) \in Nat  BY EndsFinite
<1> HIDE DEF S
<1>2. IsFiniteSet(S \cup {t}) /\ (Cardinality(S \cup {t}) = Cardinality(S) \/ Cardinality(S \cup {t}) = Cardinality(S) + 1)
  BY <1>1, FS_AddElement
<1>3. Cardinality(Ends(q, m)) <= Cardinality(S \cup {t})  BY <1>2, FS_Subset DEF S
<1> QED  BY <1>1, <1>2, <1>3 DEF S

\* One less.
LEMMA EndsLess ==
  ASSUME NEW p, NEW q, NEW m, NEW t \in Ends(p, m), Ends(q, m) \subseteq Ends(p, m) \ {t}
  PROVE  Cardinality(Ends(q, m)) + 1 <= Cardinality(Ends(p, m))
<1> DEFINE S == Ends(p, m)
<1>1. IsFiniteSet(S) /\ Cardinality(S) \in Nat /\ Cardinality(Ends(q, m)) \in Nat  BY EndsFinite
<1> HIDE DEF S
<1>2. IsFiniteSet(S \ {t}) /\ Cardinality(S \ {t}) = Cardinality(S) - 1
  BY <1>1, FS_RemoveElement DEF S
<1>3. Cardinality(Ends(q, m)) <= Cardinality(S \ {t})  BY <1>2, FS_Subset DEF S
<1> QED  BY <1>1, <1>2, <1>3 DEF S

\* What was sent remains sent.
LEMMA DoneGrows ==
  ASSUME Counters, Counters', \A m \in Messages : completed[m] <= completed'[m]
  PROVE  Done \subseteq Done'
<1>1. \A m \in Messages : completed[m] \in Nat /\ completed'[m] \in Nat  BY DEF Counters
<1> QED  BY <1>1 DEF Done

\* What is said of the pool holds while it stays as it is.
LEMMA PoolKept ==
  ASSUME LinkInv, Pool' = Pool, rv' \in Results, Counters', Done \subseteq Done'
  PROVE  /\ IInv'
         /\ \A t \in Used(Pool)' : GoodTree(Pool, t, Done)'
         /\ \A m : Ends(Pool, m)' = Ends(Pool, m)
         /\ \A k : Working(Pool, k)' = Working(Pool, k)
<1>1. IInv'  BY DEF LinkInv, IInv
<1>2. Used(Pool)' = Used(Pool)  BY DEF Used
<1>3. \A t \in Used(Pool) : Same(Pool, Pool', t)  BY DEF Same
<1>4. \A t \in Used(Pool) : GoodTree(Pool', t, Done')  BY <1>3, SameGood DEF LinkInv
<1>5. \A t \in Used(Pool) : GoodTree(Pool, t, Done)'  BY <1>4 DEF GoodTree
<1> QED  BY <1>1, <1>2, <1>5 DEF Ends, Working, Finished, Partial, Used

\* The steps of a sender do not touch the pool.
LEMMA PoolAsBefore ==
  ASSUME LinkInv, PoolUnchanged, Counters', Done \subseteq Done'
  PROVE  /\ IInv' /\ Pool' = Pool
         /\ \A t \in Used(Pool)' : GoodTree(Pool, t, Done)'
         /\ \A m : Ends(Pool, m)' = Ends(Pool, m)
         /\ \A k : Working(Pool, k)' = Working(Pool, k)
<1>1. Pool' = Pool /\ rv' \in Results  BY DEF PoolUnchanged, Pool, Return, Results
<1> QED  BY <1>1, PoolKept

-----------------------------------------------------------------------------
(* The senders                                                             *)

\* What a turn sends are tokens, all ordinary but the last byte of the last frame.
LEMMA SentTokens ==
  ASSUME NEW t \in Sending, NEW i \in 1 .. (IF t.cnt <= 8 THEN t.cnt ELSE 8)
  PROVE  /\ Sent(t.msg)[t.src + i] \in Tokens
         /\ t.frm = frm_single => Sent(t.msg)[t.src + i] = <<t.msg, i>>
         /\ t.frm # frm_single /\ t.cnt > 8 => Sent(t.msg)[t.src + i] \in Ordinary
         /\ t.frm # frm_single /\ i = t.cnt => Sent(t.msg)[t.src + i] = <<t.msg, crc_high>>
<1>1. PICK m \in Messages, src \in Nat, cnt \in Nat : m = t.msg /\ src = t.src /\ cnt = t.cnt
  BY DEF Sending
<1>2. PICK len \in Nat : len = m.len  BY LinkAssumption
<1>3. i \in Nat /\ i > 0 /\ i <= cnt /\ i <= 8  BY <1>1
<1> DEFINE x == Sent(m)
<1>4. /\ \A j \in 1 .. len : x[j] = <<m, j>>
      /\ len > 8 => x[len + 1] = <<m, -1>> /\ x[len + 2] = <<m, -2>>
  BY <1>2, SentType DEF crc_low, crc_high
<1>5. {m} \X (-2 .. len) \subseteq Tokens  BY <1>2, LinkAssumption
<1>6. {m} \X (-1 .. len) \subseteq Ordinary  BY <1>2 DEF Ordinary
<1> HIDE DEF x
<1>7. CASE t.frm = frm_single
  <2>1. src = 0 /\ cnt = len  BY <1>1, <1>2, <1>7, FrameKinds DEF Sending
  <2>2. src + i = i /\ i \in 1 .. len /\ i \in -2 .. len  BY <1>3, <2>1
  <2>3. x[src + i] = <<m, i>> /\ <<m, i>> \in {m} \X (-2 .. len)  BY <1>4, <2>2
  <2> QED  BY <1>1, <1>5, <1>7, <2>3 DEF x
<1>8. CASE t.frm # frm_single
  <2>1. len > 8 /\ src + cnt = len + 2  BY <1>1, <1>2, <1>8 DEF Sending
  <2>2. src + i \in 1 .. len \/ src + i = len + 1 \/ (src + i = len + 2 /\ i = cnt)
    BY <1>3, <2>1
  <2>3. i = cnt => src + i = len + 2 /\ ~(cnt > 8)  BY <1>3, <2>1
  <2>4. \A j \in 1 .. len : j \in -2 .. len /\ j \in -1 .. len  OBVIOUS
  <2>5. -1 \in -2 .. len /\ -1 \in -1 .. len /\ -2 \in -2 .. len  OBVIOUS
  <2>6. CASE src + i \in 1 .. len
    <3>1. x[src + i] = <<m, src + i>> /\ i # cnt  BY <1>4, <2>1, <2>3, <2>6
    <3>2. <<m, src + i>> \in {m} \X (-2 .. len) /\ <<m, src + i>> \in {m} \X (-1 .. len)
      BY <2>4, <2>6
    <3> QED  BY <1>1, <1>5, <1>6, <1>8, <3>1, <3>2 DEF x
  <2>7. CASE src + i = len + 1
    <3>1. x[src + i] = <<m, -1>> /\ i # cnt  BY <1>4, <2>1, <2>3, <2>7
    <3>2. <<m, -1>> \in {m} \X (-2 .. len) /\ <<m, -1>> \in {m} \X (-1 .. len)  BY <2>5
    <3> QED  BY <1>1, <1>5, <1>6, <1>8, <3>1, <3>2 DEF x
  <2>8. CASE src + i = len + 2 /\ i = cnt
    <3>1. x[src + i] = <<m, crc_high>> /\ <<m, crc_high>> \in {m} \X (-2 .. len) /\ ~(cnt > 8)
      BY <1>4, <2>1, <2>3, <2>5, <2>8 DEF crc_high
    <3> QED  BY <1>1, <1>5, <1>8, <3>1 DEF x
  <2> QED  BY <2>2, <2>6, <2>7, <2>8
<1> QED  BY <1>7, <1>8

\* What the first dlc bytes of the data of t's turn must be.
TurnData(t, dlc, data) ==
    /\ data \in Blocks
    /\ dlc = IF t.cnt <= 8 THEN t.cnt ELSE 8
    /\ \A i \in 1 .. dlc : data[i] = Sent(t.msg)[t.src + i]
    /\ t.frm = frm_single => \A i \in 1 .. dlc : data[i] = <<t.msg, i>>
    /\ t.frm # frm_single /\ t.cnt > 8 => \A i \in 1 .. dlc : data[i] \in Ordinary
    /\ t.frm # frm_single /\ t.cnt \in 1 .. dlc => data[t.cnt] = <<t.msg, crc_high>>

\* The bytes of a turn, filled up with those of a block.
LEMMA TurnBytes ==
  ASSUME NEW t \in Sending, NEW old \in Blocks, NEW b, NEW dlc, dlc = Min({t.cnt, 8}),
         b = Turn(t).bytes
  PROVE  /\ TurnData(t, dlc, [i \in 1 .. 8 |-> IF i <= Len(b) THEN b[i] ELSE old[i]])
         /\ Turn(t).frm = IF t.frm = frm_single \/ t.cnt > 8 THEN t.frm ELSE frm_end
<1>1. PICK m \in Messages, src \in Nat, cnt \in Nat : m = t.msg /\ src = t.src /\ cnt = t.cnt
  BY DEF Sending
<1>2. /\ dlc = (IF cnt <= 8 THEN cnt ELSE 8) /\ Part(b, m, src, dlc)
      /\ Turn(t).frm = IF t.frm = frm_single \/ cnt > 8 THEN t.frm ELSE frm_end
  BY <1>1, TurnSends
<1>3. dlc \in 0 .. 8  BY <1>2
<1>4. Len(b) = dlc /\ \A i \in 1 .. dlc : b[i] = Sent(m)[src + i]  BY <1>2 DEF Part
<1>5. /\ \A i \in 1 .. dlc : b[i] = Sent(m)[src + i]
      /\ \A i \in 1 .. dlc : b[i] \in Tokens
      /\ t.frm = frm_single => \A i \in 1 .. dlc : b[i] = <<m, i>>
      /\ t.frm # frm_single /\ cnt > 8 => \A i \in 1 .. dlc : b[i] \in Ordinary
      /\ t.frm # frm_single /\ cnt \in 1 .. dlc => b[cnt] = <<m, crc_high>>
  <2>1. ASSUME NEW i \in 1 .. dlc
        PROVE  /\ b[i] \in Tokens
               /\ t.frm = frm_single => b[i] = <<m, i>>
               /\ t.frm # frm_single /\ cnt > 8 => b[i] \in Ordinary
               /\ t.frm # frm_single /\ i = cnt => b[i] = <<m, crc_high>>
    <3>1. i \in 1 .. (IF t.cnt <= 8 THEN t.cnt ELSE 8)  BY <1>1, <1>2
    <3>2. b[i] = Sent(t.msg)[t.src + i]  BY <1>1, <1>4
    <3> QED  BY <1>1, <3>1, <3>2, SentTokens
  <2> QED  BY <1>4, <2>1
<1>6. Blocks = [1 .. 8 -> Tokens]  BY LinkAssumption
<1>7. ASSUME NEW data, data = [i \in 1 .. 8 |-> IF i <= Len(b) THEN b[i] ELSE old[i]]
      PROVE  data \in Blocks /\ \A i \in 1 .. dlc : data[i] = b[i]
  <2>1. \A i \in 1 .. 8 : i <= dlc => i \in 1 .. dlc  BY <1>3
  <2>2. \A i \in 1 .. 8 : (IF i <= dlc THEN b[i] ELSE old[i]) \in Tokens
    <3>1. \A i \in 1 .. 8 : old[i] \in Tokens  BY <1>6
    <3>2. ASSUME NEW i \in 1 .. 8 PROVE (IF i <= dlc THEN b[i] ELSE old[i]) \in Tokens
      <4>1. CASE i <= dlc
        <5>1. b[i] \in Tokens  BY <1>5, <2>1, <4>1
        <5> QED  BY <4>1, <5>1
      <4>2. CASE ~(i <= dlc)  BY <3>1, <4>2
      <4> QED  BY <4>1, <4>2
    <3> QED  BY <3>2
  <2>3. data = [i \in 1 .. 8 |-> IF i <= dlc THEN b[i] ELSE old[i]]  BY <1>4, <1>7
  <2>4. data \in Blocks  BY <1>6, <2>2, <2>3
  <2>5. \A i \in 1 .. dlc : i \in 1 .. 8 /\ i <= dlc  BY <1>3
  <2> QED  BY <2>3, <2>4, <2>5
<1>8. ASSUME NEW data, data \in Blocks, \A i \in 1 .. dlc : data[i] = b[i]
      PROVE  TurnData(t, dlc, data)
  BY <1>1, <1>2, <1>5, <1>8 DEF TurnData
<1> QED  BY <1>1, <1>2, <1>7, <1>8

\* w is the frame of t's turn.
FrameOf(w, t) ==
    /\ w.key = t.msg.key /\ w.msg = t.msg
    /\ w.frm = IF t.frm = frm_single \/ t.cnt > 8 THEN t.frm ELSE frm_end
    /\ TurnData(t, w.dlc, w.data)

\* The state of the loop after dlc bytes.
NextTurn(t, dlc) ==
    [t EXCEPT !.frm = NextFrm(t.frm), !.src = t.src + dlc, !.cnt = t.cnt - dlc]

\* The frame of a turn, and the loop after it.
LEMMA TurnFrame ==
  ASSUME NEW t \in Sending, NEW w, FrameOf(w, t), NEW done, t.cnt = w.dlc => t.msg \in done
  PROVE  /\ GoodFrame(w, done)
         /\ t.cnt # w.dlc => /\ w.dlc = 8 /\ w.frm = t.frm /\ w.frm \in SeqFrames \cup {frm_start}
                             /\ NextTurn(t, w.dlc) \in Sending
         /\ t.cnt = w.dlc => w.frm \in {frm_end, frm_single}
<1> DEFINE data == w.data
           dlc == w.dlc
<1>0. /\ w.key = t.msg.key /\ w.msg = t.msg /\ TurnData(t, dlc, data)
      /\ w.frm = IF t.frm = frm_single \/ t.cnt > 8 THEN t.frm ELSE frm_end
      /\ w.data = data /\ w.dlc = dlc /\ (t.cnt = dlc => t.msg \in done)
  BY DEF FrameOf
<1> HIDE DEF data, dlc
<1>1. PICK m \in Messages, src \in Nat, cnt \in Nat : m = t.msg /\ src = t.src /\ cnt = t.cnt
  BY DEF Sending
<1>2. /\ dlc = IF cnt <= 8 THEN cnt ELSE 8
      /\ w.frm = IF t.frm = frm_single \/ cnt > 8 THEN t.frm ELSE frm_end
  BY <1>0, <1>1 DEF TurnData
<1>3. dlc \in 0 .. 8  BY <1>2
<1>6. /\ t.frm = frm_single => \A i \in 1 .. dlc : data[i] = <<m, i>>
      /\ t.frm # frm_single /\ cnt > 8 => \A i \in 1 .. dlc : data[i] \in Ordinary
      /\ t.frm # frm_single /\ cnt \in 1 .. dlc => data[cnt] = <<m, crc_high>>
  BY <1>0, <1>1 DEF TurnData
<1>8. data \in Blocks  BY <1>0 DEF TurnData
<1>9. PICK len \in Nat : len = m.len  BY LinkAssumption
<1>10. \/ t.frm = frm_single /\ len <= 8 /\ src = 0 /\ cnt = len
       \/ /\ t.frm # frm_single /\ t.frm \in SeqFrames \cup {frm_start}
          /\ len > 8 /\ cnt > 0 /\ src + cnt = len + 2
  BY <1>1, <1>9, FrameKinds DEF Sending
<1>11. /\ w.msg = m /\ w.key = m.key /\ w.data = data /\ w.dlc = dlc
       /\ cnt = dlc => m \in done
  BY <1>0, <1>1
<1>12. CASE t.frm = frm_single /\ len <= 8 /\ src = 0 /\ cnt = len
  <2>1. dlc = cnt /\ w.frm = frm_single  BY <1>2, <1>12
  <2>2. OnlyOf(m, data)
    <3>1. m.len <= 8 /\ dlc = m.len  BY <1>9, <1>12, <2>1
    <3>2. \A i \in 1 .. dlc : data[i] = <<m, i>>  BY <1>6, <1>12
    <3>3. \A i \in 1 .. m.len : data[i] = <<m, i>>  BY <3>1, <3>2
    <3> QED  BY <3>1, <3>3 DEF OnlyOf
  <2>3. GoodFrame(w, done)
    <3>1. w.dlc = w.msg.len  BY <1>9, <1>11, <1>12, <2>1
    <3> QED  BY <1>3, <1>8, <1>11, <2>1, <2>2, <3>1, FrameKinds DEF GoodFrame
  <2> QED  BY <1>0, <1>1, <2>1, <2>3
<1>13. CASE /\ t.frm # frm_single /\ t.frm \in SeqFrames \cup {frm_start}
            /\ len > 8 /\ cnt > 0 /\ src + cnt = len + 2 /\ cnt <= 8
  <2>1. dlc = cnt /\ w.frm = frm_end /\ dlc \in 1 .. 8 /\ dlc \in 1 .. dlc  BY <1>2, <1>3, <1>13
  <2>2. EndOf(m, data, dlc)
    <3>1. data[dlc] = <<m, crc_high>>  BY <1>6, <1>13, <2>1
    <3> QED  BY <2>1, <3>1 DEF EndOf
  <2>3. m.len > 8  BY <1>9, <1>13
  <2>4. GoodFrame(w, done)
    BY <1>3, <1>8, <1>11, <2>1, <2>2, <2>3, FrameKinds DEF GoodFrame
  <2> QED  BY <1>0, <1>1, <2>1, <2>4
<1>14. CASE /\ t.frm # frm_single /\ t.frm \in SeqFrames \cup {frm_start}
            /\ len > 8 /\ cnt > 0 /\ src + cnt = len + 2 /\ cnt > 8
  <2>1. dlc = 8 /\ w.frm = t.frm /\ cnt # dlc  BY <1>2, <1>14
  <2>2. FullBlock(data)
    <3>1. \A i \in 1 .. dlc : data[i] \in Ordinary  BY <1>6, <1>14
    <3> QED  BY <2>1, <3>1 DEF FullBlock
  <2>3. GoodFrame(w, done)
    BY <1>3, <1>8, <1>11, <1>14, <2>1, <2>2, FrameKinds DEF GoodFrame
  <2> DEFINE u == NextTurn(t, dlc)
  <2>4. u \in Sending
    <3>1. NextFrm(t.frm) \in SeqFrames
      BY <1>14, SizesAssumption DEF NextFrm, SeqFrames, frm_start
    <3>2. src + 8 \in Nat /\ cnt - 8 \in Nat /\ cnt - 8 > 0 /\ (src + 8) + (cnt - 8) = len + 2
      BY <1>14
    <3>3. /\ u.msg = m /\ u.frm = NextFrm(t.frm) /\ u.src = src + 8 /\ u.cnt = cnt - 8
          /\ u \in [msg : Messages, frm : Frames, src : Nat, cnt : Nat]
      BY <1>1, <2>1, <3>1, <3>2, FrameKinds DEF Sending, NextTurn
    <3> HIDE DEF u
    <3>4. u.msg.len > 8 /\ u.src + u.cnt = u.msg.len + 2 /\ u.cnt > 0  BY <1>9, <1>14, <3>2, <3>3
    <3> QED  BY <3>1, <3>3, <3>4, FrameKinds DEF Sending
  <2> QED  BY <1>0, <1>1, <1>14, <2>1, <2>3, <2>4
<1>15. cnt <= 8 \/ cnt > 8  OBVIOUS
<1> QED  BY <1>10, <1>12, <1>13, <1>14, <1>15

\* The state of the loop in send_packet() before its first turn.
LEMMA FirstTurn ==
  ASSUME NEW m \in Messages
  PROVE  [msg |-> m, frm |-> IF m.len <= 8 THEN frm_single ELSE frm_start, src |-> 0,
          cnt |-> IF m.len <= 8 THEN m.len ELSE m.len + 2] \in Sending
<1> DEFINE t == [msg |-> m, frm |-> IF m.len <= 8 THEN frm_single ELSE frm_start, src |-> 0,
                 cnt |-> IF m.len <= 8 THEN m.len ELSE m.len + 2]
<1>1. PICK len \in Nat : len = m.len  BY LinkAssumption
<1>2. CASE len <= 8  BY <1>1, <1>2, FrameKinds DEF Sending
<1>3. CASE ~(len <= 8)
  <2>1. len + 2 \in Nat /\ len + 2 > 0 /\ 0 + (len + 2) = len + 2 /\ len > 8  BY <1>3
  <2>2. t = [msg |-> m, frm |-> frm_start, src |-> 0, cnt |-> len + 2]  BY <1>1, <1>3
  <2> HIDE DEF t
  <2>3. t \in Sending  BY <1>1, <2>1, <2>2, FrameKinds DEF Sending
  <2> QED  BY <2>3 DEF t
<1> QED  BY <1>2, <1>3

\* send_packet() up to its first frame.
LEMMA SendPacketKeeps ==
  ASSUME LinkInv, NEW m \in Messages, SendPacket(m)
  PROVE  LinkInv'
<1> DEFINE t == [msg |-> m, frm |-> IF m.len <= 8 THEN frm_single ELSE frm_start, src |-> 0,
                 cnt |-> IF m.len <= 8 THEN m.len ELSE m.len + 2]
<1>1. t \in Sending  BY FirstTurn
<1>2. tx' = [tx EXCEPT ![m.key.src] = t] /\ PoolUnchanged
      /\ UNCHANGED <<txdata, wire, completed, delivered>>
  BY DEF SendPacket
<1> HIDE DEF t
<1>3. Senders'  BY <1>1, <1>2 DEF LinkInv, Senders
<1>4. Counters' /\ Done' = Done  BY <1>2 DEF LinkInv, Counters, Done
<1>5. OnWire'  BY <1>2, <1>4 DEF LinkInv, OnWire
<1>6. /\ IInv' /\ \A u \in Used(Pool)' : GoodTree(Pool, u, Done)'
      /\ \A n : Ends(Pool, n)' = Ends(Pool, n)
      /\ \A k : Working(Pool, k)' = Working(Pool, k)
  BY <1>2, <1>4, PoolAsBefore
<1>7. \A n \in Messages : n.len > 8 => EndsCounted(n)'
  BY <1>2, <1>6 DEF LinkInv, EndsCounted, EndOnWire
<1> QED  BY <1>3, <1>4, <1>5, <1>6, <1>7 DEF LinkInv

\* One frame: with the last one the packet counts as sent.
LEMMA SendFrameKeeps ==
  ASSUME LinkInv, NEW s \in Nodes, SendFrame(s)
  PROVE  LinkInv'
<1> DEFINE t    == tx[s]
           b    == Turn(t).bytes
           dlc  == Min({t.cnt, 8})
           data == [i \in 1 .. 8 |-> IF i <= Len(b) THEN b[i] ELSE txdata[s][i]]
           w    == [key |-> t.msg.key, frm |-> Turn(t).frm, data |-> data, dlc |-> dlc, msg |-> t.msg]
           next == NextTurn(t, dlc)
<1>1. /\ tx[s] # Idle /\ wire = <<>> /\ PoolUnchanged /\ delivered' = delivered
      /\ txdata' = [txdata EXCEPT ![s] = data]
      /\ \/ /\ wire' = <<w>>
            /\ tx' = [tx EXCEPT ![s] = IF t.cnt = dlc THEN Idle ELSE next]
            /\ completed' = IF t.cnt = dlc THEN [completed EXCEPT ![t.msg] = @ + 1] ELSE completed
         \/ tx' = [tx EXCEPT ![s] = Idle] /\ wire' = wire /\ completed' = completed
  BY DEF SendFrame, NextTurn
<1>2. t \in Sending /\ t.msg \in Messages /\ txdata[s] \in Blocks
  BY <1>1 DEF LinkInv, Senders, Sending
<1>3. /\ TurnData(t, dlc, data)
      /\ Turn(t).frm = IF t.frm = frm_single \/ t.cnt > 8 THEN t.frm ELSE frm_end
  BY <1>2, TurnBytes
<1>4. /\ w.key = t.msg.key /\ w.data = data /\ w.dlc = dlc /\ w.msg = t.msg
      /\ w.frm = IF t.frm = frm_single \/ t.cnt > 8 THEN t.frm ELSE frm_end
  BY <1>3
<1> HIDE DEF b, dlc, data, w, next, t
<1>5. Counters' /\ Done \subseteq Done' /\ (wire' = <<w>> /\ t.cnt = dlc => t.msg \in Done')
      /\ \A m \in Messages : /\ completed[m] \in Nat /\ completed'[m] \in Nat
                             /\ completed[m] <= completed'[m]
                             /\ wire' = <<w>> /\ t.cnt = dlc /\ m = t.msg => completed'[m] = completed[m] + 1
  <2>1. completed \in [Messages -> Nat] /\ delivered \in [Messages -> Nat]  BY DEF LinkInv, Counters
  <2>2. CASE completed' = completed /\ ~(wire' = <<w>> /\ t.cnt = dlc)
    BY <1>1, <2>1, <2>2 DEF Counters, Done
  <2>3. CASE completed' = [completed EXCEPT ![t.msg] = @ + 1]
    <3>1. Counters'  BY <1>1, <1>2, <2>1, <2>3 DEF Counters
    <3>2. \A m \in Messages : completed'[m] = IF m = t.msg THEN completed[m] + 1 ELSE completed[m]
      BY <1>2, <2>1, <2>3
    <3>3. \A m \in Messages : completed[m] \in Nat  BY <2>1
    <3> QED  BY <1>2, <3>1, <3>2, <3>3 DEF Done
  <2>4. wire' = <<w>> /\ t.cnt = dlc => completed' = [completed EXCEPT ![t.msg] = @ + 1]
    BY <1>1
  <2>5. completed' = [completed EXCEPT ![t.msg] = @ + 1] \/ completed' = completed  BY <1>1
  <2> QED  BY <2>2, <2>3, <2>4, <2>5
<1>6. /\ IInv' /\ \A u \in Used(Pool)' : GoodTree(Pool, u, Done)'
      /\ \A n : Ends(Pool, n)' = Ends(Pool, n)
  BY <1>1, <1>5, PoolAsBefore
<1>7. data \in Blocks  BY <1>3 DEF TurnData
<1>8. CASE wire' = wire /\ tx' = [tx EXCEPT ![s] = Idle] /\ completed' = completed
  <2>1. Senders'  BY <1>1, <1>7, <1>8 DEF LinkInv, Senders
  <2>2. OnWire'  BY <1>1, <1>8 DEF OnWire
  <2>3. \A n \in Messages : n.len > 8 => EndsCounted(n)'
    BY <1>1, <1>6, <1>8 DEF LinkInv, EndsCounted, EndOnWire
  <2> QED  BY <1>5, <1>6, <2>1, <2>2, <2>3 DEF LinkInv
<1>9. CASE wire' = <<w>> /\ tx' = [tx EXCEPT ![s] = IF t.cnt = dlc THEN Idle ELSE next]
  <2>1. /\ GoodFrame(w, Done')
        /\ t.cnt # dlc => w.frm \in SeqFrames \cup {frm_start} /\ next \in Sending
    <3>1. t.cnt = dlc => t.msg \in Done'  BY <1>5, <1>9
    <3>2. FrameOf(w, t)  BY <1>3, <1>4 DEF FrameOf
    <3> QED  BY <1>2, <1>4, <3>1, <3>2, TurnFrame DEF next
  <2>2. Senders'  BY <1>1, <1>7, <1>9, <2>1 DEF LinkInv, Senders
  <2>3. wire'[1] = w  BY <1>9
  <2>4. OnWire'  BY <1>9, <2>1, <2>3 DEF OnWire
  <2>5. ASSUME NEW n \in Messages, n.len > 8 PROVE EndsCounted(n)'
    <3>1. /\ Cardinality(Ends(Pool, n)) \in Nat
          /\ Cardinality(Ends(Pool, n)) + 0 + delivered[n] <= completed[n]
          /\ delivered[n] \in Nat
      BY <1>1, <2>5, EndsFinite DEF LinkInv, EndsCounted, EndOnWire, Counters
    <3>2. EndOnWire(n)' => completed'[n] = completed[n] + 1
      <4>1. EndOnWire(n)' => w.frm = frm_end /\ w.msg = n  BY <2>3 DEF EndOnWire
      <4>2. w.frm = frm_end => t.cnt = dlc  BY <2>1, FrameKinds
      <4> QED  BY <1>4, <1>5, <1>9, <4>1, <4>2
    <3>3. (IF EndOnWire(n)' THEN 1 ELSE 0) + completed[n] <= completed'[n]
      BY <1>5, <3>2
    <3>4. Cardinality(Ends(Pool, n)) + (IF EndOnWire(n)' THEN 1 ELSE 0) + delivered[n] <= completed'[n]
      BY <1>5, <3>1, <3>3
    <3> QED  BY <1>1, <1>6, <3>4 DEF EndsCounted
  <2> QED  BY <1>5, <1>6, <2>2, <2>4, <2>5 DEF LinkInv
<1> QED  BY <1>1, <1>8, <1>9

\* A frame is lost.
LEMMA LoseKeeps ==
  ASSUME LinkInv, Lose
  PROVE  LinkInv'
<1>1. PoolUnchanged /\ wire' = <<>> /\ UNCHANGED <<tx, txdata, completed, delivered>>
  BY DEF Lose
<1>2. Senders' /\ Counters' /\ Done' = Done /\ OnWire'
  BY <1>1 DEF LinkInv, Senders, Counters, Done, OnWire
<1>3. /\ IInv' /\ \A u \in Used(Pool)' : GoodTree(Pool, u, Done)'
      /\ \A n : Ends(Pool, n)' = Ends(Pool, n)
  BY <1>1, <1>2, PoolAsBefore
<1>4. ASSUME NEW n \in Messages, n.len > 8 PROVE EndsCounted(n)'
  <2>1. /\ Cardinality(Ends(Pool, n)) \in Nat /\ delivered[n] \in Nat /\ completed[n] \in Nat
        /\ Cardinality(Ends(Pool, n)) + (IF EndOnWire(n) THEN 1 ELSE 0) + delivered[n] <= completed[n]
    BY <1>4, EndsFinite DEF LinkInv, EndsCounted, Counters
  <2>2. ~EndOnWire(n)'  BY <1>1 DEF EndOnWire
  <2>3. Cardinality(Ends(Pool, n)) + 0 + delivered[n] <= completed[n]  BY <2>1
  <2> QED  BY <1>1, <1>3, <2>2, <2>3 DEF EndsCounted
<1> QED  BY <1>2, <1>3, <1>4 DEF LinkInv

-----------------------------------------------------------------------------
(* The receiver                                                            *)

\* What frame w, arriving in pool p, does to the packets that end like m: either
\* there is none more, or the one that the frame could complete is.
EndCounted(p, q, w, m) ==
    LET ends(x) == w.frm = frm_end /\ w.msg = m /\ Working(x, m.key) # {}
    IN  \/ Ends(q, m) \subseteq Ends(p, m) /\ (ends(q) => ends(p))
        \/ \E t : Ends(q, m) \subseteq Ends(p, m) \cup {t} /\ ends(p) /\ ~ends(q)

Arrived(p, q, w, done) ==
    /\ \A t \in Used(q) : GoodTree(q, t, done)
    /\ \A m \in Messages : EndCounted(p, q, w, m)

\* The packets of the pool of before, if it has nothing else.
LEMMA OnlySame ==
  ASSUME NEW p, NEW q, NEW m, \A t \in Ends(q, m) : Same(p, q, t)
  PROVE  Ends(q, m) \subseteq Ends(p, m)
BY SameEnds

\* A frame that is refused.
LEMMA RefusedArrives ==
  ASSUME NEW p, NEW q, NEW w, NEW done, GoodFrame(w, done), Refused(p, q, w.key),
         \A t \in Used(p) : GoodTree(p, t, done)
  PROVE  Arrived(p, q, w, done)
<1>1. \A t \in Used(q) : Same(p, q, t)  BY DEF Refused
<1>2. \A t \in Used(q) : GoodTree(q, t, done)  BY <1>1, SameGood DEF Same
<1>3. \A m : Ends(q, m) \subseteq Used(q)  BY DEF Ends, Finished
<1>4. \A m : Ends(q, m) \subseteq Ends(p, m)  BY <1>1, <1>3, OnlySame
<1>5. \A m : w.msg = m => Working(q, m.key) = {}  BY DEF Refused, GoodFrame
<1> QED  BY <1>2, <1>4, <1>5 DEF Arrived, EndCounted

\* A frame that begins a packet.
LEMMA BegunArrives ==
  ASSUME NEW p, NEW q, NEW w, NEW done, GoodFrame(w, done), w.frm \in {frm_start, frm_single},
         NEW t, NEW last,
         last = IF w.frm = frm_start THEN 0 ELSE IF w.dlc > 0 THEN w.dlc ELSE ZeroLength,
         Begun(p, q, t, w.key, w.data, last),
         \A u \in Used(p) : GoodTree(p, u, done)
  PROVE  Arrived(p, q, w, done)
<1> DEFINE b == Body(q, t)
<1>1. /\ b = <<w.data>> /\ q.trees[t].key = w.key /\ q.trees[t].dlc = last
      /\ \A u \in Used(q) \ {t} : u \in Used(p) /\ Same(p, q, u)
  BY DEF Begun
<1>2. Len(b) = 1 /\ b[1] = w.data  BY <1>1
<1> HIDE DEF b
<1>3. GoodBody(w.key, last, b, done)
  <2>1. \A j \in 1 .. 1 : j = 1  OBVIOUS
  <2>2. CASE w.frm = frm_start
    <3>1. FullBlock(b[1]) /\ last = 0  BY <1>2, <2>2, FrameKinds DEF GoodFrame
    <3> QED  BY <1>2, <2>1, <3>1 DEF GoodBody
  <2>3. CASE w.frm = frm_single
    <3>1. w.msg \in done /\ w.dlc = w.msg.len /\ OnlyOf(w.msg, w.data) /\ w.key = w.msg.key
          /\ w.dlc \in 0 .. 8
      BY <2>3 DEF GoodFrame
    <3>2. last = (IF w.msg.len = 0 THEN ZeroLength ELSE w.msg.len) /\ last # 0
      BY <2>3, <3>1, FrameKinds DEF ZeroLength
    <3>3. \A j \in 1 .. 1 : ~(j < 1)  BY <2>1
    <3> QED  BY <1>2, <3>1, <3>2, <3>3 DEF GoodBody
  <2> QED  BY <2>2, <2>3
<1>4. GoodTree(q, t, done)  BY <1>1, <1>3 DEF GoodTree, b
<1>5. \A u \in Used(q) : GoodTree(q, u, done)  BY <1>1, <1>4, SameGood
<1>6. ASSUME NEW m PROVE Ends(q, m) \subseteq Ends(p, m)
  <2>1. t \notin Ends(q, m)
    <3>1. \A u \in Ends(q, m) : Len(Body(q, u)) > 1  BY DEF Ends
    <3>2. ~(Len(Body(q, t)) > 1)  BY <1>2 DEF b
    <3> QED  BY <3>1, <3>2
  <2>2. Ends(q, m) \subseteq Used(q)  BY DEF Ends, Finished
  <2> QED  BY <1>1, <2>1, <2>2, OnlySame
<1>7. w.frm # frm_end  BY FrameKinds
<1> QED  BY <1>5, <1>6, <1>7 DEF Arrived, EndCounted

\* A frame that continues or ends one.
LEMMA ExtendedArrives ==
  ASSUME NEW p, NEW q, NEW w, NEW done, GoodFrame(w, done), w.frm \in SeqFrames \cup {frm_end},
         WellFormed(p), NEW t, NEW last, last = IF w.frm = frm_end THEN w.dlc ELSE 0,
         Extended(p, q, t, w.key, w.data, last),
         \A u \in Used(p) : GoodTree(p, u, done)
  PROVE  Arrived(p, q, w, done)
<1> DEFINE a == Body(p, t)
           b == Body(q, t)
<1>1. /\ Working(p, w.key) = {t} /\ b = Append(a, w.data)
      /\ q.trees[t].key = w.key /\ q.trees[t].dlc = last
      /\ Used(q) = Used(p) /\ \A u \in Used(p) \ {t} : Same(p, q, u)
  BY DEF Extended
<1>2. t \in Used(p) /\ p.trees[t].dlc = 0  BY <1>1 DEF Working, Partial
<1>3. GoodTree(p, t, done)  BY <1>2
<1>4. a \in Seq(Blocks) /\ Len(a) \in Nat \ {0} /\ w.data \in Blocks
  BY <1>2, BodyType DEF GoodFrame
<1>5. \A j \in 1 .. Len(a) : FullBlock(a[j])  BY <1>2, <1>3 DEF GoodTree, GoodBody
<1> HIDE DEF a
<1>6. PICK n \in Nat : n = Len(a)  BY <1>4
<1>7. Len(b) = n + 1 /\ b[n + 1] = w.data /\ \A j \in 1 .. n : b[j] = a[j]
  BY <1>1, <1>4, <1>6, AppendProperties
<1> HIDE DEF b
<1>8. \A j \in 1 .. n : FullBlock(b[j])  BY <1>5, <1>6, <1>7
<1>9. \A j \in 1 .. n + 1 : j \in 1 .. n \/ j = n + 1  OBVIOUS
<1>10. n + 1 > 1 /\ n + 1 # 1  BY <1>4, <1>6
<1>11. CASE w.frm # frm_end
  <2>1. FullBlock(w.data) /\ last = 0  BY <1>11 DEF GoodFrame
  <2>2. \A j \in 1 .. n + 1 : FullBlock(b[j])  BY <1>7, <1>8, <1>9, <2>1
  <2>3. GoodBody(w.key, last, b, done)  BY <1>7, <1>10, <2>1, <2>2 DEF GoodBody
  <2>4. GoodTree(q, t, done)  BY <1>1, <2>3 DEF GoodTree, b
  <2>5. \A u \in Used(q) : GoodTree(q, u, done)  BY <1>1, <2>4, SameGood
  <2>6. ASSUME NEW m PROVE Ends(q, m) \subseteq Ends(p, m)
    <3>1. t \notin Ends(q, m)
      <4>1. t \notin Finished(q)  BY <1>1, <2>1 DEF Finished, Partial
      <4>2. Ends(q, m) \subseteq Finished(q)  BY DEF Ends
      <4> QED  BY <4>1, <4>2
    <3>2. Ends(q, m) \subseteq Used(q)  BY DEF Ends, Finished
    <3> QED  BY <1>1, <3>1, <3>2, OnlySame
  <2> QED  BY <1>11, <2>5, <2>6 DEF Arrived, EndCounted
<1>12. CASE w.frm = frm_end
  <2>1. w.msg \in done /\ EndOf(w.msg, w.data, last) /\ w.key = w.msg.key
    BY <1>12 DEF GoodFrame
  <2>2. last \in 1 .. 8 /\ w.data[last] = <<w.msg, crc_high>>  BY <2>1 DEF EndOf
  <2>3. last # 0  BY <2>2
  <2>4. \A j \in 1 .. n + 1 : j < n + 1 => j \in 1 .. n  OBVIOUS
  <2>5. \A j \in 1 .. Len(b) : (j < Len(b) \/ last = 0) => FullBlock(b[j])
    BY <1>7, <1>8, <2>3, <2>4
  <2>6. GoodBody(w.key, last, b, done)  BY <1>7, <1>10, <2>1, <2>5 DEF GoodBody
  <2>7. GoodTree(q, t, done)  BY <1>1, <2>6 DEF GoodTree, b
  <2>8. \A u \in Used(q) : GoodTree(q, u, done)  BY <1>1, <2>7, SameGood
  <2>9. Working(q, w.key) = {}
    <3>1. t \notin Working(q, w.key)  BY <1>1, <2>3 DEF Working, Partial
    <3>2. Working(q, w.key) \subseteq Used(q)  BY DEF Working, Partial
    <3> QED  BY <1>1, <3>1, <3>2, SameKind
  <2>10. ASSUME NEW m PROVE EndCounted(p, q, w, m)
    <3>1. Ends(q, m) \subseteq Used(q)  BY DEF Ends, Finished
    <3>2. CASE m = w.msg
      <4>1. Ends(q, m) \subseteq Ends(p, m) \cup {t}  BY <1>1, <3>1, SameEnds
      <4> QED  BY <1>1, <1>12, <2>1, <2>9, <3>2, <4>1 DEF EndCounted
    <3>3. CASE m # w.msg
      <4>1. b[Len(b)][last] # <<m, crc_high>>  BY <1>7, <2>2, <3>3
      <4>2. t \notin Ends(q, m)  BY <1>1, <4>1 DEF Ends, b
      <4>3. Ends(q, m) \subseteq Ends(p, m)  BY <1>1, <3>1, <4>2, OnlySame
      <4> QED  BY <3>3, <4>3 DEF EndCounted
    <3> QED  BY <3>2, <3>3
  <2> QED  BY <2>8, <2>10 DEF Arrived
<1> QED  BY <1>11, <1>12

\* push_message of the frame on the bus.
LEMMA PushArrives ==
  ASSUME LinkInv, wire # <<>>, PushMessage(wire[1])
  PROVE  IInv' /\ Arrived(Pool, Pool', wire[1], Done)
<1> DEFINE w == wire[1]
           p == Pool
           q == Pool'
<1>1. GoodFrame(w, Done) /\ \A t \in Used(p) : GoodTree(p, t, Done)  BY DEF LinkInv, OnWire
<1>2. ASSUME q = p PROVE Arrived(p, q, w, Done)
  BY <1>1, <1>2 DEF Arrived, EndCounted
<1>3. CASE w.key \notin Accepted /\ Return("MsgAccepted") /\ UNCHANGED <<trees, items, free>>
  <2>1. q = p /\ rv' \in Results  BY <1>3 DEF Pool, Return, Results
  <2>2. IInv'  BY <2>1 DEF LinkInv, IInv
  <2> QED  BY <1>2, <2>1, <2>2
<1>4. CASE Push(w.key, w.frm, w.data, w.dlc)
  <2>1. w.key \in Keys /\ w.frm \in Frames /\ w.data \in Blocks /\ w.dlc \in Dlcs
    BY <1>1, LinkAssumption DEF GoodFrame
  <2>2. IInv /\ WellFormed(p)  BY DEF LinkInv, IInv, Good
  <2> HIDE DEF w
  <2>3. /\ IInv'
        /\ \/ Refused(p, q, w.key)
           \/ q = p
           \/ /\ w.frm \in {frm_start, frm_single}
              /\ \E t : Begun(p, q, t, w.key, w.data,
                             IF w.frm = frm_start THEN 0 ELSE IF w.dlc > 0 THEN w.dlc ELSE ZeroLength)
           \/ /\ w.frm \in SeqFrames \cup {frm_end}
              /\ \E t : Extended(p, q, t, w.key, w.data, IF w.frm = frm_end THEN w.dlc ELSE 0)
    BY <1>4, <2>1, <2>2, PushCases
  <2> HIDE DEF p, q
  <2>4. Arrived(p, q, w, Done)
    <3>1. CASE Refused(p, q, w.key)  BY <1>1, <3>1, RefusedArrives DEF w
    <3>2. CASE q = p  BY <1>2, <3>2 DEF w
    <3>3. CASE w.frm \in {frm_start, frm_single}
               /\ \E t : Begun(p, q, t, w.key, w.data,
                              IF w.frm = frm_start THEN 0 ELSE IF w.dlc > 0 THEN w.dlc ELSE ZeroLength)
      BY <1>1, <3>3, BegunArrives DEF w
    <3>4. CASE w.frm \in SeqFrames \cup {frm_end}
               /\ \E t : Extended(p, q, t, w.key, w.data, IF w.frm = frm_end THEN w.dlc ELSE 0)
      BY <1>1, <2>2, <3>4, ExtendedArrives DEF w
    <3> QED  BY <2>3, <3>1, <3>2, <3>3, <3>4
  <2> QED  BY <2>3, <2>4 DEF p, q, w
<1>5. \/ w.key \notin Accepted /\ Return("MsgAccepted") /\ UNCHANGED <<trees, items, free>>
      \/ Push(w.key, w.frm, w.data, w.dlc)
  BY DEF PushMessage
<1> QED  BY <1>3, <1>4, <1>5

\* A frame arrives, and is gone or comes again.
LEMMA ArriveKeeps ==
  ASSUME LinkInv, Receive \/ Repeat
  PROVE  LinkInv'
<1> DEFINE w == wire[1]
<1>1. /\ wire # <<>> /\ PushMessage(w) /\ (wire' = <<>> \/ wire' = wire)
      /\ UNCHANGED <<tx, txdata, completed, delivered>>
  BY DEF Receive, Repeat, Arrive
<1>2. Senders' /\ Counters' /\ Done' = Done /\ OnWire'
  BY <1>1 DEF LinkInv, Senders, Counters, Done, OnWire
<1>3. IInv' /\ Arrived(Pool, Pool', w, Done)  BY <1>1, PushArrives
<1>4. \A t \in Used(Pool)' : GoodTree(Pool, t, Done)'
  BY <1>2, <1>3 DEF Arrived, Used, GoodTree
<1>5. ASSUME NEW m \in Messages, m.len > 8 PROVE EndsCounted(m)'
  <2> DEFINE ends(x) == w.frm = frm_end /\ w.msg = m /\ Working(x, m.key) # {}
             c == Cardinality(Ends(Pool, m))
             e == Cardinality(Ends(Pool', m))
  <2>1. c \in Nat /\ e \in Nat /\ delivered[m] \in Nat /\ completed[m] \in Nat
    BY EndsFinite DEF LinkInv, Counters
  <2>2. c + (IF ends(Pool) THEN 1 ELSE 0) + delivered[m] <= completed[m]
    BY <1>1, <1>5 DEF LinkInv, EndsCounted, EndOnWire
  <2>3. \/ e <= c /\ (ends(Pool') => ends(Pool))
        \/ e <= c + 1 /\ ends(Pool) /\ ~ends(Pool')
    <3>1. EndCounted(Pool, Pool', w, m)  BY <1>3 DEF Arrived
    <3>2. \/ Ends(Pool', m) \subseteq Ends(Pool, m) /\ (ends(Pool') => ends(Pool))
          \/ \E t : Ends(Pool', m) \subseteq Ends(Pool, m) \cup {t} /\ ends(Pool) /\ ~ends(Pool')
      BY <3>1 DEF EndCounted
    <3> QED  BY <3>2, EndsFewer, EndsMore
  <2>4. EndOnWire(m)' => ends(Pool')  BY <1>1 DEF EndOnWire, Working, Partial, Used
  <2>5. Ends(Pool, m)' = Ends(Pool', m)  BY DEF Ends, Finished, Partial, Used
  <2>6. e + (IF EndOnWire(m)' THEN 1 ELSE 0) + delivered[m] <= completed[m]
    <3> HIDE DEF ends, c, e
    <3> QED  BY <2>1, <2>2, <2>3, <2>4
  <2> QED  BY <1>1, <2>5, <2>6 DEF EndsCounted
<1> QED  BY <1>2, <1>3, <1>4, <1>5 DEF LinkInv

-----------------------------------------------------------------------------
(* The packets that are read                                               *)

\* The bytes of the buffer, by their place in a block.
LEMMA ContentAt ==
  ASSUME NEW c, NEW L \in Nat, L = c.size - 2
  PROVE  /\ Content(c) = [i \in 1 .. L |-> c.blocks[((i - 1) \div 8) + 1][((i - 1) % 8) + 1]]
         /\ Len(Content(c)) = L
         /\ \A w \in Nat : \A r \in 1 .. 8 :
                8 * w + r \in 1 .. L => Content(c)[8 * w + r] = c.blocks[w + 1][r]
<1> DEFINE at(i) == c.blocks[((i - 1) \div 8) + 1][((i - 1) % 8) + 1]
           b == Content(c)
<1>1. b = [i \in 1 .. L |-> at(i)]  BY DEF Content
<1> HIDE DEF b
<1>2. Len(b) = L
  <2> DEFINE S == {b[i] : i \in 1 .. L}
  <2>1. b \in [1 .. L -> S]  BY <1>1
  <2> HIDE DEF S
  <2>2. b \in Seq(S)  BY <2>1, SeqDef
  <2> QED  BY <2>1, <2>2, LenProperties
<1>3. ASSUME NEW w \in Nat, NEW r \in 1 .. 8, 8 * w + r \in 1 .. L
      PROVE  b[8 * w + r] = c.blocks[w + 1][r]
  <2> DEFINE i == 8 * w + r
  <2>1. (i - 1) \div 8 = w /\ (i - 1) % 8 = r - 1  OBVIOUS
  <2>2. ((i - 1) % 8) + 1 = r  BY <2>1
  <2> HIDE DEF i
  <2>3. b[i] = c.blocks[((i - 1) \div 8) + 1][((i - 1) % 8) + 1]  BY <1>1, <1>3 DEF i
  <2> QED  BY <2>1, <2>2, <2>3 DEF i
<1> QED  BY <1>1, <1>2, <1>3 DEF b

\* The packet that Codec::read_packet returns of what the pool copied.
OutOf(c) ==
    LET b == Content(c)
    IN  IF c.size <= 10 THEN <<[key |-> c.key, bytes |-> b]>>
        ELSE IF CrcMatches(c.key, b)
        THEN <<[key |-> c.key, bytes |-> SubSeq(b, 1, Len(b) - 2)]>>
        ELSE <<>>

\* The payload tells its message, if there is any.
LEMMA PayloadTells ==
  ASSUME NEW m \in Messages, NEW n \in Messages, m.len > 8, Payload(m) = Payload(n)
  PROVE  m = n
<1>1. PICK len \in Nat, l \in Nat : len = m.len /\ l = n.len  BY LinkAssumption
<1>2. /\ Len(Payload(m)) = len /\ \A i \in 1 .. len : Payload(m)[i] = <<m, i>>
      /\ Len(Payload(n)) = l /\ \A i \in 1 .. l : Payload(n)[i] = <<n, i>>
  BY <1>1, PayloadType
<1>3. 1 \in 1 .. len /\ 1 \in 1 .. l  BY <1>1, <1>2
<1>4. Payload(m)[1] = <<m, 1>> /\ Payload(n)[1] = <<n, 1>>  BY <1>2, <1>3
<1> QED  BY <1>4

\* A packet of one frame is returned whole.
LEMMA SingleReturned ==
  ASSUME NEW c, NEW body, NEW last, NEW sz \in Nat, NEW full \in Nat, NEW fits \in BOOLEAN,
         CopyOf(c, body, 1, last, sz, full, fits), NEW m \in Messages, OnlyOf(m, body[1]),
         last = IF m.len = 0 THEN ZeroLength ELSE m.len
  PROVE  c.size <= 10 /\ (sz >= 2 + m.len => Content(c) = Payload(m))
<1>1. PICK len \in Nat : len = m.len /\ len <= 8  BY LinkAssumption DEF OnlyOf
<1>2. /\ full = 0 /\ (fits <=> last \in 1 .. 8 /\ 2 + last <= sz)
      /\ c.size = 2 + (IF fits THEN last ELSE 0)
      /\ \A j \in 1 .. (IF fits THEN 1 ELSE 0) : c.blocks[j] = body[j]
  <2>1. \A i \in 0 .. 1 - 1 : i = 0  OBVIOUS
  <2>2. full = 0  BY <2>1 DEF CopyOf
  <2> QED  BY <2>2 DEF CopyOf
<1>3. c.size <= 10  BY <1>2
<1>4. ASSUME sz >= 2 + m.len PROVE Content(c) = Payload(m)
  <2>1. c.size = 2 + len /\ (len > 0 => fits)
    <3>1. CASE len = 0  BY <1>1, <1>2, <3>1 DEF ZeroLength
    <3>2. CASE len > 0
      <4>1. last = len /\ last \in 1 .. 8 /\ 2 + last <= sz  BY <1>1, <1>4, <3>2
      <4> QED  BY <1>2, <4>1
    <3> QED  BY <1>1, <3>1, <3>2
  <2>2. c.size - 2 = len  BY <2>1
  <2> DEFINE at(i) == c.blocks[((i - 1) \div 8) + 1][((i - 1) % 8) + 1]
  <2>3. Content(c) = [i \in 1 .. len |-> at(i)]  BY <2>2, ContentAt
  <2>4. Payload(m) = [i \in 1 .. len |-> <<m, IF 0 + i <= m.len THEN 0 + i ELSE outside>>]
    BY <1>1 DEF Payload, Bytes
  <2>5. ASSUME NEW i \in 1 .. len PROVE at(i) = <<m, IF 0 + i <= m.len THEN 0 + i ELSE outside>>
    <3>1. i \in 1 .. 8 /\ len > 0  BY <1>1
    <3>2. ((i - 1) \div 8) + 1 = 1 /\ ((i - 1) % 8) + 1 = i  BY <3>1
    <3>3. c.blocks[1] = body[1]  BY <1>2, <2>1, <3>1
    <3>4. body[1][i] = <<m, i>>  BY <1>1 DEF OnlyOf
    <3>5. (IF 0 + i <= m.len THEN 0 + i ELSE outside) = i  BY <1>1
    <3> QED  BY <3>2, <3>3, <3>4, <3>5
  <2> HIDE DEF at
  <2> QED  BY <2>3, <2>4, <2>5
<1> QED  BY <1>3, <1>4

\* A packet in a buffer that is long enough to have a CRC ends with x, or it was cut.
EndsWith(c, sz, x) ==
    /\ sz >= 18 => c.size > 10
    /\ c.size > 10 => \/ Content(c)[Len(Content(c))] \in Ordinary
                      \/ Content(c)[Len(Content(c))] = x

\* The last byte of a packet of several frames.
LEMMA LastReturned ==
  ASSUME NEW c, NEW body, NEW n \in Nat, NEW last, NEW sz \in Nat, NEW full \in Nat,
         NEW fits \in BOOLEAN, CopyOf(c, body, n, last, sz, full, fits), n > 1,
         last \in 1 .. 8, \A j \in 1 .. n - 1 : FullBlock(body[j])
  PROVE  EndsWith(c, sz, body[n][last])
<1> DEFINE b == Content(c)
<1>1. /\ full \in 0 .. n - 1 /\ 8 * full + 2 <= sz /\ (full < n - 1 => sz < 8 * full + 10)
      /\ (fits <=> full = n - 1 /\ 2 + 8 * full + last <= sz)
      /\ c.size = 2 + 8 * full + (IF fits THEN last ELSE 0)
      /\ \A j \in 1 .. (IF fits THEN n ELSE full) : c.blocks[j] = body[j]
  BY DEF CopyOf
<1>2. sz >= 18 => c.size > 10
  <2>1. CASE full = 0  BY <1>1, <2>1
  <2>2. CASE full = 1 /\ n = 2  BY <1>1, <2>2
  <2>3. CASE full = 1 /\ n > 2  BY <1>1, <2>3
  <2>4. CASE full > 1
    <3>1. 2 + 8 * full > 10  BY <2>4
    <3> QED  BY <1>1, <3>1
  <2> QED  BY <1>1, <2>1, <2>2, <2>3, <2>4
<1>3. ASSUME c.size > 10
      PROVE  b[Len(b)] \in Ordinary \/ b[Len(b)] = body[n][last]
  <2>1. PICK L \in Nat : L = c.size - 2 /\ L > 8  BY <1>1, <1>3
  <2>2. /\ Len(b) = L
        /\ \A w \in Nat : \A r \in 1 .. 8 : 8 * w + r \in 1 .. L => b[8 * w + r] = c.blocks[w + 1][r]
    BY <2>1, ContentAt
  <2> HIDE DEF b
  <2>3. CASE fits
    <3>1. L = 8 * full + last /\ full + 1 = n /\ 8 * full + last \in 1 .. L
      BY <1>1, <2>1, <2>3
    <3>2. b[L] = c.blocks[n][last]  BY <2>2, <3>1
    <3>3. c.blocks[n] = body[n]  BY <1>1, <2>3
    <3> QED  BY <2>2, <3>2, <3>3
  <2>4. CASE ~fits
    <3>1. PICK w \in Nat : full = w + 1  
      <4>1. full > 0  BY <1>1, <2>1, <2>4
      <4>2. full - 1 \in Nat /\ full = (full - 1) + 1  BY <4>1
      <4> QED  BY <4>2
    <3>2. L = 8 * w + 8 /\ 8 * w + 8 \in 1 .. L  BY <1>1, <2>1, <2>4, <3>1
    <3>3. b[L] = c.blocks[w + 1][8]  BY <2>2, <3>2
    <3>4. w + 1 \in 1 .. n - 1 /\ w + 1 \in 1 .. full  BY <1>1, <3>1
    <3>5. c.blocks[w + 1] = body[w + 1]  BY <1>1, <2>4, <3>4
    <3>6. body[w + 1][8] \in Ordinary  BY <3>4 DEF FullBlock
    <3> QED  BY <2>2, <3>3, <3>5, <3>6
  <2> QED  BY <2>3, <2>4
<1> QED  BY <1>2, <1>3 DEF b, EndsWith

\* What is returned of a complete packet.
LEMMA OutIs ==
  ASSUME NEW p, WellFormed(p), NEW t \in Finished(p), NEW done \in SUBSET Messages,
         GoodTree(p, t, done), NEW sz \in Nat \ {0, 1}, NEW o, o = OutOf(Copy(p, t, sz))
  PROVE  /\ \A m \in Messages : o # <<>> /\ m.len > 8 /\ Is(m, o[1].key, o[1].bytes) => t \in Ends(p, m)
         /\ sz >= 18 /\ o # <<>> => \E m \in done : Is(m, o[1].key, o[1].bytes)
<1> DEFINE body == Body(p, t)
           last == p.trees[t].dlc
           key  == p.trees[t].key
           c    == Copy(p, t, sz)
           b    == Content(c)
<1>1. /\ Len(body) \in Nat \ {0} /\ last \in 1 .. 8 \cup {ZeroLength} /\ c.key = key
      /\ \E full \in Nat, fits \in BOOLEAN : CopyOf(c, body, Len(body), last, sz, full, fits)
  BY CopyIs
<1>2. PICK n \in Nat : n = Len(body) /\ n > 0  BY <1>1
<1>3. GoodBody(key, last, body, done)  BY DEF GoodTree
<1>4. \A m : Is(m, key, b) <=> m.key = key /\ b = Payload(m)  BY DEF Is
<1>5. o = IF c.size <= 10 THEN <<[key |-> c.key, bytes |-> b]>>
          ELSE IF CrcMatches(c.key, b) THEN <<[key |-> c.key, bytes |-> SubSeq(b, 1, Len(b) - 2)]>>
          ELSE <<>>
  BY DEF OutOf
<1>6. \A m \in Messages : n > 1 /\ body[n][last] = <<m, crc_high>> => t \in Ends(p, m)
  BY <1>2 DEF Ends
<1> HIDE DEF body, last, key, c, b
<1>7. PICK full \in Nat, fits \in BOOLEAN : CopyOf(c, body, n, last, sz, full, fits)
  BY <1>1, <1>2
<1>8. PICK L \in Nat : L = c.size - 2 /\ c.size = L + 2
  <2>1. CASE fits  BY <1>7, <2>1 DEF CopyOf
  <2>2. CASE ~fits  BY <1>7, <2>2 DEF CopyOf
  <2> QED  BY <2>1, <2>2
<1>9. Len(b) = L  BY <1>8, ContentAt DEF b
<1>10. ASSUME c.size <= 10, NEW m \in Messages, m.len > 8 PROVE b # Payload(m)
  <2>1. L <= 8  BY <1>8, <1>10
  <2>2. Len(Payload(m)) = m.len  BY PayloadType
  <2>3. m.len \in Nat  BY LinkAssumption
  <2> QED  BY <1>9, <1>10, <2>1, <2>2, <2>3
<1>11. CASE n = 1
  <2>1. PICK m \in done : key = m.key /\ OnlyOf(m, body[1])
                          /\ last = IF m.len = 0 THEN ZeroLength ELSE m.len
    BY <1>1, <1>2, <1>3, <1>11 DEF GoodBody, ZeroLength
  <2>2. c.size <= 10 /\ (sz >= 2 + m.len => b = Payload(m))
    BY <1>7, <1>11, <2>1, SingleReturned DEF b
  <2>3. o = <<[key |-> key, bytes |-> b]>>  BY <1>1, <1>5, <2>2
  <2>4. o[1].key = key /\ o[1].bytes = b  BY <2>3
  <2>5. sz >= 18 => sz >= 2 + m.len
    <3>1. m.len \in Nat /\ m.len <= 8  BY <2>1, LinkAssumption DEF OnlyOf
    <3> QED  BY <3>1
  <2> QED  BY <1>10, <2>1, <2>2, <2>4, <2>5 DEF Is
<1>12. CASE n > 1
  <2>1. PICK m \in done : EndOf(m, body[n], last)
    BY <1>1, <1>2, <1>3, <1>12 DEF GoodBody, ZeroLength
  <2>2. last \in 1 .. 8 /\ body[n][last] = <<m, crc_high>> /\ m \in Messages  BY <2>1 DEF EndOf
  <2>3. t \in Ends(p, m)  BY <1>6, <1>12, <2>2
  <2>4. \A j \in 1 .. n - 1 : FullBlock(body[j])
    <3>1. \A j \in 1 .. n - 1 : j \in 1 .. n /\ j < n  OBVIOUS
    <3> QED  BY <1>2, <1>3, <3>1 DEF GoodBody
  <2>5. /\ sz >= 18 => c.size > 10
        /\ c.size > 10 => b[Len(b)] \in Ordinary \/ b[Len(b)] = body[n][last]
    <3>1. EndsWith(c, sz, body[n][last])  BY <1>7, <1>12, <2>2, <2>4, LastReturned
    <3> QED  BY <3>1 DEF EndsWith, b
  <2>6. CASE c.size <= 10
    <3>1. ~(sz >= 18)  BY <2>5, <2>6, <1>8
    <3>2. o = <<[key |-> key, bytes |-> b]>>  BY <1>1, <1>5, <2>6
    <3>3. o[1].bytes = b  BY <3>2
    <3> QED  BY <1>10, <2>6, <3>1, <3>3 DEF Is
  <2>7. CASE c.size > 10 /\ ~CrcMatches(key, b)
    <3>1. ~(c.size <= 10) /\ ~CrcMatches(c.key, b)  BY <1>1, <1>8, <2>7
    <3>2. o = <<>>  BY <1>5, <3>1
    <3> QED  BY <3>2
  <2>8. CASE c.size > 10 /\ CrcMatches(key, b)
    <3> DEFINE x == b[Len(b)]
    <3>1. x \in Ordinary \/ x = <<m, crc_high>>  BY <2>2, <2>5, <2>8
    <3>2. x[1] \in Messages
      <4>1. CASE x \in Ordinary  BY <4>1 DEF Ordinary
      <4>2. CASE x = <<m, crc_high>>  BY <2>2, <4>2
      <4> QED  BY <3>1, <4>1, <4>2
    <3>3. x[1].key = key /\ b = Payload(x[1]) \o Crc(x[1])  BY <2>8 DEF CrcMatches
    <3>4. x = <<x[1], crc_high>> /\ SubSeq(b, 1, Len(b) - 2) = Payload(x[1])
      BY <3>2, <3>3, CrcLast
    <3> HIDE DEF x
    <3>5. x = <<m, crc_high>>
      <4>1. x \notin Ordinary  
        <5>1. ASSUME NEW k \in Messages, x \in {k} \X (-1 .. k.len) PROVE FALSE
          <6>1. x[2] \in -1 .. k.len /\ k.len \in Nat  BY <5>1, LinkAssumption
          <6>2. x[2] = -2  BY <3>4 DEF crc_high
          <6> QED  BY <6>1, <6>2
        <5> QED  BY <5>1 DEF Ordinary
      <4> QED  BY <3>1, <4>1
    <3>6. x[1] = m  BY <3>5
    <3>7. o = <<[key |-> key, bytes |-> SubSeq(b, 1, Len(b) - 2)]>>
      <4>1. ~(c.size <= 10) /\ CrcMatches(c.key, b)  BY <1>1, <1>8, <2>8
      <4> QED  BY <1>1, <1>5, <4>1
    <3>8. o[1].key = key /\ o[1].bytes = Payload(m)  BY <3>4, <3>6, <3>7
    <3>9. Is(m, o[1].key, o[1].bytes)  BY <3>3, <3>6, <3>8 DEF Is
    <3>10. ASSUME NEW k \in Messages, k.len > 8, Is(k, o[1].key, o[1].bytes) PROVE t \in Ends(p, k)
      <4>1. Payload(k) = Payload(m)  BY <3>8, <3>10 DEF Is
      <4>2. k = m  BY <2>2, <3>10, <4>1, PayloadTells
      <4> QED  BY <2>3, <4>2
    <3> QED  BY <2>1, <3>9, <3>10
  <2>9. c.size <= 10 \/ c.size > 10  BY <1>8
  <2> QED  BY <2>6, <2>7, <2>8, <2>9
<1> QED  BY <1>2, <1>11, <1>12

\* One turn of Codec::read_packet.
LEMMA ReadKeeps ==
  ASSUME LinkInv, NEW sz \in DestSizes, ReadTurn(sz)
  PROVE  LinkInv' /\ (sz >= 18 => Integrity')
<1> DEFINE hit(m) == out' # <<>> /\ Is(m, out'[1].key, out'[1].bytes)
<1>1. /\ delivered' = [m \in Messages |-> IF hit(m) THEN delivered[m] + 1 ELSE delivered[m]]
      /\ UNCHANGED <<tx, txdata, wire, completed>>
  BY DEF ReadTurn
<1>2. \A m \in Messages : delivered[m] \in Nat /\ completed[m] \in Nat
  BY DEF LinkInv, Counters
<1>3. Senders' /\ Done' = Done /\ OnWire'
  BY <1>1 DEF LinkInv, Senders, Done, OnWire
<1>4. Counters'
  <2>1. \A m \in Messages : (IF hit(m) THEN delivered[m] + 1 ELSE delivered[m]) \in Nat  BY <1>2
  <2> HIDE DEF hit
  <2> QED  BY <1>1, <2>1 DEF LinkInv, Counters
<1>5. \A m \in Messages : delivered'[m] = IF hit(m) THEN delivered[m] + 1 ELSE delivered[m]
  BY <1>1
<1> HIDE DEF hit
<1>6. ASSUME NEW m \in Messages, m.len > 8
      PROVE  /\ Cardinality(Ends(Pool, m)) \in Nat /\ Cardinality(Ends(Pool', m)) \in Nat
             /\ Cardinality(Ends(Pool, m)) + (IF EndOnWire(m) THEN 1 ELSE 0) + delivered[m] <= completed[m]
             /\ delivered[m] \in Nat /\ completed[m] \in Nat
             /\ Ends(Pool, m)' = Ends(Pool', m)
  BY <1>2, <1>6, EndsFinite DEF LinkInv, EndsCounted, Ends, Finished, Partial, Used
<1>7. CASE ReadNothing /\ out' = <<>>
  <2>1. PoolUnchanged  BY <1>7 DEF ReadNothing, PoolUnchanged
  <2>2. /\ IInv' /\ Pool' = Pool /\ \A u \in Used(Pool)' : GoodTree(Pool, u, Done)'
        /\ \A n : Ends(Pool, n)' = Ends(Pool, n)
        /\ \A k : Working(Pool, k)' = Working(Pool, k)
    BY <1>3, <1>4, <2>1, PoolAsBefore
  <2>3. \A m \in Messages : delivered'[m] = delivered[m]  BY <1>5, <1>7 DEF hit
  <2>4. \A m \in Messages : m.len > 8 => EndsCounted(m)'
    BY <1>1, <2>2, <2>3 DEF LinkInv, EndsCounted, EndOnWire
  <2> QED  BY <1>3, <1>4, <1>7, <2>2, <2>4 DEF LinkInv, Integrity
<1>8. CASE ReadPacket(sz) /\ out' = OutOf(got'[1])
  <2>1. PICK t \in Finished(Pool) :
             /\ IInv' /\ got' = <<Copy(Pool, t, sz)>>
             /\ Used(Pool)' = Used(Pool) \ {t}
             /\ \A u \in Used(Pool) \ {t} : Same(Pool, Pool', u)
    BY <1>8, ReadCall DEF LinkInv
  <2>2. t \in Used(Pool) /\ WellFormed(Pool) /\ GoodTree(Pool, t, Done)
    BY DEF Finished, LinkInv, IInv, Good
  <2>3. \A u \in Used(Pool') : u \in Used(Pool) /\ u # t /\ Same(Pool, Pool', u)
    BY <2>1 DEF Used
  <2>4. \A u \in Used(Pool') : GoodTree(Pool', u, Done')
    BY <1>3, <2>3, SameGood DEF LinkInv
  <2>5. \A u \in Used(Pool)' : GoodTree(Pool, u, Done)'  BY <2>4 DEF Used, GoodTree
  <2>6. out' = OutOf(Copy(Pool, t, sz))
    <3>1. got'[1] = Copy(Pool, t, sz)  BY <2>1
    <3> QED  BY <1>8, <3>1
  <2>7. sz \in Nat \ {0, 1}  BY DataAssumption
  <2>8. Done \in SUBSET Messages  BY DEF Done
  <2>9. /\ \A m \in Messages : out' # <<>> /\ m.len > 8 /\ Is(m, out'[1].key, out'[1].bytes) => t \in Ends(Pool, m)
        /\ sz >= 18 /\ out' # <<>> => \E m \in Done : Is(m, out'[1].key, out'[1].bytes)
    BY <2>2, <2>6, <2>7, <2>8, OutIs
  <2>10. sz >= 18 => Integrity'
    BY <1>1, <2>9 DEF Integrity, Done
  <2>11. ASSUME NEW m \in Messages, m.len > 8 PROVE EndsCounted(m)'
    <3> DEFINE c == Cardinality(Ends(Pool, m))
               e == Cardinality(Ends(Pool', m))
    <3>1. \A u \in Ends(Pool', m) : u \in Ends(Pool, m) /\ u # t
      <4>1. Ends(Pool', m) \subseteq Used(Pool')  BY DEF Ends, Finished
      <4> QED  BY <2>3, <4>1, SameEnds
    <3>2. e <= c /\ (hit(m) => e + 1 <= c)
      <4>1. e <= c  BY <3>1, EndsFewer
      <4>2. ASSUME hit(m) PROVE e + 1 <= c
        <5>1. t \in Ends(Pool, m)  BY <2>9, <2>11, <4>2 DEF hit
        <5>2. Ends(Pool', m) \subseteq Ends(Pool, m) \ {t}  BY <3>1
        <5> QED  BY <5>1, <5>2, EndsLess
      <4> QED  BY <4>1, <4>2
    <3>3. EndOnWire(m)' => EndOnWire(m)
      <4>1. \A u \in Working(Pool', m.key) : u \in Working(Pool, m.key)
        <5>1. Working(Pool', m.key) \subseteq Used(Pool')  BY DEF Working, Partial
        <5> QED  BY <2>3, <5>1, SameKind
      <4>2. Working(Pool, m.key)' = Working(Pool', m.key)  BY DEF Working, Partial, Used
      <4> QED  BY <1>1, <4>1, <4>2 DEF EndOnWire
    <3>4. /\ c \in Nat /\ e \in Nat /\ delivered[m] \in Nat /\ completed[m] \in Nat
          /\ c + (IF EndOnWire(m) THEN 1 ELSE 0) + delivered[m] <= completed[m]
          /\ Ends(Pool, m)' = Ends(Pool', m)
      BY <1>6, <2>11
    <3>5. delivered'[m] = IF hit(m) THEN delivered[m] + 1 ELSE delivered[m]  BY <1>5
    <3> HIDE DEF c, e
    <3>6. e + (IF EndOnWire(m)' THEN 1 ELSE 0) + delivered'[m] <= completed[m]
      BY <3>2, <3>3, <3>4, <3>5
    <3> QED  BY <1>1, <3>4, <3>6 DEF EndsCounted, e
  <2> QED  BY <1>3, <1>4, <2>1, <2>5, <2>10, <2>11 DEF LinkInv
<1>9. \/ ReadNothing /\ out' = <<>>
      \/ ReadPacket(sz) /\ out' = OutOf(got'[1])
  BY DEF ReadTurn, OutOf
<1> QED  BY <1>7, <1>8, <1>9

-----------------------------------------------------------------------------
(* The theorems                                                            *)

\* At first nothing is sent and the pool is empty.
LEMMA LinkStarts == LInit => LinkInv
<1> SUFFICES ASSUME LInit PROVE LinkInv  OBVIOUS
<1>1. IInv  BY InitGood DEF LInit
<1>2. Used(Pool) = {}  BY DEF LInit, Init, Used, Pool
<1>3. Senders /\ Counters /\ OnWire  BY DataAssumption DEF LInit, Senders, Counters, OnWire
<1>4. ASSUME NEW m \in Messages PROVE EndsCounted(m)
  <2>1. Ends(Pool, m) = {}  BY <1>2 DEF Ends, Finished
  <2>2. Cardinality(Ends(Pool, m)) = 0  BY <2>1, FS_EmptySet
  <2>3. ~EndOnWire(m) /\ delivered[m] = 0 /\ completed[m] = 0  BY DEF LInit, EndOnWire
  <2> QED  BY <2>2, <2>3 DEF EndsCounted
<1> QED  BY <1>1, <1>2, <1>3, <1>4 DEF LinkInv

\* Every buffer holds the pid and two blocks.  In a smaller one read_packet() cuts a
\* packet of several frames to at most eight bytes, and takes it for one without CRC.
LargeBuffers == \A sz \in DestSizes : sz >= 18

\* Every step keeps the invariant, and only a turn of read_packet returns a packet.
LEMMA LinkKeeps ==
  ASSUME LinkInv, [LNext]_lvars
  PROVE  LinkInv' /\ (LargeBuffers /\ Integrity => Integrity')
<1>1. CASE UNCHANGED lvars
  <2>1. /\ Pool' = Pool /\ rv' = rv
        /\ UNCHANGED <<tx, txdata, wire, out, completed, delivered>>
    BY <1>1 DEF lvars, vars, link, Pool
  <2>2. Senders' /\ Counters' /\ Done' = Done /\ OnWire' /\ (Integrity => Integrity')
    BY <2>1 DEF LinkInv, Senders, Counters, OnWire, Done, Integrity
  <2>3. rv' \in Results  BY <2>1 DEF LinkInv, IInv
  <2>4. /\ IInv' /\ \A t \in Used(Pool)' : GoodTree(Pool, t, Done)'
        /\ \A m : Ends(Pool, m)' = Ends(Pool, m)
        /\ \A k : Working(Pool, k)' = Working(Pool, k)
    BY <2>1, <2>2, <2>3, PoolKept
  <2>5. \A m \in Messages : m.len > 8 => EndsCounted(m)'
    BY <2>1, <2>4 DEF LinkInv, EndsCounted, EndOnWire
  <2> QED  BY <2>2, <2>4, <2>5 DEF LinkInv
<1>2. CASE \E m \in Messages : SendPacket(m)
  BY <1>2, SendPacketKeeps DEF SendPacket, Integrity
<1>3. CASE \E s \in Nodes : SendFrame(s)
  BY <1>3, SendFrameKeeps DEF SendFrame, Integrity
<1>4. CASE Receive \/ Repeat
  BY <1>4, ArriveKeeps DEF Receive, Repeat, Integrity
<1>5. CASE Lose
  BY <1>5, LoseKeeps DEF Lose, Integrity
<1>6. CASE \E sz \in DestSizes : ReadTurn(sz)
  BY <1>6, ReadKeeps DEF LargeBuffers
<1> QED  BY <1>1, <1>2, <1>3, <1>4, <1>5, <1>6 DEF LNext

\* The invariant of the link.
LEMMA LinkInvariance == LSpec => []LinkInv
<1>1. LInit => LinkInv  BY LinkStarts
<1>2. LinkInv /\ [LNext]_lvars => LinkInv'  BY LinkKeeps
<1> QED  BY <1>1, <1>2, PTL DEF LSpec

\* Whatever frames were lost, repeated or never sent, and whatever the pool put
\* together of them, Codec::read_packet returns only packets of which send_packet()
\* sent every frame, with every byte in its place.
THEOREM IntegrityHolds ==
  ASSUME LargeBuffers
  PROVE  LSpec => []Integrity
<1>1. LInit => LinkInv /\ Integrity  BY LinkStarts DEF LInit, Integrity
<1>2. LinkInv /\ Integrity /\ [LNext]_lvars => LinkInv' /\ Integrity'  BY LinkKeeps
<1> QED  BY <1>1, <1>2, PTL DEF LSpec

\* A packet of several frames is not returned more often than it was sent, in
\* buffers of any size, although the bus repeats frames.
THEOREM NotMultipliedHolds == LSpec => []NotMultiplied
<1>1. LinkInv => NotMultiplied
  <2> SUFFICES ASSUME LinkInv, NEW m \in Messages, m.len > 8
               PROVE  delivered[m] <= completed[m]
    BY DEF NotMultiplied
  <2>1. /\ Cardinality(Ends(Pool, m)) \in Nat /\ delivered[m] \in Nat /\ completed[m] \in Nat
        /\ Cardinality(Ends(Pool, m)) + (IF EndOnWire(m) THEN 1 ELSE 0) + delivered[m] <= completed[m]
    BY EndsFinite DEF LinkInv, EndsCounted, Counters
  <2> QED  BY <2>1
<1> QED  BY <1>1, LinkInvariance, PTL

-----------------------------------------------------------------------------
(* Packets of which all frames come through                                *)

\* Tree t has what was sent before s, and expects the frame of s.
Collects(p, t, s) ==
    /\ t \in Working(p, s.msg.key)
    /\ p.trees[t].frm = s.frm
    /\ 8 * Len(Body(p, t)) = s.src
    /\ \A j \in Nat : \A r \in 1 .. 8 :
           j < Len(Body(p, t)) => Body(p, t)[j + 1][r] = Sent(s.msg)[8 * j + r]

Held(p, s) == \E t : Collects(p, t, s)

\* All frames of the packet that s is of, but the first, came through so far.
Followed(s) == s.frm \in SeqFrames /\ s.msg.key \in whole \cap Accepted

\* A sender whose frame is on the bus goes on with the next, or is done with the message.
After(x, s, w) ==
    \/ x = Idle
    \/ x # Idle /\ x.frm \in {frm_start, frm_single}
    \/ s.cnt # w.dlc /\ x = NextTurn(s, w.dlc)

\* The pool has what was sent before the frame on the bus, or has that frame already.
OnItsWay(w) ==
    \E s \in Sending :
        /\ FrameOf(w, s)
        /\ After(tx[w.key.src], s, w)
        /\ Followed(s) => \/ Held(Pool, s)
                          \/ w.frm # frm_end /\ Held(Pool, NextTurn(s, w.dlc))

WholeInv ==
    /\ \A n \in Nodes : tx[n] # Idle => tx[n].msg.key.src = n
    /\ \A n \in Nodes :
           tx[n] # Idle /\ Followed(tx[n])
           => Held(Pool, tx[n]) \/ (wire # <<>> /\ wire[1].key = tx[n].msg.key)
    /\ wire # <<>> => OnItsWay(wire[1])

\* A tree that stays as it is.
LEMMA SameHeld ==
  ASSUME NEW p, NEW q, NEW s, NEW t, Collects(p, t, s), Same(p, q, t)
  PROVE  Held(q, s)
<1>1. Collects(q, t, s)  BY SameKind DEF Collects, Same
<1> QED  BY <1>1 DEF Held

\* The numbers of the frames, as the sender and the pool count them.
LEMMA Numbers ==
  ASSUME NEW f \in SeqFrames
  PROVE  /\ NextFrm(f) = SeqAfter(f) /\ NextFrm(f) \in SeqFrames
         /\ SeqAfter(f) # f /\ SeqBefore(f) # f
         /\ SeqBefore(SeqAfter(f)) = f
BY SizesAssumption DEF NextFrm, SeqAfter, SeqBefore, SeqFrames, frm_start

\* What holds after the turn of s.
LEMMA NextIs ==
  ASSUME NEW t \in Sending, NEW d
  PROVE  /\ NextTurn(t, d).msg = t.msg /\ NextTurn(t, d).frm = NextFrm(t.frm)
         /\ NextTurn(t, d).src = t.src + d /\ NextTurn(t, d).cnt = t.cnt - d
BY DEF NextTurn, Sending

\* Block n + 1 of b joined n others of m; of it the first last bytes count.
Filled(b, n, last, m) ==
    /\ Len(b) = n + 1 /\ n \in Nat \ {0}
    /\ \A j \in Nat : \A r \in 1 .. 8 :
           j < n \/ (j = n /\ r <= last) => b[j + 1][r] = Sent(m)[8 * j + r]

\* The last block of a packet joins those that the pool has.
LEMMA BlockJoins ==
  ASSUME NEW p, NEW q, NEW t, NEW s \in Sending, WellFormed(p), Collects(p, t, s),
         NEW w, FrameOf(w, s), Body(q, t) = Append(Body(p, t), w.data)
  PROVE  Filled(Body(q, t), Len(Body(p, t)), w.dlc, s.msg)
<1> DEFINE a == Body(p, t)
           b == Body(q, t)
           x == Sent(s.msg)
<1>1. t \in Used(p) /\ 8 * Len(a) = s.src
      /\ \A j \in Nat : \A r \in 1 .. 8 : j < Len(a) => a[j + 1][r] = x[8 * j + r]
  BY DEF Collects, Working, Partial
<1>2. a \in Seq(Blocks) /\ Len(a) \in Nat \ {0}  BY <1>1, BodyType
<1>3. w.data \in Blocks /\ w.dlc \in 0 .. 8 /\ \A r \in 1 .. w.dlc : w.data[r] = x[s.src + r]
  <2>1. s.cnt \in Nat  BY DEF Sending
  <2> QED  BY <2>1 DEF FrameOf, TurnData
<1>4. b = Append(a, w.data)  OBVIOUS
<1> HIDE DEF a, b, x
<1>5. PICK n \in Nat \ {0} : n = Len(a)  BY <1>2
<1>6. Len(b) = n + 1 /\ b[n + 1] = w.data /\ \A j \in 1 .. n : b[j] = a[j]
  BY <1>2, <1>3, <1>4, <1>5, AppendProperties
<1>7. ASSUME NEW j \in Nat, NEW r \in 1 .. 8, j < n \/ (j = n /\ r <= w.dlc)
      PROVE  b[j + 1][r] = x[8 * j + r]
  <2>1. CASE j < n
    <3>1. j + 1 \in 1 .. n  BY <2>1
    <3> QED  BY <1>1, <1>5, <1>6, <2>1, <3>1
  <2>2. CASE j = n /\ r <= w.dlc
    <3>1. r \in 1 .. w.dlc /\ s.src = 8 * n  BY <1>1, <1>3, <1>5, <2>2
    <3> QED  BY <1>3, <1>6, <2>2, <3>1
  <2> QED  BY <1>7, <2>1, <2>2
<1> QED  BY <1>5, <1>6, <1>7 DEF Filled, a, b, x

\* The first block of a packet.
LEMMA FirstHeld ==
  ASSUME NEW p, NEW q, NEW t, NEW s \in Sending, s.frm = frm_start, NEW w, FrameOf(w, s), s.cnt > 8,
         Begun(p, q, t, w.key, w.data, 0)
  PROVE  Held(q, NextTurn(s, w.dlc))
<1> DEFINE u == NextTurn(s, w.dlc)
           b == Body(q, t)
           x == Sent(s.msg)
<1>1. w.dlc = 8 /\ w.key = s.msg.key /\ \A r \in 1 .. 8 : w.data[r] = x[s.src + r]
  BY DEF FrameOf, TurnData, Sending
<1>2. u.msg = s.msg /\ u.frm = 0 /\ u.src = 8
  <2>1. u.msg = s.msg /\ u.frm = NextFrm(s.frm) /\ u.src = 0 + 8
    BY <1>1, NextIs, FrameKinds DEF Sending
  <2> QED  BY <2>1 DEF NextFrm
<1>3. b = <<w.data>> /\ t \in Working(q, w.key) /\ q.trees[t].frm = 0
  BY DEF Begun, Working, Partial
<1> HIDE DEF u, b, x
<1>4. Len(b) = 1 /\ b[1] = w.data  BY <1>3
<1>5. ASSUME NEW j \in Nat, NEW r \in 1 .. 8, j < Len(b) PROVE b[j + 1][r] = x[8 * j + r]
  <2>1. s.src = 0  BY FrameKinds DEF Sending
  <2>2. j = 0 /\ j + 1 = 1 /\ 8 * j + r = s.src + r  BY <1>4, <1>5, <2>1
  <2> QED  BY <1>1, <1>4, <2>2
<1>6. Collects(q, t, u)  BY <1>1, <1>2, <1>3, <1>4, <1>5 DEF Collects, b, x
<1> QED  BY <1>6 DEF Held, u

\* One more block.
LEMMA NextHeld ==
  ASSUME NEW p, NEW q, NEW t, NEW s \in Sending, WellFormed(p), Collects(p, t, s), s.frm \in SeqFrames,
         NEW w, FrameOf(w, s), s.cnt > 8,
         Extended(p, q, t, w.key, w.data, 0)
  PROVE  Held(q, NextTurn(s, w.dlc))
<1> DEFINE u == NextTurn(s, w.dlc)
           b == Body(q, t)
           x == Sent(s.msg)
           n == Len(Body(p, t))
<1>1. w.dlc = 8 /\ w.key = s.msg.key
  BY DEF FrameOf, TurnData, Sending
<1>2. u.msg = s.msg /\ u.frm = NextFrm(s.frm) /\ u.src = s.src + 8
  BY <1>1, NextIs
<1>3. p.trees[t].frm = s.frm /\ 8 * n = s.src  BY DEF Collects
<1>4. t \in Working(q, w.key) /\ q.trees[t].frm = SeqAfter(s.frm)
  BY <1>3 DEF Extended, Working, Partial
<1>5. /\ Len(b) = n + 1 /\ n \in Nat \ {0}
      /\ \A j \in Nat : \A r \in 1 .. 8 :
             j < n \/ (j = n /\ r <= w.dlc) => b[j + 1][r] = x[8 * j + r]
  <2>1. Body(q, t) = Append(Body(p, t), w.data)  BY DEF Extended
  <2>2. Filled(Body(q, t), Len(Body(p, t)), w.dlc, s.msg)  BY <2>1, BlockJoins
  <2> QED  BY <2>2 DEF Filled
<1>6. NextFrm(s.frm) = SeqAfter(s.frm)  BY Numbers
<1> HIDE DEF u, b, x, n
<1>7. ASSUME NEW j \in Nat, NEW r \in 1 .. 8, j < Len(b) PROVE b[j + 1][r] = x[8 * j + r]
  <2>1. j < n \/ (j = n /\ r <= w.dlc)  BY <1>1, <1>5, <1>7
  <2> QED  BY <1>5, <2>1
<1>8. 8 * Len(b) = u.src  BY <1>2, <1>3, <1>5
<1>9. Collects(q, t, u)  BY <1>1, <1>2, <1>4, <1>6, <1>7, <1>8 DEF Collects, b, x
<1> QED  BY <1>9 DEF Held, u

\* The copy of a packet whose last block came.
LEMMA LastComplete ==
  ASSUME NEW p, NEW q, NEW t, NEW s \in Sending, WellFormed(p), WellFormed(q), Collects(p, t, s),
         s.frm \in SeqFrames, NEW w, FrameOf(w, s), s.cnt <= 8,
         Extended(p, q, t, w.key, w.data, w.dlc)
  PROVE  t \in Finished(q) /\ Content(Copy(q, t, 2 + s.msg.len + 2)) = Sent(s.msg)
<1> DEFINE b == Body(q, t)
           x == Sent(s.msg)
           k == Len(Body(p, t))
           sz == 2 + s.msg.len + 2
           c == Copy(q, t, sz)
           last == w.dlc
<1>1. PICK len \in Nat : len = s.msg.len /\ s.msg \in Messages  BY LinkAssumption DEF Sending
<1>2. len > 8 /\ last = s.cnt /\ s.src + last = len + 2 /\ last \in 1 .. 8
  <2>1. s.frm # frm_single  BY FrameKinds
  <2> QED  BY <1>1, <2>1 DEF Sending, FrameOf, TurnData
<1>3. t \in Finished(q) /\ q.trees[t].dlc = last
  <2>1. t \in Used(q) /\ q.trees[t].dlc = last  BY DEF Extended, Working, Partial
  <2> QED  BY <1>2, <2>1 DEF Finished, Partial
<1>4. /\ Len(b) = k + 1 /\ k \in Nat \ {0} /\ 8 * k = s.src
      /\ \A j \in Nat : \A r \in 1 .. 8 :
             j < k \/ (j = k /\ r <= w.dlc) => b[j + 1][r] = x[8 * j + r]
  <2>1. Body(q, t) = Append(Body(p, t), w.data)  BY DEF Extended
  <2>2. Filled(Body(q, t), Len(Body(p, t)), w.dlc, s.msg)  BY <2>1, BlockJoins
  <2>3. 8 * k = s.src  BY DEF Collects
  <2> QED  BY <2>2, <2>3 DEF Filled
<1>5. sz \in Nat \ {0, 1} /\ sz = len + 4  BY <1>1
<1>6. PICK full \in Nat, fits \in BOOLEAN : CopyOf(c, b, k + 1, last, sz, full, fits)
  <2> HIDE DEF sz, c, b
  <2>1. \E full \in Nat, fits \in BOOLEAN : CopyOf(Copy(q, t, sz), Body(q, t), Len(Body(q, t)), q.trees[t].dlc, sz, full, fits)
    BY <1>3, <1>5, CopyIs
  <2> QED  BY <1>3, <1>4, <2>1 DEF b, c
<1>7. x \in Seq({s.msg} \X (-2 .. s.msg.len)) /\ Len(x) = len + 2
  <2>1. Len(x) = IF s.msg.len <= 8 THEN s.msg.len ELSE s.msg.len + 2  BY <1>1, SentType
  <2> QED  BY <1>1, <1>2, <2>1, SentType
<1> HIDE DEF b, x, k, sz, c, last
<1>8. full = k /\ fits /\ c.size = len + 4 /\ \A j \in 1 .. k + 1 : c.blocks[j] = b[j]
  <2>1. /\ full \in 0 .. (k + 1) - 1 /\ 8 * full + 2 <= sz /\ (full < (k + 1) - 1 => sz < 8 * full + 10)
        /\ (fits <=> full = (k + 1) - 1 /\ last \in 1 .. 8 /\ 2 + 8 * full + last <= sz)
        /\ c.size = 2 + 8 * full + (IF fits THEN last ELSE 0)
        /\ \A j \in 1 .. (IF fits THEN k + 1 ELSE full) : c.blocks[j] = b[j]
    BY <1>6 DEF CopyOf
  <2>2. sz = 8 * k + last + 2  BY <1>2, <1>4, <1>5
  <2>3. full = k
    <3>1. ~(full < k)
      <4>1. SUFFICES ASSUME full < k PROVE FALSE  OBVIOUS
      <4>2. full + 1 <= k  BY <1>4, <4>1
      <4>3. 8 * full + 8 <= 8 * k  BY <1>4, <4>2
      <4>4. sz < 8 * full + 10  BY <1>4, <2>1, <4>1
      <4>5. k \in Nat /\ last \in 1 .. 8  BY <1>2, <1>4
      <4> HIDE DEF last
      <4> QED  BY <2>2, <4>3, <4>4, <4>5
    <3> QED  BY <1>4, <2>1, <3>1
  <2>4. fits  BY <1>2, <1>4, <2>1, <2>2, <2>3
  <2>5. c.size = 2 + 8 * k + last  BY <2>1, <2>3, <2>4
  <2> QED  BY <1>2, <1>4, <2>1, <2>3, <2>4, <2>5
<1> DEFINE L == len + 2
           d == Content(c)
<1>9. L \in Nat /\ L = c.size - 2  BY <1>8
<1>10. /\ d = [i \in 1 .. L |-> c.blocks[((i - 1) \div 8) + 1][((i - 1) % 8) + 1]]
       /\ \A v \in Nat : \A r \in 1 .. 8 : 8 * v + r \in 1 .. L => d[8 * v + r] = c.blocks[v + 1][r]
  <2> HIDE DEF L
  <2> QED  BY <1>9, ContentAt
<1> HIDE DEF d
<1>11. ASSUME NEW i \in 1 .. L PROVE d[i] = x[i]
  <2>1. PICK v \in Nat, r \in 1 .. 8 : i = 8 * v + r
    <3>1. i - 1 \in Nat /\ 8 \in Nat \ {0}  OBVIOUS
    <3>2. (i - 1) \div 8 \in Nat /\ (i - 1) % 8 \in 0 .. 7 /\ i - 1 = 8 * ((i - 1) \div 8) + ((i - 1) % 8)
      BY <3>1, Division
    <3>3. ((i - 1) % 8) + 1 \in 1 .. 8 /\ i = 8 * ((i - 1) \div 8) + (((i - 1) % 8) + 1)  BY <3>2
    <3> QED  BY <3>2, <3>3
  <2>2. v < k \/ (v = k /\ r <= w.dlc)
    <3>1. 8 * v + r <= 8 * k + last  BY <1>2, <1>4, <2>1
    <3>2. v <= k  BY <1>2, <1>4, <3>1
    <3>3. v = k => r <= last  BY <1>2, <1>4, <3>1
    <3> QED  BY <1>4, <3>2, <3>3 DEF last
  <2>3. v + 1 \in 1 .. k + 1  BY <1>4, <2>2
  <2>4. d[8 * v + r] = c.blocks[v + 1][r]  BY <1>10, <2>1
  <2> QED  BY <1>4, <1>8, <2>1, <2>2, <2>3, <2>4
<1>12. x = [i \in 1 .. L |-> x[i]]
  <2>1. DOMAIN x = 1 .. Len(x)  BY <1>7, LenProperties
  <2>2. x \in [1 .. L -> {s.msg} \X (-2 .. s.msg.len)]
    <3> DEFINE S == {s.msg} \X (-2 .. s.msg.len)
    <3> HIDE DEF S
    <3>1. x \in [1 .. Len(x) -> S]  BY <1>7, SeqDef, LenProperties DEF S
    <3> QED  BY <1>7, <3>1 DEF S
  <2> HIDE DEF L
  <2> QED  BY <2>2
<1>13. d = x
  <2> DEFINE at(i) == c.blocks[((i - 1) \div 8) + 1][((i - 1) % 8) + 1]
  <2>1. d = [i \in 1 .. L |-> at(i)]  BY <1>10
  <2> HIDE DEF at
  <2>2. d = [i \in 1 .. L |-> d[i]]  BY <2>1
  <2> HIDE DEF L
  <2> QED  BY <1>11, <1>12, <2>2
<1> QED  BY <1>3, <1>13 DEF d, c, x, sz

\* A complete packet with the bytes of m can be read.
Complete(q, m) == \E t \in Finished(q) : Content(Copy(q, t, 2 + m.len + 2)) = Sent(m)

\* The only frame of a packet completes it.
LEMMA SingleComplete ==
  ASSUME NEW p, NEW q, NEW t, WellFormed(q), NEW w, NEW done \in SUBSET Messages, GoodFrame(w, done),
         w.frm = frm_single, NEW last, last = IF w.dlc > 0 THEN w.dlc ELSE ZeroLength,
         Begun(p, q, t, w.key, w.data, last)
  PROVE  Complete(q, w.msg)
<1> DEFINE m == w.msg
           b == Body(q, t)
           sz == 2 + m.len + 2
           c == Copy(q, t, sz)
<1>1. /\ m \in Messages /\ w.dlc \in 0 .. 8 /\ w.dlc = m.len /\ OnlyOf(m, w.data)
  BY DEF GoodFrame
<1>2. b = <<w.data>> /\ q.trees[t].dlc = last /\ t \in Used(q)  BY DEF Begun
<1>3. last # 0 /\ last = IF m.len = 0 THEN ZeroLength ELSE m.len  BY <1>1 DEF ZeroLength
<1>4. t \in Finished(q)  BY <1>2, <1>3 DEF Finished, Partial
<1>5. sz \in Nat \ {0, 1} /\ sz >= 2 + m.len  BY <1>1
<1>6. Sent(m) = Payload(m)  BY <1>1 DEF Sent
<1> HIDE DEF m, b, sz
<1>7. Len(b) = 1 /\ b[1] = w.data  BY <1>2
<1>8. PICK full \in Nat, fits \in BOOLEAN : CopyOf(c, b, 1, last, sz, full, fits)
  <2>1. \E full \in Nat, fits \in BOOLEAN : CopyOf(Copy(q, t, sz), Body(q, t), Len(Body(q, t)), q.trees[t].dlc, sz, full, fits)
    BY <1>4, <1>5, CopyIs
  <2> QED  BY <1>2, <1>7, <2>1 DEF b
<1>9. Content(c) = Payload(m)
  <2>1. OnlyOf(m, b[1]) /\ m \in Messages  BY <1>1, <1>7
  <2> QED  BY <1>3, <1>5, <1>8, <2>1, SingleReturned
<1> QED  BY <1>4, <1>6, <1>9 DEF Complete, m, sz

\* The tree of a key is the only one.
LEMMA OneTree ==
  ASSUME NEW p, Good(p), NEW k, NEW t \in Working(p, k)
  PROVE  Working(p, k) = {t} /\ Min(Working(p, k)) = t
<1>1. \A u \in Working(p, k) : u = t  BY DEF Good, Working
<1>2. Min(Working(p, k)) \in Working(p, k)  BY WorkingTree
<1> QED  BY <1>1, <1>2

\* What push makes of the packet that a frame is of, unless an array is full.
LEMMA PushHeld ==
  ASSUME IInv, NEW w, NEW done \in SUBSET Messages, GoodFrame(w, done), NEW s \in Sending, FrameOf(w, s),
         Push(w.key, w.frm, w.data, w.dlc), rv' \notin {"ErrorSlotsOverflow", "ErrorTreeOverflow"}
  PROVE  /\ s.frm = frm_start => Held(Pool', NextTurn(s, w.dlc))
         /\ s.frm \in SeqFrames /\ w.frm # frm_end /\ (Held(Pool, s) \/ Held(Pool, NextTurn(s, w.dlc)))
                => Held(Pool', NextTurn(s, w.dlc))
         /\ s.frm \in SeqFrames /\ w.frm = frm_end /\ Held(Pool, s) => Complete(Pool', w.msg)
         /\ w.frm = frm_single => Complete(Pool', w.msg)
<1> DEFINE k == w.key
           f == w.frm
           p == Pool
           q == Pool'
           next == NextTurn(s, w.dlc)
<1>1. /\ k \in Keys /\ f \in Frames /\ w.data \in Blocks /\ w.dlc \in Dlcs /\ w.dlc \in 0 .. 8
      /\ f \in SeqFrames \cup {frm_start} => w.dlc = 8
      /\ f = frm_end => w.dlc \in 1 .. 8
  BY LinkAssumption DEF GoodFrame, EndOf
<1>2. /\ k = s.msg.key /\ w.msg = s.msg
      /\ f = IF s.frm = frm_single \/ s.cnt > 8 THEN s.frm ELSE frm_end
      /\ w.dlc = IF s.cnt <= 8 THEN s.cnt ELSE 8
  BY DEF FrameOf, TurnData
<1>3. IInv'
      /\ \/ /\ rv' = "ErrorOrphan" /\ f \in SeqFrames \cup {frm_end} /\ Orphan(k, f)
         \/ /\ Pool' = Pool
            /\ \/ BadLength(f, w.dlc)
               \/ /\ f \in SeqFrames /\ Working(Pool, k) # {}
                  /\ f = SeqBefore(trees[Min(Working(Pool, k))].frm)
         \/ /\ f \in {frm_start, frm_single}
            /\ \E t : Begun(Pool, Pool', t, k, w.data,
                           IF f = frm_start THEN 0 ELSE IF w.dlc > 0 THEN w.dlc ELSE ZeroLength)
         \/ /\ f \in SeqFrames \cup {frm_end}
            /\ \E t : /\ Extended(Pool, Pool', t, k, w.data, IF f = frm_end THEN w.dlc ELSE 0)
                      /\ f # frm_end => f = trees[t].frm
  <2> HIDE DEF k, f
  <2>1. Push(k, f, w.data, w.dlc)  BY DEF k, f
  <2> QED  BY <1>1, <2>1, PushCases
<1>4. ~BadLength(f, w.dlc)  BY <1>1, FrameKinds DEF BadLength
<1>5. WellFormed(p) /\ Good(p) /\ WellFormed(q) /\ Good(q)  BY <1>3 DEF IInv, Good
<1>6. trees = p.trees  BY DEF Pool
<1>7. s.cnt \in Nat /\ (s.frm = frm_start => s.cnt > 8 /\ f = frm_start)
  <2>1. s.frm = frm_start => s.msg.len > 8 /\ s.src = 0 /\ s.src + s.cnt = s.msg.len + 2
    BY FrameKinds DEF Sending
  <2>2. s.cnt \in Nat /\ s.msg.len \in Nat  BY LinkAssumption DEF Sending
  <2> QED  BY <1>2, <2>1, <2>2
<1> HIDE DEF k, f, p, q, next
<1>8. ASSUME s.frm = frm_start PROVE Held(q, next)
  <2>1. PICK t : Begun(p, q, t, k, w.data, 0)
    BY <1>3, <1>4, <1>7, <1>8, FrameKinds DEF p, q
  <2> QED  BY <1>7, <1>8, <2>1, FirstHeld DEF k, next
<1>9. ASSUME s.frm \in SeqFrames, f # frm_end, Held(p, s) PROVE Held(q, next)
  <2>1. PICK t : Collects(p, t, s)  BY <1>9 DEF Held
  <2>2. t \in Working(p, k) /\ p.trees[t].frm = s.frm /\ f = s.frm /\ s.cnt > 8
    BY <1>2, <1>7, <1>9, <2>1, FrameKinds DEF Collects
  <2>3. Working(p, k) = {t} /\ Min(Working(p, k)) = t  BY <1>5, <2>2, OneTree
  <2>4. ~Orphan(k, f)  BY <1>6, <1>9, <2>2, <2>3, FrameKinds DEF Orphan, p
  <2>5. f # SeqBefore(trees[Min(Working(p, k))].frm)  BY <1>6, <1>9, <2>2, <2>3, Numbers
  <2>6. Extended(p, q, t, k, w.data, 0)
    BY <1>3, <1>4, <1>9, <2>2, <2>3, <2>4, <2>5, FrameKinds DEF p, q, Extended
  <2> QED  BY <1>5, <1>9, <2>1, <2>2, <2>6, NextHeld DEF k, next
<1>10. ASSUME s.frm \in SeqFrames, f # frm_end, Held(p, next) PROVE Held(q, next)
  <2>1. PICK t : Collects(p, t, next)  BY <1>10 DEF Held
  <2>2. next.msg = s.msg /\ next.frm = SeqAfter(s.frm) /\ f = s.frm
    BY <1>2, <1>10, NextIs, Numbers, FrameKinds DEF next
  <2>3. t \in Working(p, k) /\ p.trees[t].frm = SeqAfter(f)
    BY <1>2, <2>1, <2>2 DEF Collects
  <2>4. Working(p, k) = {t} /\ Min(Working(p, k)) = t  BY <1>5, <2>3, OneTree
  <2>5. ~Orphan(k, f)
    <3>1. f = SeqBefore(trees[t].frm)  BY <1>6, <1>10, <2>2, <2>3, Numbers
    <3> QED  BY <1>10, <2>2, <2>4, <3>1, FrameKinds DEF Orphan, p
  <2>6. f # trees[t].frm  BY <1>6, <1>10, <2>2, <2>3, Numbers
  <2>7. ASSUME NEW u, Extended(p, q, u, k, w.data, IF f = frm_end THEN w.dlc ELSE 0) PROVE u = t
    BY <2>4, <2>7 DEF Extended
  <2>8. q = p
    BY <1>3, <1>4, <1>10, <2>2, <2>5, <2>6, <2>7, FrameKinds DEF p, q
  <2> QED  BY <1>10, <2>8
<1>11. ASSUME s.frm \in SeqFrames, f = frm_end, Held(p, s) PROVE Complete(q, w.msg)
  <2>1. PICK t : Collects(p, t, s)  BY <1>11 DEF Held
  <2>2. t \in Working(p, k) /\ s.cnt <= 8
    BY <1>2, <1>7, <1>11, <2>1, FrameKinds DEF Collects
  <2>3. Working(p, k) = {t} /\ Min(Working(p, k)) = t  BY <1>5, <2>2, OneTree
  <2>4. ~Orphan(k, f)  BY <1>11, <2>3, FrameKinds DEF Orphan, p
  <2>5. Extended(p, q, t, k, w.data, w.dlc)
    BY <1>3, <1>4, <1>11, <2>3, <2>4, FrameKinds DEF p, q, Extended
  <2>6. t \in Finished(q) /\ Content(Copy(q, t, 2 + s.msg.len + 2)) = Sent(s.msg)
    BY <1>5, <1>11, <2>1, <2>2, <2>5, LastComplete DEF k
  <2> QED  BY <1>2, <2>6 DEF Complete
<1>12. ASSUME f = frm_single PROVE Complete(q, w.msg)
  <2>1. PICK t : Begun(p, q, t, k, w.data, IF w.dlc > 0 THEN w.dlc ELSE ZeroLength)
    BY <1>3, <1>4, <1>12, FrameKinds DEF p, q
  <2> QED  BY <1>5, <1>12, <2>1, SingleComplete DEF k, f
<1> QED  BY <1>8, <1>9, <1>10, <1>11, <1>12 DEF f, p, q, next

\* What push leaves of the packets of other keys that it does not give up.
LEMMA PushOthers ==
  ASSUME IInv, NEW w, NEW done, GoodFrame(w, done), Push(w.key, w.frm, w.data, w.dlc),
         NEW u, Held(Pool, u), u.msg.key # w.key, u.msg.key \notin Late
  PROVE  Held(Pool', u)
<1> DEFINE k == w.key
           f == w.frm
           p == Pool
           q == Pool'
<1>1. k \in Keys /\ f \in Frames /\ w.data \in Blocks /\ w.dlc \in Dlcs
  BY LinkAssumption DEF GoodFrame
<1>2. \/ rv' \in {"ErrorSlotsOverflow", "ErrorTreeOverflow", "ErrorOrphan"} /\ Refused(p, q, k)
      \/ q = p
      \/ \E t, last : Begun(p, q, t, k, w.data, last)
      \/ \E t, last : Extended(p, q, t, k, w.data, last)
  <2> HIDE DEF k, f
  <2>1. Push(k, f, w.data, w.dlc)  BY DEF k, f
  <2> QED  BY <1>1, <2>1, PushCases
<1>3. PICK t : Collects(p, t, u)  BY DEF Held
<1>4. t \in Partial(p) /\ t \in Used(p) /\ p.trees[t].key = u.msg.key  BY <1>3 DEF Collects, Working, Partial
<1>5. trees = p.trees  BY DEF Pool
<1> HIDE DEF p, q, k
<1>6. CASE q = p  BY <1>6 DEF p, q
<1>7. CASE q # p
  <2>1. t \notin Working(p, k)  BY <1>4 DEF Working, k
  <2>2. Same(p, q, t)
    <3>1. CASE rv' \in {"ErrorSlotsOverflow", "ErrorTreeOverflow", "ErrorOrphan"} /\ Refused(p, q, k)
      <4>1. t \notin Expired(p)  BY <1>4, <1>5, <3>1 DEF Late, p
      <4> QED  BY <1>4, <3>1, <4>1 DEF Refused, k
    <3>2. CASE \E v, last : Begun(p, q, v, k, w.data, last)  BY <1>4, <2>1, <3>2 DEF Begun
    <3>3. CASE \E v, last : Extended(p, q, v, k, w.data, last)  BY <1>4, <2>1, <3>3 DEF Extended
    <3> QED  BY <1>2, <1>7, <3>1, <3>2, <3>3
  <2> QED  BY <1>3, <2>2, SameHeld DEF q
<1> QED  BY <1>6, <1>7

\* Held speaks of the pool alone.
LEMMA HeldNext == ASSUME NEW s PROVE Held(Pool, s)' <=> Held(Pool', s)
BY DEF Held, Collects, Working, Partial, Used

\* A frame that arrives: what the senders go on with is kept, and the frame is added.
LEMMA ArriveWhole ==
  ASSUME LinkInv, WholeInv, Receive \/ Repeat
  PROVE  WholeInv'
<1>0. PICK w : w = wire[1]  OBVIOUS
<1> DEFINE k == w.key
           full == rv' \in {"ErrorSlotsOverflow", "ErrorTreeOverflow"}
<1>1. /\ wire # <<>> /\ PushMessage(w) /\ (wire' = <<>> \/ wire' = wire)
      /\ tx' = tx
      /\ whole' = IF full THEN (whole \ Late) \ {k}
                  ELSE IF w.frm = frm_start THEN (whole \ Late) \cup {k}
                  ELSE IF w.frm = frm_end THEN (whole \ Late) \ {k}
                  ELSE whole \ Late
  BY <1>0 DEF Receive, Repeat, Arrive
<1>2. GoodFrame(w, Done) /\ Done \in SUBSET Messages /\ IInv
  BY <1>0, <1>1 DEF LinkInv, OnWire, Done
<1>3. PICK s \in Sending : /\ FrameOf(w, s) /\ After(tx[k.src], s, w)
                           /\ Followed(s) => \/ Held(Pool, s)
                                             \/ w.frm # frm_end /\ Held(Pool, NextTurn(s, w.dlc))
  BY <1>0, <1>1 DEF WholeInv, OnItsWay
<1> DEFINE next == NextTurn(s, w.dlc)
<1>4. /\ k = s.msg.key /\ w.frm = (IF s.frm = frm_single \/ s.cnt > 8 THEN s.frm ELSE frm_end)
      /\ w.dlc = (IF s.cnt <= 8 THEN s.cnt ELSE 8)
      /\ s.frm = frm_single => s.cnt = w.dlc
      /\ s.frm \in SeqFrames \cup {frm_start, frm_single}
  <2>1. s.frm = frm_single => s.cnt <= 8  BY FrameKinds DEF Sending
  <2>2. k = s.msg.key /\ w.frm = (IF s.frm = frm_single \/ s.cnt > 8 THEN s.frm ELSE frm_end)
        /\ w.dlc = (IF s.cnt <= 8 THEN s.cnt ELSE 8)
    BY <1>3 DEF FrameOf, TurnData
  <2>3. s.frm \in SeqFrames \cup {frm_start, frm_single}  BY DEF Sending
  <2> QED  BY <2>1, <2>2, <2>3
<1>5. /\ Pool' = Pool \/ Push(w.key, w.frm, w.data, w.dlc)
      /\ k \in Accepted => Push(w.key, w.frm, w.data, w.dlc)
  BY <1>1 DEF PushMessage, Pool
<1> HIDE DEF k, full, next
<1>6. ASSUME NEW u, Held(Pool, u), u.msg.key # k, u.msg.key \in whole'
      PROVE  Held(Pool', u)
  <2>1. u.msg.key \notin Late  BY <1>1, <1>6
  <2> QED  BY <1>2, <1>5, <1>6, <2>1, PushOthers DEF k
<1>7. ASSUME s.frm # frm_single, k \in whole' \cap Accepted
      PROVE  Held(Pool', next) /\ w.frm # frm_end
  <2>1. ~full /\ w.frm # frm_end  BY <1>1, <1>7, FrameKinds
  <2>2. Push(w.key, w.frm, w.data, w.dlc)  BY <1>5, <1>7
  <2>3. CASE s.frm = frm_start
    BY <1>2, <1>3, <2>1, <2>2, <2>3, PushHeld DEF full, next
  <2>4. CASE s.frm \in SeqFrames
    <3>1. w.frm # frm_start  BY <1>4, <2>1, <2>4, FrameKinds
    <3>2. k \in whole \cap Accepted  BY <1>1, <1>7, <2>1, <3>1
    <3>3. Held(Pool, s) \/ Held(Pool, next)  BY <1>3, <1>4, <2>4, <3>2 DEF Followed, next
    <3> QED  BY <1>2, <1>3, <2>1, <2>2, <2>4, <3>3, PushHeld DEF full, next
  <2> QED  BY <1>4, <1>7, <2>1, <2>3, <2>4
<1>8. ASSUME NEW n \in Nodes, tx[n] # Idle, tx[n].frm \in SeqFrames, tx[n].msg.key \in whole' \cap Accepted
      PROVE  Held(Pool', tx[n])
  <2>1. CASE tx[n].msg.key # k
    <3>1. tx[n].msg.key \in whole \cap Accepted  BY <1>1, <1>8, <2>1
    <3>2. Held(Pool, tx[n])  BY <1>0, <1>8, <2>1, <3>1 DEF WholeInv, Followed, k
    <3> QED  BY <1>6, <1>8, <2>1, <3>2
  <2>2. CASE tx[n].msg.key = k
    <3>1. k.src = n  BY <1>8, <2>2 DEF WholeInv
    <3>2. s.cnt # w.dlc /\ tx[n] = next  BY <1>3, <1>8, <3>1, FrameKinds DEF After, next
    <3> QED  BY <1>4, <1>7, <1>8, <2>2, <3>2
  <2> QED  BY <2>1, <2>2
<1>9. ASSUME wire' # <<>> PROVE OnItsWay(wire[1])'
  <2>1. wire' = wire /\ wire'[1] = w  BY <1>0, <1>1, <1>9
  <2>2. Followed(s)' => Held(Pool', next) /\ w.frm # frm_end
    <3> SUFFICES ASSUME s.frm \in SeqFrames, k \in whole' \cap Accepted
                 PROVE  Held(Pool', next) /\ w.frm # frm_end
      BY <1>4 DEF Followed
    <3> QED  BY <1>7, FrameKinds
  <2>3. After(tx'[w.key.src], s, w)  BY <1>1, <1>3 DEF k
  <2>4. Held(Pool, next)' <=> Held(Pool', next)  BY HeldNext
  <2> QED  BY <1>3, <2>1, <2>2, <2>3, <2>4 DEF OnItsWay, After, next
<1> QED  BY <1>1, <1>8, <1>9, HeldNext DEF WholeInv, Followed

\* The frame stays on the bus, and what the pool has stays.
LEMMA WayKept ==
  ASSUME NEW w, OnItsWay(w), whole' = whole, \A u : Held(Pool, u) => Held(Pool', u),
         \A s : After(tx[w.key.src], s, w) => After(tx'[w.key.src], s, w)
  PROVE  OnItsWay(w)'
<1>1. PICK s \in Sending : /\ FrameOf(w, s) /\ After(tx[w.key.src], s, w)
                           /\ Followed(s) => \/ Held(Pool, s)
                                             \/ w.frm # frm_end /\ Held(Pool, NextTurn(s, w.dlc))
  BY DEF OnItsWay
<1>2. PICK next : next = NextTurn(s, w.dlc)  OBVIOUS
<1>3. Held(Pool, next)' <=> Held(Pool', next)  BY HeldNext
<1>4. Followed(s)' => Held(Pool, s)' \/ (w.frm # frm_end /\ Held(Pool, next)')
  BY <1>1, <1>2, <1>3, HeldNext DEF Followed
<1>5. After(tx'[w.key.src], s, w)  BY <1>1
<1> QED  BY <1>1, <1>2, <1>4, <1>5 DEF OnItsWay, After

\* What the pool holds of a sender, once the sender is named.
LEMMA HeldAs ==
  ASSUME NEW n \in Nodes, NEW x, x = tx'[n], Held(Pool, x)'
  PROVE  Held(Pool, tx[n])'
BY DEF Held, Collects

\* A sender that stays as it is, of which the bus has no frame, stays in line.
LEMMA SenderKept ==
  ASSUME WholeInv, whole' = whole, \A u : Held(Pool, u) => Held(Pool', u),
         NEW n \in Nodes, tx'[n] = tx[n], tx[n] # Idle, Followed(tx[n])',
         ~(wire # <<>> /\ wire[1].key = tx[n].msg.key)
  PROVE  Held(Pool, tx[n])'
<1>1. PICK x : x = tx[n] /\ x = tx'[n]  OBVIOUS
<1>2. Held(Pool, x)  BY <1>1 DEF WholeInv, Followed
<1>3. Held(Pool, x)'  BY <1>2, HeldNext
<1> QED  BY <1>1, <1>3, HeldAs

\* A step that neither sends nor pushes.
LEMMA QuietWhole ==
  ASSUME WholeInv, UNCHANGED <<tx, wire, whole>>, \A u : Held(Pool, u) => Held(Pool', u)
  PROVE  WholeInv'
<1>1. ASSUME wire # <<>> PROVE OnItsWay(wire[1])'
  <2>1. PICK w : w = wire[1] /\ wire'[1] = w  OBVIOUS
  <2>2. OnItsWay(w)'  BY <1>1, <2>1, WayKept DEF WholeInv
  <2> QED  BY <2>1, <2>2 DEF OnItsWay, After
<1>2. \A n \in Nodes : tx[n] # Idle /\ Followed(tx[n])' =>
          Held(Pool, tx[n])' \/ (wire # <<>> /\ wire[1].key = tx[n].msg.key)
  BY SenderKept
<1> QED  BY <1>1, <1>2 DEF WholeInv

\* A turn of read_packet takes a complete packet.
LEMMA ReadWhole ==
  ASSUME LinkInv, WholeInv, NEW sz \in DestSizes, ReadTurn(sz)
  PROVE  WholeInv'
<1>1. UNCHANGED <<tx, wire, whole>>  BY DEF ReadTurn
<1>2. \A u : Held(Pool, u) => Held(Pool', u)
  <2>1. CASE ReadNothing
    <3>1. Pool' = Pool  BY <2>1 DEF ReadNothing, Pool
    <3> QED  BY <3>1
  <2>2. CASE ReadPacket(sz)
    <3>1. PICK t \in Finished(Pool) : \A u \in Used(Pool) \ {t} : Same(Pool, Pool', u)
      BY <2>2, ReadCall DEF LinkInv
    <3>2. ASSUME NEW s, Held(Pool, s) PROVE Held(Pool', s)
      <4>1. PICK v : Collects(Pool, v, s)  BY <3>2 DEF Held
      <4>2. v \in Used(Pool) \ {t}  BY <4>1 DEF Collects, Working, Partial, Finished
      <4> QED  BY <3>1, <4>1, <4>2, SameHeld
    <3> QED  BY <3>2
  <2> QED  BY <2>1, <2>2 DEF ReadTurn
<1> QED  BY <1>1, <1>2, QuietWhole

\* The steps of a sender, and the loss of a frame.
LEMMA SendWhole ==
  ASSUME LinkInv, WholeInv,
         \/ \E m \in Messages : SendPacket(m)
         \/ \E n \in Nodes : SendFrame(n)
         \/ Lose
  PROVE  WholeInv'
<1>1. Pool' = Pool
  BY DEF SendPacket, SendFrame, Lose, PoolUnchanged, Pool
<1>2. tx \in [Nodes -> Sending \cup {Idle}]  BY DEF LinkInv, Senders
<1>3. \A u : Held(Pool, u)' <=> Held(Pool, u)  BY <1>1, HeldNext
<1>4. ASSUME NEW m \in Messages, SendPacket(m) PROVE WholeInv'
  <2> DEFINE n == m.key.src
  <2>1. n \in Nodes /\ tx[n] = Idle /\ UNCHANGED <<wire, whole>>
    BY <1>4, LinkAssumption DEF SendPacket
  <2>2. PICK t : /\ tx' = [tx EXCEPT ![n] = t] /\ t.msg = m /\ t.frm \in {frm_start, frm_single}
                 /\ t # Idle
    <3> DEFINE t == [msg |-> m, frm |-> IF m.len <= 8 THEN frm_single ELSE frm_start, src |-> 0,
                     cnt |-> IF m.len <= 8 THEN m.len ELSE m.len + 2]
    <3>1. tx' = [tx EXCEPT ![n] = t]  BY <1>4 DEF SendPacket
    <3>2. t # Idle
      <4>1. DOMAIN t # DOMAIN Idle
        <5>1. "frm" \in DOMAIN t /\ "frm" \notin DOMAIN Idle  BY DEF Idle
        <5> QED  BY <5>1
      <4> QED  BY <4>1
    <3>3. t.msg = m /\ t.frm \in {frm_start, frm_single}  OBVIOUS
    <3> QED  BY <3>1, <3>2, <3>3
  <2> HIDE DEF n
  <2>3. /\ tx'[n] = t /\ \A o \in Nodes : o # n => tx'[o] = tx[o]
    BY <1>2, <2>1, <2>2
  <2>4. \A o \in Nodes : tx'[o] # Idle => tx'[o].msg.key.src = o
    BY <2>2, <2>3 DEF WholeInv, n
  <2>5. \A o \in Nodes : tx'[o] # Idle /\ tx'[o].frm \in SeqFrames => o # n /\ tx'[o] = tx[o]
    BY <2>2, <2>3, FrameKinds
  <2>6. \A s, w : After(tx[n], s, w) => After(tx'[n], s, w)
    BY <2>2, <2>3 DEF After
  <2>7. ASSUME wire # <<>> PROVE OnItsWay(wire[1])'
    <3>1. PICK w : w = wire[1] /\ wire'[1] = w  BY <2>1
    <3>2. \A s : After(tx[w.key.src], s, w) => After(tx'[w.key.src], s, w)
      <4>1. CASE w.key.src = n  BY <2>6, <4>1
      <4>2. CASE w.key.src # n
        <5>1. w.msg \in Messages /\ w.key = w.msg.key
          BY <2>7, <3>1 DEF LinkInv, OnWire, GoodFrame
        <5>2. w.key.src \in Nodes  BY <5>1, LinkAssumption
        <5> QED  BY <2>3, <4>2, <5>2
      <4> QED  BY <4>1, <4>2
    <3>3. OnItsWay(w)'  BY <1>1, <2>1, <2>7, <3>1, <3>2, WayKept DEF WholeInv
    <3> QED  BY <3>1, <3>3 DEF OnItsWay, After
  <2>8. ASSUME NEW o \in Nodes, tx'[o] # Idle, Followed(tx[o])', ~(wire # <<>> /\ wire[1].key = tx[o].msg.key)
        PROVE  Held(Pool, tx[o])'
    <3>1. PICK x : x = tx[o] /\ x = tx'[o]  BY <2>5, <2>8 DEF Followed
    <3>2. x # Idle /\ Followed(x)  BY <2>1, <2>8, <3>1 DEF Followed
    <3>3. Held(Pool, x)  BY <2>8, <3>1, <3>2 DEF WholeInv
    <3>4. Held(Pool, x)'  BY <1>3, <3>3
    <3> QED  BY <3>1, <3>4, HeldAs
  <2>9. \A o \in Nodes : tx'[o] # Idle /\ Followed(tx[o])' => tx'[o] = tx[o]  BY <2>5 DEF Followed
  <2> QED  BY <2>1, <2>4, <2>7, <2>8, <2>9 DEF WholeInv
<1>5. ASSUME Lose PROVE WholeInv'
  <2>1. wire # <<>> /\ wire' = <<>> /\ tx' = tx /\ whole' = whole \ {wire[1].key}
    BY <1>5 DEF Lose
  <2>2. ASSUME NEW o \in Nodes, tx[o] # Idle, Followed(tx[o])' PROVE Held(Pool, tx[o])'
    <3>1. PICK x : x = tx[o] /\ x = tx'[o]  BY <2>1
    <3>2. x.frm \in SeqFrames /\ x.msg.key \in whole \cap Accepted /\ x.msg.key # wire[1].key
      BY <2>1, <2>2, <3>1 DEF Followed
    <3>3. Held(Pool, x)  BY <2>2, <3>1, <3>2 DEF WholeInv, Followed
    <3>4. Held(Pool, x)'  BY <1>3, <3>3
    <3> QED  BY <3>1, <3>4, HeldAs
  <2> QED  BY <2>1, <2>2 DEF WholeInv
<1>6. ASSUME NEW n \in Nodes, SendFrame(n) PROVE WholeInv'
  <2> DEFINE b    == Turn(tx[n]).bytes
             data == [i \in 1 .. 8 |-> IF i <= Len(b) THEN b[i] ELSE txdata[n][i]]
  <2>1. PICK t, dlc, w :
          /\ t = tx[n] /\ dlc = Min({t.cnt, 8})
          /\ w = [key |-> t.msg.key, frm |-> Turn(t).frm, data |-> data, dlc |-> dlc, msg |-> t.msg]
    OBVIOUS
  <2>2. /\ t # Idle /\ wire = <<>> /\ whole' = whole
        /\ \/ /\ wire' = <<w>>
              /\ tx' = [tx EXCEPT ![n] = IF t.cnt = dlc THEN Idle ELSE NextTurn(t, dlc)]
           \/ tx' = [tx EXCEPT ![n] = Idle] /\ wire' = wire
    BY <1>6, <2>1 DEF SendFrame, NextTurn
  <2>3. t \in Sending /\ txdata[n] \in Blocks /\ t.msg.key.src = n
    BY <1>2, <2>1, <2>2 DEF LinkInv, Senders, WholeInv
  <2>4. TurnData(t, dlc, data) /\ Turn(t).frm = IF t.frm = frm_single \/ t.cnt > 8 THEN t.frm ELSE frm_end
    BY <2>1, <2>3, TurnBytes
  <2>5. w.key = t.msg.key /\ w.dlc = dlc /\ FrameOf(w, t)
    BY <2>1, <2>4 DEF FrameOf
  <2> HIDE DEF b, data
  <2>6. \A o \in Nodes : o # n => tx'[o] = tx[o]  BY <1>2, <2>2
  <2>7. ASSUME NEW o \in Nodes, o # n, tx'[o] # Idle, Followed(tx[o])' PROVE Held(Pool, tx[o])'
    <3>1. tx'[o] = tx[o]  BY <2>6, <2>7
    <3> QED  BY <1>1, <2>2, <2>7, <3>1, SenderKept
  <2>8. CASE tx' = [tx EXCEPT ![n] = Idle] /\ wire' = wire
    <3>1. tx'[n] = Idle  BY <1>2, <2>8
    <3>2. \A o \in Nodes : tx'[o] # Idle => tx'[o].msg.key.src = o  BY <2>6, <3>1 DEF WholeInv
    <3> QED  BY <2>2, <2>7, <2>8, <3>1, <3>2 DEF WholeInv
  <2>9. CASE wire' = <<w>> /\ tx' = [tx EXCEPT ![n] = IF t.cnt = dlc THEN Idle ELSE NextTurn(t, dlc)]
    <3>1. tx'[n] = IF t.cnt = dlc THEN Idle ELSE NextTurn(t, dlc)  BY <1>2, <2>9
    <3>2. tx'[n] # Idle => tx'[n].msg = t.msg  BY <2>3, <3>1, NextIs
    <3>3. \A o \in Nodes : tx'[o] # Idle => tx'[o].msg.key.src = o
      BY <2>3, <2>6, <3>2 DEF WholeInv
    <3>4. wire'[1] = w  BY <2>9
    <3>5. OnItsWay(w)'
      <4>1. After(tx'[w.key.src], t, w)  BY <2>3, <2>5, <3>1 DEF After
      <4>2. Followed(t)' => Held(Pool, t)'
        <5>1. Followed(t)' => Followed(t)  BY <2>2 DEF Followed
        <5>2. Followed(t) => Held(Pool, t)
          BY <2>1, <2>2 DEF WholeInv
        <5> QED  BY <1>3, <5>1, <5>2
      <4> QED  BY <2>3, <2>5, <4>1, <4>2 DEF OnItsWay, After
    <3>6. ASSUME NEW o \in Nodes, tx'[o] # Idle, Followed(tx[o])'
          PROVE  Held(Pool, tx[o])' \/ w.key = tx'[o].msg.key
      <4>1. CASE o = n  BY <2>5, <3>2, <3>6, <4>1
      <4>2. CASE o # n  BY <2>7, <3>6, <4>2
      <4> QED  BY <4>1, <4>2
    <3>7. wire' # <<>> /\ OnItsWay(wire[1])'  BY <2>9, <3>4, <3>5 DEF OnItsWay, After
    <3> QED  BY <3>3, <3>4, <3>6, <3>7 DEF WholeInv
  <2> QED  BY <2>2, <2>8, <2>9
<1> QED  BY <1>4, <1>5, <1>6

\* The invariant of what comes through.
LEMMA WholeInvariance == LSpec => [](LinkInv /\ WholeInv)
<1>1. LInit => WholeInv  BY DEF LInit, WholeInv
<1>2. LinkInv /\ WholeInv /\ [LNext]_lvars => WholeInv'
  <2> SUFFICES ASSUME LinkInv, WholeInv, [LNext]_lvars PROVE WholeInv'  OBVIOUS
  <2>1. CASE UNCHANGED lvars
    <3>1. UNCHANGED <<tx, wire, whole>> /\ Pool' = Pool  BY <2>1 DEF lvars, vars, link, Pool
    <3> QED  BY <3>1, QuietWhole
  <2>2. CASE \E m \in Messages : SendPacket(m)  BY <2>2, SendWhole
  <2>3. CASE \E s \in Nodes : SendFrame(s)  BY <2>3, SendWhole
  <2>4. CASE Receive \/ Repeat  BY <2>4, ArriveWhole
  <2>5. CASE Lose  BY <2>5, SendWhole
  <2>6. CASE \E sz \in DestSizes : ReadTurn(sz)  BY <2>6, ReadWhole
  <2> QED  BY <2>1, <2>2, <2>3, <2>4, <2>5, <2>6 DEF LNext
<1> QED  BY <1>1, <1>2, LinkInvariance, PTL DEF LSpec

\* When all frames of a packet arrive, if repeated, the last one completes it and its
\* bytes are those that were sent, for any lengths, numbers of nodes and sizes of the pool
\* and whatever was lost or left behind before.
THEOREM ArrivedWhole == LSpec => ArrivedComplete
<1> DEFINE Arrives == /\ Receive
                      /\ wire[1].key \in Accepted
                      /\ \/ wire[1].frm = frm_end /\ wire[1].key \in whole
                         \/ wire[1].frm = frm_single
                      /\ rv' \notin {"ErrorSlotsOverflow", "ErrorTreeOverflow"}
           Whole == \E t \in Finished(Pool)' :
                        Content(Copy(Pool', t, 2 + wire[1].msg.len + 2)) = Sent(wire[1].msg)
<1>1. LinkInv /\ WholeInv => (Arrives => Whole)
  <2> SUFFICES ASSUME LinkInv, WholeInv, Arrives PROVE Whole  OBVIOUS
  <2>1. PICK w : w = wire[1]  OBVIOUS
  <2>2. wire # <<>> /\ Push(w.key, w.frm, w.data, w.dlc)
    BY <2>1 DEF Receive, Arrive, PushMessage
  <2>3. GoodFrame(w, Done) /\ Done \in SUBSET Messages /\ IInv
    BY <2>1, <2>2 DEF LinkInv, OnWire, Done
  <2>4. PICK s \in Sending : /\ FrameOf(w, s)
                             /\ Followed(s) => Held(Pool, s) \/ w.frm # frm_end
    BY <2>1, <2>2 DEF WholeInv, OnItsWay
  <2>5. Complete(Pool', w.msg)
    <3>1. CASE w.frm = frm_single  BY <2>1, <2>2, <2>3, <2>4, <3>1, PushHeld
    <3>2. CASE w.frm = frm_end /\ w.key \in whole
      <4>1. s.frm \in SeqFrames
        <5>1. s.frm # frm_single /\ ~(s.cnt > 8) /\ s.frm # frm_end
          BY <2>4, <3>2, FrameKinds DEF FrameOf, Sending
        <5>2. s.frm # frm_start
          <6>1. s.frm = frm_start => s.msg.len > 8 /\ s.src = 0 /\ s.src + s.cnt = s.msg.len + 2
            BY FrameKinds DEF Sending
          <6>2. s.cnt \in Nat /\ s.msg.len \in Nat  BY LinkAssumption DEF Sending
          <6> QED  BY <5>1, <6>1, <6>2
        <5> QED  BY <5>1, <5>2 DEF Sending
      <4>2. w.key = s.msg.key  BY <2>4 DEF FrameOf
      <4>3. Followed(s)  BY <2>1, <3>2, <4>1, <4>2 DEF Followed
      <4> QED  BY <2>1, <2>2, <2>3, <2>4, <3>2, <4>1, <4>3, PushHeld
    <3> QED  BY <2>1, <3>1, <3>2
  <2>6. Finished(Pool)' = Finished(Pool')  BY DEF Finished, Partial, Used
  <2> QED  BY <2>1, <2>5, <2>6 DEF Complete
<1>2. LinkInv /\ WholeInv => [Arrives => Whole]_lvars  BY <1>1
<1> QED  BY <1>2, WholeInvariance, PTL DEF ArrivedComplete

-----------------------------------------------------------------------------
(* Addresses: how nodes come to different ones                             *)

\* The variables of the nodes are functions of the nodes.
Shapes ==
    /\ adr \in [Nodes -> Addresses] /\ as \in [Nodes -> Addresses]
    /\ DOMAIN tx = Nodes /\ DOMAIN pc = Nodes /\ DOMAIN heard = Nodes
    /\ DOMAIN txmsg = Nodes /\ \A n \in Nodes : DOMAIN txmsg[n] = {"key", "frm", "dlc"}
    /\ DOMAIN answer = Nodes
    /\ \A n \in Nodes : /\ DOMAIN answer[n] = {"at", "adr"}
                        /\ answer[n].adr \in Addresses
                        /\ heard[n] # <<>> => heard[n] = <<heard[n][1]>>

\* Steps that leave the addresses alone and add none to those on their way but the
\* own one.
Quiet ==
    /\ UNCHANGED adr
    /\ \A n \in Nodes : Underway(n)' \subseteq Underway(n) \cup {adr[n]}
    /\ \A n \in Nodes : \/ heard'[n] \in {heard[n], <<>>}
                        \/ \E o \in Nodes \ {n} : \E a \in Underway(o) : heard'[n] = <<a>>

\* Such a step leaves different addresses as they are.
LEMMA QuietSettled == ASSUME Settled, Quiet PROVE Settled' /\ UNCHANGED adr
<1>1. \A n \in Nodes : heard'[n] # <<adr[n]>>
  <2>1. \A n \in Nodes : \A p \in Nodes \ {n} : \A a \in Underway(p) : a # adr[n]  BY DEF Settled
  <2>2. \A n \in Nodes : \A a : <<a>> = <<adr[n]>> => a = adr[n]  OBVIOUS
  <2>3. \A n \in Nodes : <<>> # <<adr[n]>> /\ heard[n] # <<adr[n]>>  BY DEF Settled
  <2> QED  BY <2>1, <2>2, <2>3 DEF Quiet
<1>2. ASSUME NEW n \in Nodes, NEW o \in Nodes \ {n}
      PROVE  adr[n] # adr[o] /\ adr[n] \notin Underway(o)'
  <2>1. adr[n] # adr[o] /\ adr[n] \notin Underway(o)  BY DEF Settled
  <2>2. Underway(o)' \subseteq Underway(o) \cup {adr[o]}  BY DEF Quiet
  <2> QED  BY <2>1, <2>2
<1> QED  BY <1>1, <1>2 DEF Settled, Quiet

-----------------------------------------------------------------------------
(* The shapes of the variables                                             *)

\* The shapes at the start.
LEMMA InitShapes == AInit => Shapes
<1> SUFFICES ASSUME AInit PROVE Shapes  OBVIOUS
<1>1. \A n \in Nodes : NoAnswer.adr \in Addresses  BY AddressAssumption DEF NoAnswer
<1>2. adr \in [Nodes -> Addresses] /\ as = adr  BY DEF AInit, AddressInit
<1>3. DOMAIN tx = Nodes  BY DEF AInit, LInit
<1> QED  BY <1>1, <1>2, <1>3 DEF AInit, AddressInit, Shapes, NoAnswer

\* No step changes the shapes.
LEMMA StepShapes == Shapes /\ [ANext]_avars => Shapes'
<1> SUFFICES ASSUME Shapes, [ANext]_avars PROVE Shapes'  OBVIOUS
<1>1. ASSUME NEW m \in Messages, StartPacket(m) PROVE Shapes'
  <2>1. m.key.src \in Nodes  BY LinkAssumption
  <2> QED  BY <1>1, <2>1 DEF StartPacket, SendPacket, Shapes
<1>2. ASSUME NEW n \in Nodes, WriteField(n) PROVE Shapes'
  BY <1>2 DEF WriteField, Shapes
<1>3. ASSUME NEW n \in Nodes, SendTurn(n) PROVE Shapes'
  BY <1>3 DEF SendTurn, Broadcast, Shapes
<1>4. ASSUME NEW n \in Nodes, WriteAnswer(n) PROVE Shapes'
  BY <1>4 DEF WriteAnswer, Shapes
<1>5. ASSUME NEW n \in Nodes, SendAnswer(n) PROVE Shapes'
  <2>1. NoAnswer.adr \in Addresses /\ DOMAIN NoAnswer = {"at", "adr"}  BY AddressAssumption DEF NoAnswer
  <2> QED  BY <1>5, <2>1 DEF SendAnswer, Broadcast, Shapes
<1>6. ASSUME NEW n \in Nodes, Hear(n) PROVE Shapes'
  BY <1>6 DEF Hear, Shapes
<1>7. ASSUME NEW n \in Nodes, NEW a \in Addresses, Move(n, a) PROVE Shapes'
  BY <1>7 DEF Move, Shapes
<1>8. ASSUME NEW sz \in DestSizes, ReadAddressed(sz) PROVE Shapes'
  BY <1>8 DEF ReadAddressed, address, Shapes
<1>9. CASE UNCHANGED avars
  BY <1>9 DEF avars, lvars, link, address, Shapes
<1> QED  BY <1>1, <1>2, <1>3, <1>4, <1>5, <1>6, <1>7, <1>8, <1>9 DEF ANext, NodeStep

-----------------------------------------------------------------------------
(* Steps in a settled state                                                *)

\* send_packet() adds the address of the node itself.
LEMMA StartQuiet ==
  ASSUME Shapes, NEW m \in Messages, StartPacket(m)
  PROVE  Quiet
<1> DEFINE n == m.key.src
<1>1. n \in Nodes  BY LinkAssumption
<1>2. UNCHANGED <<adr, txmsg, heard, answer>>  BY DEF StartPacket
<1>3. as'[n] = adr[n] /\ pc'[n] \in {"id", "data"} /\ (pc'[n] = "data" => ~(tx'[n].msg.len <= 8))
  BY <1>1 DEF StartPacket, SendPacket, Shapes
<1>4. \A o \in Nodes \ {n} : as'[o] = as[o] /\ pc'[o] = pc[o] /\ tx'[o] = tx[o]
  BY <1>1 DEF StartPacket, SendPacket, Shapes
<1>5. Written(n)' => Written(n)  BY <1>2, <1>3 DEF Written
<1>6. \A o \in Nodes \ {n} : Underway(o)' = Underway(o)  BY <1>2, <1>4 DEF Underway, Written
<1>7. Underway(n)' \subseteq Underway(n) \cup {adr[n]}  BY <1>2, <1>3, <1>5 DEF Underway
<1> QED  BY <1>2, <1>6, <1>7 DEF Quiet

\* A field that send_packet() writes into txmsg has the address that it took.
LEMMA WriteQuiet ==
  ASSUME Shapes, NEW n \in Nodes, WriteField(n)
  PROVE  Quiet
<1>1. UNCHANGED <<adr, as, heard, answer, tx>>  BY DEF WriteField
<1>2. \A o \in Nodes \ {n} : pc'[o] = pc[o] /\ txmsg'[o] = txmsg[o]
  BY DEF WriteField, Shapes
<1>3. \A o \in Nodes \ {n} : Underway(o)' = Underway(o)  BY <1>1, <1>2 DEF Underway, Written
<1>4. Underway(n)' \subseteq Underway(n)
  <2>1. CASE pc[n] = "id"
    <3>1. txmsg'[n].key.src = as[n]  BY <2>1 DEF WriteField, Shapes
    <3> QED  BY <1>1, <2>1, <3>1 DEF Underway
  <2>2. CASE pc[n] # "id"
    <3>1. txmsg'[n].key = txmsg[n].key  BY <2>2 DEF WriteField, Shapes
    <3>2. Written(n)' => Written(n)
      BY <1>1, <2>2 DEF WriteField, Shapes, Following, Written
    <3>3. pc[n] # "idle"  BY DEF WriteField
    <3> QED  BY <1>1, <3>1, <3>2, <3>3 DEF Underway
  <2> QED  BY <2>1, <2>2
<1> QED  BY <1>1, <1>3, <1>4 DEF Quiet

\* What the other nodes hear is what txmsg holds.
LEMMA SendQuiet ==
  ASSUME Shapes, NEW n \in Nodes, SendTurn(n)
  PROVE  Quiet
<1>1. UNCHANGED <<adr, as, answer, txmsg>>  BY DEF SendTurn, Broadcast
<1>2. pc[n] = "send" /\ Written(n)  BY DEF SendTurn, Written
<1>3. \A o \in Nodes \ {n} : pc'[o] = pc[o] /\ tx'[o] = tx[o]  BY DEF SendTurn, Shapes
<1>4. \A o \in Nodes \ {n} : Underway(o)' = Underway(o)  BY <1>1, <1>3 DEF Underway, Written
<1>5. Underway(n)' \subseteq Underway(n)  BY <1>1, <1>2 DEF Underway
<1>6. \A o \in Nodes \ {n} : heard'[o] = <<txmsg[n].key.src>>  BY DEF SendTurn, Broadcast
<1>7. txmsg[n].key.src \in Underway(n)  BY <1>2 DEF Underway
<1>8. heard'[n] = heard[n]  BY DEF SendTurn, Broadcast
<1> QED  BY <1>1, <1>4, <1>5, <1>6, <1>7, <1>8 DEF Quiet

\* A field that sendAddressing() writes has the address that it announces.
LEMMA AnswerQuiet ==
  ASSUME Shapes, NEW n \in Nodes, WriteAnswer(n)
  PROVE  Quiet
<1>1. UNCHANGED <<adr, as, heard, pc, tx>>  BY DEF WriteAnswer
<1>2. \A o \in Nodes \ {n} : answer'[o] = answer[o] /\ txmsg'[o] = txmsg[o]
  BY DEF WriteAnswer, Shapes
<1>3. \A o \in Nodes \ {n} : Underway(o)' = Underway(o)  BY <1>1, <1>2 DEF Underway, Written
<1>4. answer'[n].adr = answer[n].adr /\ answer[n].at # "none"
  BY DEF WriteAnswer, Shapes
<1>5. Underway(n)' \subseteq Underway(n)
  <2>1. CASE answer[n].at = "id"
    <3>1. txmsg'[n].key.src = answer[n].adr  BY <2>1 DEF WriteAnswer, Shapes
    <3> QED  BY <1>1, <1>4, <3>1 DEF Underway
  <2>2. CASE answer[n].at = "dlc"
    <3>1. txmsg'[n].key = txmsg[n].key  BY <2>2 DEF WriteAnswer, Shapes
    <3>2. Written(n)  BY <2>2 DEF Written
    <3> QED  BY <1>1, <1>4, <3>1, <3>2 DEF Underway
  <2> QED  BY <2>1, <2>2 DEF WriteAnswer
<1> QED  BY <1>1, <1>3, <1>5 DEF Quiet

\* The announcement is heard with the address in txmsg.
LEMMA AnnounceQuiet ==
  ASSUME Shapes, NEW n \in Nodes, SendAnswer(n)
  PROVE  Quiet
<1>1. UNCHANGED <<adr, as, pc, txmsg, tx>>  BY DEF SendAnswer, Broadcast
<1>2. answer[n].at = "send" /\ Written(n)  BY DEF SendAnswer, Written
<1>3. answer'[n].at = "none" /\ \A o \in Nodes \ {n} : answer'[o] = answer[o]
  BY DEF SendAnswer, NoAnswer, Shapes
<1>4. \A o \in Nodes \ {n} : Underway(o)' = Underway(o)  BY <1>1, <1>3 DEF Underway, Written
<1>5. Underway(n)' \subseteq Underway(n)  BY <1>1, <1>2, <1>3 DEF Underway
<1>6. \A o \in Nodes \ {n} : heard'[o] = <<txmsg[n].key.src>>  BY DEF SendAnswer, Broadcast
<1>7. txmsg[n].key.src \in Underway(n)  BY <1>2 DEF Underway
<1>8. heard'[n] = heard[n]  BY DEF SendAnswer, Broadcast
<1> QED  BY <1>1, <1>4, <1>5, <1>6, <1>7, <1>8 DEF Quiet

\* A frame without conflict is forgotten.
LEMMA HearQuiet ==
  ASSUME Shapes, NEW n \in Nodes, Hear(n)
  PROVE  Quiet
<1>1. UNCHANGED <<adr, txmsg, pc, as, answer, tx>>  BY DEF Hear
<1>2. \A o \in Nodes : heard'[o] \in {heard[o], <<>>}  BY DEF Hear, Shapes
<1>3. \A o \in Nodes : Underway(o)' = Underway(o)  BY <1>1 DEF Underway, Written
<1> QED  BY <1>1, <1>2, <1>3 DEF Quiet

\* Where addresses have settled no node finds its own in a frame.
LEMMA NoMove ==
  ASSUME Shapes, Settled, NEW n \in Nodes, NEW a \in Addresses, Move(n, a)
  PROVE  FALSE
<1>1. heard[n] # <<adr[n]>> /\ heard[n] = <<heard[n][1]>>  BY DEF Settled, Shapes, Move
<1>2. heard[n][1] = adr[n]  BY DEF Move, Conflicts
<1> QED  BY <1>1, <1>2

\* The frames of nodes whose addresses differ change no address, for any number of
\* nodes and whatever they send: nodes that have found their addresses keep them.
THEOREM AddressesStay == ASpec => SettledStay
<1>1. Shapes /\ [ANext]_avars => (Settled => Settled' /\ UNCHANGED adr)
  <2> SUFFICES ASSUME Shapes, Settled, [ANext]_avars PROVE Settled' /\ UNCHANGED adr  OBVIOUS
  <2>1. ASSUME NEW m \in Messages, StartPacket(m) PROVE Quiet  BY <2>1, StartQuiet
  <2>2. ASSUME NEW n \in Nodes, NodeStep(n) PROVE Quiet
    BY <2>2, WriteQuiet, SendQuiet, AnswerQuiet, AnnounceQuiet, HearQuiet DEF NodeStep
  <2>3. ASSUME NEW n \in Nodes, NEW a \in Addresses, Move(n, a) PROVE Quiet  BY <2>3, NoMove
  <2>4. ASSUME NEW sz \in DestSizes, ReadAddressed(sz) PROVE Quiet
    BY <2>4 DEF ReadAddressed, address, Quiet, Underway, Written
  <2>5. CASE UNCHANGED avars
    <3>1. UNCHANGED <<address, link>>  BY <2>5 DEF avars, lvars
    <3>2. UNCHANGED <<adr, txmsg, pc, as, heard, answer, tx>>  BY <3>1 DEF link, address
    <3>3. \A n \in Nodes : Underway(n)' = Underway(n)  BY <3>2 DEF Underway, Written
    <3> QED  BY <3>2, <3>3, QuietSettled DEF Quiet
  <2> QED  BY <2>1, <2>2, <2>3, <2>4, <2>5, QuietSettled DEF ANext
<1>2. Shapes /\ [ANext]_avars => [Settled => Settled' /\ UNCHANGED adr]_avars  BY <1>1
<1> QED  BY <1>2, InitShapes, StepShapes, PTL DEF ASpec, SettledStay

-----------------------------------------------------------------------------
(* Shared addresses: whose bytes a packet is made of                       *)

\* x is a byte of a message of node n.
OfNode(n, x) == \E m \in Messages : m.key.src = n /\ x \in {m} \X (-2 .. m.len)

\* All bytes in the memory of a frame are of messages of node n.
OwnBlock(n, d) == \A i \in 1 .. 8 : OfNode(n, d[i])

\* They are of messages of nodes that had address a, as h tells.
Named(h, a, d) == \A i \in 1 .. 8 : \E n \in Nodes : a \in h[n] /\ OfNode(n, d[i])

\* A packet of several frames in the pool names a node that each of its bytes is of.
NamedTree(p, t, h) ==
    LET body == Body(p, t)
    IN  \/ Len(body) = 1 /\ p.trees[t].dlc # 0
        \/ \A j \in 1 .. Len(body) : Named(h, p.trees[t].key.src, body[j])

\* What node n is sending, and the fields of its txmsg.
NodeTurn(n) ==
    /\ tx[n] \in Sending \cup {Idle}
    /\ pc[n] = "idle" <=> tx[n] = Idle
    /\ tx[n] # Idle => tx[n].msg.key.src = n
    /\ txdata[n] \in Blocks
    /\ txmsg[n].frm \in Frames /\ txmsg[n].dlc \in 0 .. 8

\* txdata has nothing but bytes of the node's own messages before the id of a frame of
\* several is written, by whichever thread that frame is then sent.
NodeFill(n) ==
    \/ OwnBlock(n, txdata[n])
    \/ /\ \/ tx[n] = Idle \/ tx[n].frm = frm_single
          \/ tx[n].frm = frm_start /\ pc[n] = "data"
       /\ Written(n) => txmsg[n].frm = frm_single

\* What the nodes hold.
Nodewise == \A n \in Nodes : NodeTurn(n) /\ NodeFill(n)

\* The addresses that a node's frames have are addresses that it had.
HadInv == \A n \in Nodes : adr[n] \in had[n] /\ Underway(n) \subseteq had[n]

\* A packet in the pool names a node that its bytes are of.
PoolInv == IInv /\ \A t \in Used(Pool) : NamedTree(Pool, t, had)

AddressInv ==
    /\ Shapes /\ DOMAIN txdata = Nodes /\ DOMAIN had = Nodes
    /\ Nodewise /\ HadInv /\ PoolInv

\* What is being sent is not nothing.
LEMMA NotIdle == \A t \in Sending : t # Idle
<1> SUFFICES ASSUME NEW t \in Sending PROVE t # Idle  OBVIOUS
<1>1. DOMAIN t # DOMAIN Idle
  <2>1. "frm" \in DOMAIN t /\ "frm" \notin DOMAIN Idle  BY DEF Idle, Sending
  <2> QED  BY <2>1
<1> QED  BY <1>1

\* A turn keeps what is in txdata or overwrites it with bytes of the node; the first of a
\* packet of several frames overwrites all.
LEMMA TurnOwn ==
  ASSUME NEW n \in Nodes, NEW t \in Sending, t.msg.key.src = n, NEW old \in Blocks,
         NEW b, b = Turn(t).bytes,
         NEW data, data = [i \in 1 .. 8 |-> IF i <= Len(b) THEN b[i] ELSE old[i]],
         OwnBlock(n, old) \/ t.frm = frm_start
  PROVE  OwnBlock(n, data)
<1>1. PICK m \in Messages, src \in Nat, cnt \in Nat : m = t.msg /\ src = t.src /\ cnt = t.cnt
  BY DEF Sending
<1>2. PICK len \in Nat : len = m.len  BY LinkAssumption
<1>3. \/ t.frm = frm_single /\ len <= 8 /\ src = 0 /\ cnt = len
      \/ /\ len > 8 /\ cnt > 0 /\ src + cnt = len + 2
         /\ t.frm = frm_start => cnt > 8
  BY <1>1, <1>2, FrameKinds DEF Sending
<1>4. PICK k \in 0 .. 8 : k = IF cnt <= 8 THEN cnt ELSE 8  OBVIOUS
<1>5. Len(b) = k /\ \A i \in 1 .. k : b[i] = Sent(m)[src + i]
  BY <1>1, <1>4, TurnSends DEF Part
<1>6. ASSUME NEW i \in 1 .. 8, i <= k PROVE OfNode(n, b[i])
  <2> DEFINE x == Sent(m)
             T == {m} \X (-2 .. m.len)
             l == IF len <= 8 THEN len ELSE len + 2
  <2>1. x \in Seq(T) /\ Len(x) = l  BY <1>2, SentType
  <2>2. src + i \in 1 .. l  BY <1>3, <1>4, <1>6
  <2> HIDE DEF x, T, l
  <2>3. x[src + i] \in T  BY <2>1, <2>2
  <2>4. b[i] = Sent(m)[src + i]  BY <1>5, <1>6
  <2> QED  BY <1>1, <2>3, <2>4 DEF OfNode, x, T
<1>7. ASSUME NEW i \in 1 .. 8, ~(i <= k) PROVE OfNode(n, old[i])
  <2>1. t.frm # frm_start  BY <1>3, <1>4, <1>7, FrameKinds
  <2> QED  BY <1>7, <2>1 DEF OwnBlock
<1>8. \A i \in 1 .. 8 : data[i] = IF i <= k THEN b[i] ELSE old[i]  BY <1>5
<1> QED  BY <1>6, <1>7, <1>8 DEF OwnBlock

\* A packet stays as it is when nodes had more addresses.
LEMMA SameNamed ==
  ASSUME NEW p, NEW q, NEW t, Same(p, q, t), NEW h, NEW g, \A n \in Nodes : h[n] \subseteq g[n],
         NamedTree(p, t, h)
  PROVE  NamedTree(q, t, g)
<1>1. \A a, d : Named(h, a, d) => Named(g, a, d)  BY DEF Named
<1> QED  BY <1>1 DEF Same, NamedTree

\* What a push makes of the pool: a frame of a packet of several names a node that each
\* of its bytes is of.
LEMMA PushNamed ==
  ASSUME IInv, NEW w, w.frm \in Frames, w.data \in Blocks, w.dlc \in 0 .. 8, PushMessage(w),
         NEW h, w.frm # frm_single => Named(h, w.key.src, w.data),
         \A t \in Used(Pool) : NamedTree(Pool, t, h)
  PROVE  IInv' /\ \A t \in Used(Pool') : NamedTree(Pool', t, h)
<1> DEFINE p == Pool
           q == Pool'
<1>1. \A t : Same(p, q, t) /\ t \in Used(p) => NamedTree(q, t, h)  BY SameNamed
<1>2. ASSUME q = p PROVE \A t \in Used(q) : NamedTree(q, t, h)  BY <1>2
<1>3. CASE w.key \notin Accepted /\ Return("MsgAccepted") /\ UNCHANGED <<trees, items, free>>
  <2>1. q = p /\ rv' \in Results  BY <1>3 DEF Pool, Return, Results
  <2>2. IInv'  BY <2>1 DEF IInv
  <2> QED  BY <1>2, <2>1, <2>2
<1>4. CASE Push(w.key, w.frm, w.data, w.dlc) /\ w.key \in Accepted
  <2>1. w.key \in Keys /\ w.dlc \in Dlcs  BY <1>4, LinkAssumption
  <2>2. /\ IInv'
        /\ \/ Refused(p, q, w.key)
           \/ q = p
           \/ /\ w.frm \in {frm_start, frm_single}
              /\ \E t : Begun(p, q, t, w.key, w.data,
                             IF w.frm = frm_start THEN 0 ELSE IF w.dlc > 0 THEN w.dlc ELSE ZeroLength)
           \/ /\ w.frm \in SeqFrames \cup {frm_end}
              /\ \E t : Extended(p, q, t, w.key, w.data, IF w.frm = frm_end THEN w.dlc ELSE 0)
    BY <1>4, <2>1, PushCases
  <2>3. WellFormed(p)  BY DEF IInv, Good
  <2> HIDE DEF p, q
  <2>4. CASE Refused(p, q, w.key)
    <3>1. \A t \in Used(q) : Same(p, q, t)  BY <2>4 DEF Refused
    <3>2. \A t \in Used(q) : t \in Used(p)  BY <3>1 DEF Same
    <3> QED  BY <1>1, <2>2, <3>1, <3>2 DEF q
  <2>5. ASSUME NEW t, NEW last, w.frm \in {frm_start, frm_single},
               last = (IF w.frm = frm_start THEN 0 ELSE IF w.dlc > 0 THEN w.dlc ELSE ZeroLength),
               Begun(p, q, t, w.key, w.data, last)
        PROVE  \A u \in Used(q) : NamedTree(q, u, h)
    <3> DEFINE b == Body(q, t)
    <3>1. /\ b = <<w.data>> /\ q.trees[t].key = w.key /\ q.trees[t].dlc = last
          /\ \A u \in Used(q) \ {t} : u \in Used(p) /\ Same(p, q, u)
      BY <2>5 DEF Begun
    <3>2. Len(b) = 1 /\ b[1] = w.data  BY <3>1
    <3> HIDE DEF b
    <3>3. NamedTree(q, t, h)
      <4>1. CASE w.frm = frm_start
        <5>1. Named(h, q.trees[t].key.src, b[1])  BY <3>1, <3>2, <4>1, FrameKinds
        <5>2. \A j \in 1 .. 1 : j = 1  OBVIOUS
        <5> QED  BY <3>2, <5>1, <5>2 DEF NamedTree, b
      <4>2. CASE w.frm # frm_start
        <5>1. last # 0  BY <2>5, <4>2 DEF ZeroLength
        <5> QED  BY <3>1, <3>2, <5>1 DEF NamedTree, b
      <4> QED  BY <4>1, <4>2
    <3> QED  BY <1>1, <3>1, <3>3 DEF p, q
  <2>6. ASSUME NEW t, NEW last, w.frm \in SeqFrames \cup {frm_end},
               Extended(p, q, t, w.key, w.data, last)
        PROVE  \A u \in Used(q) : NamedTree(q, u, h)
    <3> DEFINE a == Body(p, t)
               b == Body(q, t)
    <3>1. /\ Working(p, w.key) = {t} /\ b = Append(a, w.data) /\ q.trees[t].key = w.key
          /\ Used(q) = Used(p) /\ \A u \in Used(p) \ {t} : Same(p, q, u)
      BY <2>6 DEF Extended
    <3>2. t \in Used(p) /\ p.trees[t].dlc = 0 /\ p.trees[t].key = w.key
      BY <3>1 DEF Working, Partial
    <3>3. \A j \in 1 .. Len(a) : Named(h, w.key.src, a[j])  BY <3>2 DEF NamedTree, p
    <3>4. a \in Seq(Blocks)  BY <2>3, <3>2, BodyType
    <3> HIDE DEF a
    <3>5. Named(h, w.key.src, w.data)  BY <2>6, FrameKinds
    <3>6. PICK n \in Nat : n = Len(a)  BY <3>4
    <3>7. Len(b) = n + 1 /\ b[n + 1] = w.data /\ \A j \in 1 .. n : b[j] = a[j]
      BY <3>1, <3>4, <3>6, AppendProperties
    <3> HIDE DEF b
    <3>8. \A j \in 1 .. n + 1 : j \in 1 .. n \/ j = n + 1  OBVIOUS
    <3>9. \A j \in 1 .. n + 1 : Named(h, w.key.src, b[j])  BY <3>3, <3>5, <3>6, <3>7, <3>8
    <3>10. NamedTree(q, t, h)  BY <3>1, <3>7, <3>9 DEF NamedTree, b
    <3> QED  BY <1>1, <3>1, <3>10 DEF p, q
  <2> QED  BY <1>2, <2>2, <2>4, <2>5, <2>6 DEF p, q
<1> QED  BY <1>3, <1>4 DEF PushMessage

\* The last byte of the buffer, by its place in a block.
LEMMA ContentLast ==
  ASSUME NEW c, NEW w \in Nat, NEW r \in 1 .. 8, c.size - 2 = 8 * w + r
  PROVE  Content(c)[Len(Content(c))] = c.blocks[w + 1][r]
<1> DEFINE b == Content(c)
<1>1. PICK L \in Nat : L = c.size - 2  OBVIOUS
<1>2. /\ Len(b) = L
      /\ \A v \in Nat : \A i \in 1 .. 8 : 8 * v + i \in 1 .. L => b[8 * v + i] = c.blocks[v + 1][i]
  BY <1>1, ContentAt
<1> HIDE DEF b
<1>3. L = 8 * w + r /\ 8 * w + r \in 1 .. L  BY <1>1
<1>4. b[8 * w + r] = c.blocks[w + 1][r]  BY <1>2, <1>3
<1> QED  BY <1>2, <1>3, <1>4 DEF b

\* The last byte of what read_packet returns of a packet with a CRC.
LEMMA LastNamed ==
  ASSUME NEW p, WellFormed(p), NEW t \in Finished(p), NEW sz \in Nat \ {0, 1},
         NEW h, NamedTree(p, t, h), NEW c, c = Copy(p, t, sz), c.size > 10
  PROVE  \E n \in Nodes : c.key.src \in h[n] /\ OfNode(n, Content(c)[Len(Content(c))])
<1> DEFINE body == Body(p, t)
           last == p.trees[t].dlc
           b    == Content(c)
<1>1. /\ body \in Seq(Blocks) /\ Len(body) \in Nat \ {0} /\ last \in 1 .. 8 \cup {ZeroLength}
      /\ c.key = p.trees[t].key
      /\ \E full \in Nat, fits \in BOOLEAN : CopyOf(c, body, Len(body), last, sz, full, fits)
  BY CopyIs
<1> HIDE DEF body, last
<1>2. PICK n \in Nat, full \in Nat, fits \in BOOLEAN :
          n = Len(body) /\ n > 0 /\ CopyOf(c, body, n, last, sz, full, fits)
  BY <1>1
<1>3. /\ full \in 0 .. n - 1
      /\ fits => full = n - 1 /\ last \in 1 .. 8
      /\ c.size = 2 + 8 * full + (IF fits THEN last ELSE 0)
      /\ \A j \in 1 .. (IF fits THEN n ELSE full) : c.blocks[j] = body[j]
  BY <1>2 DEF CopyOf
<1>4. PICK w \in Nat, r \in 1 .. 8 :
          /\ c.size - 2 = 8 * w + r
          /\ w + 1 \in 1 .. (IF fits THEN n ELSE full)
  <2>1. CASE fits
    <3>1. c.size - 2 = 8 * full + last /\ full + 1 \in 1 .. n  BY <1>3, <2>1
    <3> QED  BY <1>3, <2>1, <3>1
  <2>2. CASE ~fits
    <3>1. full > 0  BY <1>3, <2>2
    <3>2. PICK v \in Nat : full = v + 1
      <4>1. full - 1 \in Nat /\ full = (full - 1) + 1  BY <3>1
      <4> QED  BY <4>1
    <3>3. c.size - 2 = 8 * v + 8 /\ v + 1 \in 1 .. full  BY <1>3, <2>2, <3>2
    <3> QED  BY <2>2, <3>3
  <2> QED  BY <2>1, <2>2
<1>5. b[Len(b)] = c.blocks[w + 1][r]  BY <1>4, ContentLast
<1>6. n # 1
  <2>1. ASSUME n = 1 PROVE c.size <= 10
    <3>1. full = 0  BY <1>3, <2>1
    <3> QED  BY <1>3, <3>1
  <2>2. c.size \in Nat  BY <1>3
  <2> QED  BY <2>1, <2>2
<1>7. w + 1 \in 1 .. n  BY <1>3, <1>4
<1>8. Named(h, c.key.src, body[w + 1])
  BY <1>1, <1>2, <1>6, <1>7 DEF NamedTree, body
<1>9. c.blocks[w + 1] = body[w + 1]  BY <1>3, <1>4
<1> HIDE DEF b
<1> QED  BY <1>5, <1>8, <1>9 DEF Named, b

\* A node of which nothing changes.
LEMMA OtherNode ==
  ASSUME Nodewise, NEW o \in Nodes, tx'[o] = tx[o], pc'[o] = pc[o], txdata'[o] = txdata[o],
         txmsg'[o] = txmsg[o], answer'[o] = answer[o]
  PROVE  NodeTurn(o)' /\ NodeFill(o)'
BY DEF Nodewise, NodeTurn, NodeFill, Written

\* send_packet() until its first turn.
LEMMA StartNodes ==
  ASSUME Shapes, Nodewise, NEW m \in Messages, StartPacket(m)
  PROVE  Nodewise'
<1> DEFINE n == m.key.src
           t == [msg |-> m, frm |-> IF m.len <= 8 THEN frm_single ELSE frm_start, src |-> 0,
                 cnt |-> IF m.len <= 8 THEN m.len ELSE m.len + 2]
<1>1. n \in Nodes  BY LinkAssumption
<1>2. tx' = [tx EXCEPT ![n] = t] /\ UNCHANGED <<txdata, txmsg, answer>> /\ tx[n] = Idle
  BY DEF StartPacket, SendPacket
<1>3. t \in Sending /\ t # Idle  BY FirstTurn, NotIdle
<1>4. t.msg = m /\ t.frm = IF m.len <= 8 THEN frm_single ELSE frm_start  OBVIOUS
<1> HIDE DEF t
<1>5. tx'[n] = t /\ pc'[n] = IF m.len <= 8 THEN "id" ELSE "data"
  BY <1>1, <1>2 DEF StartPacket, Shapes
<1>6. \A o \in Nodes \ {n} : tx'[o] = tx[o] /\ pc'[o] = pc[o]
  BY <1>1, <1>2 DEF StartPacket, Shapes
<1>7. NodeTurn(n) /\ NodeFill(n)  BY <1>1 DEF Nodewise
<1>8. NodeTurn(n)'
  BY <1>2, <1>3, <1>4, <1>5, <1>7 DEF NodeTurn, n
<1>9. NodeFill(n)'
  <2>1. Written(n)' => Written(n)  BY <1>2, <1>4, <1>5 DEF Written
  <2> QED  BY <1>2, <1>4, <1>5, <1>7, <2>1 DEF NodeFill
<1> HIDE DEF n
<1>10. ASSUME NEW o \in Nodes PROVE NodeTurn(o)' /\ NodeFill(o)'
  <2>1. CASE o = n  BY <1>8, <1>9, <2>1
  <2>2. CASE o # n  BY <1>2, <1>6, <2>2, OtherNode
  <2> QED  BY <2>1, <2>2
<1> QED  BY <1>10 DEF Nodewise

\* A field of the frame of a turn.
LEMMA WriteNodes ==
  ASSUME Shapes, DOMAIN txdata = Nodes, Nodewise, NEW n \in Nodes, WriteField(n)
  PROVE  Nodewise'
<1> DEFINE b    == Turn(tx[n]).bytes
           data == [i \in 1 .. 8 |-> IF i <= Len(b) THEN b[i] ELSE txdata[n][i]]
<1>1. /\ pc[n] \in {"data", "id", "dlc"} /\ UNCHANGED <<tx, answer>>
      /\ pc' = [pc EXCEPT ![n] = Following(tx[n].msg.len <= 8, pc[n])]
      /\ txdata' = IF pc[n] = "data" THEN [txdata EXCEPT ![n] = data] ELSE txdata
  BY DEF WriteField
<1>2. NodeTurn(n) /\ NodeFill(n) /\ DOMAIN txmsg[n] = {"key", "frm", "dlc"}
  BY DEF Nodewise, Shapes
<1>3. tx[n] \in Sending /\ tx[n] # Idle /\ tx[n].msg.key.src = n /\ txdata[n] \in Blocks
  BY <1>1, <1>2 DEF NodeTurn
<1>4. pc'[n] = Following(tx[n].msg.len <= 8, pc[n]) /\ pc'[n] \in {"id", "dlc", "data", "send"}
  BY <1>1 DEF Shapes, Following
<1>5. /\ txdata'[n] = IF pc[n] = "data" THEN data ELSE txdata[n]
      /\ \A o \in Nodes \ {n} : pc'[o] = pc[o] /\ txmsg'[o] = txmsg[o] /\ txdata'[o] = txdata[o]
  BY <1>1 DEF WriteField, Shapes
<1>6. data \in Blocks /\ (OwnBlock(n, txdata[n]) \/ tx[n].frm = frm_start => OwnBlock(n, data))
  <2>1. data \in Blocks
    <3>1. TurnData(tx[n], Min({tx[n].cnt, 8}), data)  BY <1>3, TurnBytes
    <3> QED  BY <3>1 DEF TurnData
  <2> QED  BY <1>3, <2>1, TurnOwn
<1>7. Turn(tx[n]).frm = IF tx[n].frm = frm_single \/ tx[n].cnt > 8 THEN tx[n].frm ELSE frm_end
  BY <1>3, TurnSends
<1>8. Min({tx[n].cnt, 8}) \in 0 .. 8
  <2>1. Min({tx[n].cnt, 8}) = IF tx[n].cnt <= 8 THEN tx[n].cnt ELSE 8  BY <1>3, TurnSends
  <2>2. tx[n].cnt \in Nat  BY <1>3 DEF Sending
  <2> QED  BY <2>1, <2>2
<1> HIDE DEF data, b
<1>9. txmsg'[n].frm \in Frames /\ txmsg'[n].dlc \in 0 .. 8
  <2>1. Turn(tx[n]).frm \in Frames  BY <1>3, <1>7, FrameKinds DEF Sending
  <2>2. CASE pc[n] = "id"  BY <1>2, <2>1, <2>2 DEF WriteField, Shapes, NodeTurn
  <2>3. CASE pc[n] = "dlc"  BY <1>2, <1>8, <2>3 DEF WriteField, Shapes, NodeTurn
  <2>4. CASE pc[n] = "data"  BY <1>2, <2>4 DEF WriteField, NodeTurn
  <2> QED  BY <1>1, <2>2, <2>3, <2>4
<1>10. NodeTurn(n)'
  BY <1>1, <1>2, <1>3, <1>4, <1>5, <1>6, <1>9 DEF NodeTurn
<1>11. NodeFill(n)'
  <2>1. CASE OwnBlock(n, txdata[n]) \/ (pc[n] = "data" /\ tx[n].frm = frm_start)
    <3>1. OwnBlock(n, txdata'[n])  BY <1>5, <1>6, <2>1
    <3> QED  BY <3>1 DEF NodeFill
  <2>2. CASE ~OwnBlock(n, txdata[n]) /\ ~(pc[n] = "data" /\ tx[n].frm = frm_start)
    <3>1. tx[n].frm = frm_single /\ (Written(n) => txmsg[n].frm = frm_single)
      BY <1>2, <1>3, <2>2 DEF NodeFill
    <3>2. tx[n].msg.len <= 8  BY <1>3, <3>1, FrameKinds DEF Sending
    <3>3. txmsg'[n].frm = frm_single
      <4>1. CASE pc[n] = "id"
        <5>1. txmsg'[n].frm = Turn(tx[n]).frm  BY <1>2, <4>1 DEF WriteField, Shapes
        <5> QED  BY <1>7, <3>1, <5>1
      <4>2. CASE pc[n] = "dlc"
        <5>1. Written(n)  BY <4>2 DEF Written
        <5>2. txmsg'[n].frm = txmsg[n].frm  BY <1>2, <4>2 DEF WriteField, Shapes
        <5> QED  BY <3>1, <5>1, <5>2
      <4>3. CASE pc[n] = "data"
        <5>1. Written(n)  BY <3>2, <4>3 DEF Written
        <5>2. txmsg'[n] = txmsg[n]  BY <4>3 DEF WriteField
        <5> QED  BY <3>1, <5>1, <5>2
      <4> QED  BY <1>1, <4>1, <4>2, <4>3
    <3>4. tx'[n].frm = frm_single  BY <1>1, <3>1
    <3> QED  BY <3>3, <3>4 DEF NodeFill
  <2> QED  BY <2>1, <2>2
<1>12. ASSUME NEW o \in Nodes PROVE NodeTurn(o)' /\ NodeFill(o)'
  <2>1. CASE o = n  BY <1>10, <1>11, <2>1
  <2>2. CASE o # n  BY <1>1, <1>5, <2>2, OtherNode
  <2> QED  BY <2>1, <2>2
<1> QED  BY <1>12 DEF Nodewise

\* The frame of a turn is sent.
LEMMA SendNodes ==
  ASSUME Shapes, Nodewise, NEW n \in Nodes, SendTurn(n)
  PROVE  Nodewise'
<1>1. PICK t, dlc : t = tx[n] /\ dlc = Min({t.cnt, 8})  OBVIOUS
<1>2. /\ pc[n] = "send" /\ UNCHANGED <<txdata, txmsg, answer>>
      /\ tx' = [tx EXCEPT ![n] = IF t.cnt = dlc THEN Idle ELSE NextTurn(t, dlc)]
      /\ pc' = [pc EXCEPT ![n] = IF t.cnt = dlc THEN "idle" ELSE "data"]
  BY <1>1 DEF SendTurn, Broadcast, NextTurn
<1>3. NodeTurn(n) /\ NodeFill(n) /\ Written(n)  BY <1>2 DEF Nodewise, Written
<1>4. t \in Sending /\ t # Idle /\ t.msg.key.src = n  BY <1>1, <1>2, <1>3 DEF NodeTurn
<1>5. /\ tx'[n] = IF t.cnt = dlc THEN Idle ELSE NextTurn(t, dlc)
      /\ pc'[n] = IF t.cnt = dlc THEN "idle" ELSE "data"
      /\ \A o \in Nodes \ {n} : tx'[o] = tx[o] /\ pc'[o] = pc[o]
  BY <1>2 DEF Shapes
<1>6. t.cnt # dlc => NextTurn(t, dlc) \in Sending
  <2> DEFINE b    == Turn(t).bytes
             data == [i \in 1 .. 8 |-> IF i <= Len(b) THEN b[i] ELSE txdata[n][i]]
             w    == [key |-> t.msg.key, msg |-> t.msg, data |-> data, dlc |-> dlc,
                      frm |-> IF t.frm = frm_single \/ t.cnt > 8 THEN t.frm ELSE frm_end]
  <2>1. TurnData(t, dlc, data)  BY <1>1, <1>3, <1>4, TurnBytes DEF NodeTurn
  <2> HIDE DEF data, b
  <2>2. FrameOf(w, t) /\ w.dlc = dlc  BY <2>1 DEF FrameOf
  <2>3. t.msg \in Messages  BY <1>4 DEF Sending
  <2> HIDE DEF w
  <2> QED  BY <1>4, <2>2, <2>3, TurnFrame
<1>7. NodeTurn(n)'
  <2>1. t.cnt # dlc => NextTurn(t, dlc) # Idle /\ NextTurn(t, dlc).msg = t.msg
    BY <1>4, <1>6, NotIdle, NextIs
  <2> QED  BY <1>2, <1>3, <1>4, <1>5, <1>6, <2>1 DEF NodeTurn
<1>8. NodeFill(n)'
  <2>1. CASE OwnBlock(n, txdata[n])  BY <1>2, <2>1 DEF NodeFill
  <2>2. CASE ~OwnBlock(n, txdata[n])
    <3>1. t.frm = frm_single /\ txmsg[n].frm = frm_single
      BY <1>1, <1>2, <1>3, <1>4, <2>2 DEF NodeFill
    <3>2. t.cnt = dlc
      <4>1. t.cnt = t.msg.len /\ t.msg.len <= 8  BY <1>4, <3>1, FrameKinds DEF Sending
      <4>2. dlc = IF t.cnt <= 8 THEN t.cnt ELSE 8  BY <1>1, <1>4, TurnSends
      <4> QED  BY <4>1, <4>2
    <3>3. tx'[n] = Idle  BY <1>5, <3>2
    <3> QED  BY <1>2, <3>1, <3>3 DEF NodeFill
  <2> QED  BY <2>1, <2>2
<1>9. ASSUME NEW o \in Nodes PROVE NodeTurn(o)' /\ NodeFill(o)'
  <2>1. CASE o = n  BY <1>7, <1>8, <2>1
  <2>2. CASE o # n  BY <1>2, <1>5, <2>2, OtherNode
  <2> QED  BY <2>1, <2>2
<1> QED  BY <1>9 DEF Nodewise

\* The thread that pushes touches of a node's frame no more than id and dlc, and then it
\* is a frame_single.
LEMMA AnswerNodes ==
  ASSUME Shapes, Nodewise, NEW n \in Nodes, WriteAnswer(n)
  PROVE  Nodewise'
<1>1. UNCHANGED <<tx, txdata, pc>> /\ answer[n].at \in {"id", "dlc"}  BY DEF WriteAnswer
<1>2. \A o \in Nodes \ {n} : answer'[o] = answer[o] /\ txmsg'[o] = txmsg[o]
  BY DEF WriteAnswer, Shapes
<1>3. NodeTurn(n) /\ NodeFill(n) /\ DOMAIN txmsg[n] = {"key", "frm", "dlc"}
  BY DEF Nodewise, Shapes
<1>4. /\ txmsg'[n].frm = IF answer[n].at = "id" THEN frm_single ELSE txmsg[n].frm
      /\ txmsg'[n].dlc = IF answer[n].at = "id" THEN txmsg[n].dlc ELSE 0
  BY <1>1, <1>3 DEF WriteAnswer, Shapes
<1>5. NodeTurn(n)'  BY <1>1, <1>3, <1>4, FrameKinds DEF NodeTurn
<1>6. NodeFill(n)'
  <2>1. answer[n].at = "dlc" => Written(n)  BY DEF Written
  <2>2. ~OwnBlock(n, txdata[n]) => txmsg'[n].frm = frm_single
    BY <1>1, <1>3, <1>4, <2>1 DEF NodeFill
  <2> QED  BY <1>1, <1>3, <2>2 DEF NodeFill
<1>7. ASSUME NEW o \in Nodes PROVE NodeTurn(o)' /\ NodeFill(o)'
  <2>1. CASE o = n  BY <1>5, <1>6, <2>1
  <2>2. CASE o # n  BY <1>1, <1>2, <2>2, OtherNode
  <2> QED  BY <2>1, <2>2
<1> QED  BY <1>7 DEF Nodewise

\* A step that begins or ends an answer.
LEMMA OtherNodes ==
  ASSUME Nodewise, UNCHANGED <<tx, txdata, txmsg, pc>>,
         \A n \in Nodes : \/ answer'[n] = answer[n]
                          \/ answer'[n].at \in {"none", "id"}
  PROVE  Nodewise'
<1>1. ASSUME NEW n \in Nodes PROVE NodeTurn(n)' /\ NodeFill(n)'
  <2>1. Written(n)' => Written(n)  BY DEF Written
  <2> QED  BY <2>1 DEF Nodewise, NodeTurn, NodeFill
<1> QED  BY <1>1 DEF Nodewise

\* The nodes at the start.
LEMMA InitNodes == AInit => Nodewise
<1> SUFFICES ASSUME AInit, NEW n \in Nodes PROVE NodeTurn(n) /\ NodeFill(n)  BY DEF Nodewise
<1>1. tx[n] = Idle /\ txdata[n] = ZeroBlock /\ pc[n] = "idle" /\ answer[n].at = "none"
      /\ txmsg[n].frm = 0 /\ txmsg[n].dlc = 0
  BY DEF AInit, LInit, AddressInit, NoAnswer
<1>2. 0 \in Frames  BY SizesAssumption, FrameKinds DEF SeqFrames
<1>3. ZeroBlock \in Blocks  BY DataAssumption
<1>4. ~Written(n)  BY <1>1 DEF Written
<1> QED  BY <1>1, <1>2, <1>3, <1>4 DEF NodeTurn, NodeFill

\* A step that does not touch the pool.
LEMMA PoolWaits ==
  ASSUME PoolInv, Pool' = Pool, rv' \in Results, \A n \in Nodes : had[n] \subseteq had'[n]
  PROVE  PoolInv'
<1>1. IInv'  BY DEF PoolInv, IInv
<1>2. ASSUME NEW t \in Used(Pool) PROVE NamedTree(Pool', t, had')
  <2>1. Same(Pool, Pool', t) /\ NamedTree(Pool, t, had)  BY DEF Same, PoolInv
  <2> QED  BY <2>1, SameNamed
<1>3. \A t \in Used(Pool)' : NamedTree(Pool', t, had')  BY <1>2 DEF Used
<1> QED  BY <1>1, <1>3 DEF PoolInv, NamedTree

\* The frame in txmsg, whichever thread sends it.
LEMMA BroadcastNamed ==
  ASSUME Nodewise, HadInv, PoolInv, NEW n \in Nodes, Written(n), Broadcast(n)
  PROVE  PoolInv'
<1>1. PICK w : /\ w = [key |-> txmsg[n].key, frm |-> txmsg[n].frm, data |-> txdata[n], dlc |-> txmsg[n].dlc]
               /\ PushMessage(w)
  BY DEF Broadcast
<1>2. /\ w.key = txmsg[n].key /\ w.frm = txmsg[n].frm /\ w.data = txdata[n] /\ w.dlc = txmsg[n].dlc
  BY <1>1
<1>3. w.frm \in Frames /\ w.dlc \in 0 .. 8 /\ w.data \in Blocks
  BY <1>2 DEF Nodewise, NodeTurn
<1>4. w.key.src \in had[n]  BY <1>2 DEF HadInv, Underway
<1>5. w.frm # frm_single => OwnBlock(n, w.data)  BY <1>2 DEF Nodewise, NodeFill
<1>6. w.frm # frm_single => Named(had, w.key.src, w.data)  BY <1>4, <1>5 DEF OwnBlock, Named
<1>7. IInv' /\ \A t \in Used(Pool') : NamedTree(Pool', t, had)
  BY <1>1, <1>3, <1>6, PushNamed DEF PoolInv
<1>8. had' = had  BY DEF Broadcast
<1>9. \A t \in Used(Pool)' : NamedTree(Pool', t, had')  BY <1>7, <1>8 DEF Used
<1> QED  BY <1>7, <1>9 DEF PoolInv, NamedTree

\* A buffer has the pid at least.
LEMMA SizeIs ==
  ASSUME NEW p, WellFormed(p), NEW t \in Finished(p), NEW sz \in Nat \ {0, 1}
  PROVE  \E L \in Nat : L = Copy(p, t, sz).size - 2 /\ Copy(p, t, sz).size = L + 2
<1> DEFINE c    == Copy(p, t, sz)
           last == p.trees[t].dlc
           body == Body(p, t)
<1>1. \E full \in Nat, fits \in BOOLEAN : CopyOf(c, body, Len(body), last, sz, full, fits)
  BY CopyIs
<1> HIDE DEF c, last, body
<1>2. PICK full \in Nat, fits \in BOOLEAN : CopyOf(c, body, Len(body), last, sz, full, fits)
  BY <1>1
<1>3. PICK L \in Nat : L = c.size - 2 /\ c.size = L + 2
  <2>1. CASE fits  BY <1>2, <2>1 DEF CopyOf
  <2>2. CASE ~fits  BY <1>2, <2>2 DEF CopyOf
  <2> QED  BY <2>1, <2>2
<1> QED  BY <1>3 DEF c

\* A turn of read_packet, and what it returns.
LEMMA ReadNamed ==
  ASSUME PoolInv, NEW sz \in DestSizes, ReadAddressed(sz)
  PROVE  PoolInv' /\ AddressedIntegrity'
<1>1. had' = had  BY DEF ReadAddressed, address
<1>2. CASE ReadNothing /\ out' = <<>>
  <2>1. Pool' = Pool /\ rv' \in Results  BY <1>2 DEF ReadNothing, Pool, Return, Results
  <2> QED  BY <1>1, <1>2, <2>1, PoolWaits DEF AddressedIntegrity
<1>3. ASSUME NEW p, ReadPacket(sz), p = got'[1],
             out' = (IF p.size <= 10 THEN <<[key |-> p.key, bytes |-> Content(p)]>>
                     ELSE IF Covered(p.key, Content(p))
                     THEN <<[key |-> p.key, bytes |-> SubSeq(Content(p), 1, Len(Content(p)) - 2)]>>
                     ELSE <<>>)
      PROVE  PoolInv' /\ AddressedIntegrity'
  <2>1. PICK t \in Finished(Pool) :
             /\ IInv' /\ got' = <<Copy(Pool, t, sz)>>
             /\ Used(Pool)' = Used(Pool) \ {t}
             /\ \A u \in Used(Pool) \ {t} : Same(Pool, Pool', u)
    BY <1>3, ReadCall DEF PoolInv
  <2>2. PoolInv'
    <3>1. ASSUME NEW u \in Used(Pool) \ {t} PROVE NamedTree(Pool', u, had)
      <4>1. Same(Pool, Pool', u) /\ NamedTree(Pool, u, had)  BY <2>1 DEF PoolInv
      <4> QED  BY <4>1, SameNamed
    <3>2. \A u \in Used(Pool)' : NamedTree(Pool', u, had')  BY <1>1, <2>1, <3>1
    <3> QED  BY <2>1, <3>2 DEF PoolInv, NamedTree
  <2>3. t \in Used(Pool) /\ WellFormed(Pool) /\ NamedTree(Pool, t, had) /\ sz \in Nat \ {0, 1}
    BY DataAssumption DEF Finished, PoolInv, IInv, Good
  <2>4. p = Copy(Pool, t, sz)  BY <1>3, <2>1
  <2>5. AddressedIntegrity'
    <3> SUFFICES ASSUME out' # <<>>, Len(out'[1].bytes) > 8
                 PROVE  \E m \in Messages : /\ out'[1].bytes = Payload(m) /\ out'[1].key.pid = m.key.pid
                                            /\ out'[1].key.src \in had[m.key.src]
      BY <1>1 DEF AddressedIntegrity
    <3>1. PICK b : b = Content(p)  OBVIOUS
    <3>2. ~(p.size <= 10) /\ p.size > 10
      <4>1. PICK L \in Nat : L = p.size - 2 /\ p.size = L + 2  BY <2>3, <2>4, SizeIs
      <4>2. ASSUME p.size <= 10 PROVE FALSE
        <5>1. out' = <<[key |-> p.key, bytes |-> b]>>  BY <1>3, <3>1, <4>2
        <5>2. Len(out'[1].bytes) = Len(b)  BY <5>1
        <5>3. Len(b) = L  BY <3>1, <4>1, ContentAt
        <5>4. L <= 8  BY <4>1, <4>2
        <5> QED  BY <5>2, <5>3, <5>4
      <4> QED  BY <4>1, <4>2
    <3>3. Covered(p.key, b) /\ out' = <<[key |-> p.key, bytes |-> SubSeq(b, 1, Len(b) - 2)]>>
      BY <1>3, <3>1, <3>2
    <3>4. PICK n \in Nodes, m \in Messages :
              p.key.src \in had[n] /\ m.key.src = n /\ b[Len(b)] \in {m} \X (-2 .. m.len)
      BY <2>3, <2>4, <3>1, <3>2, LastNamed DEF OfNode
    <3>5. b[Len(b)][1] = m  BY <3>4
    <3>6. m.key.pid = p.key.pid /\ b = Payload(m) \o Crc(m)  BY <3>3, <3>5 DEF Covered
    <3>7. SubSeq(b, 1, Len(b) - 2) = Payload(m)  BY <3>6, CrcLast
    <3>8. out'[1].bytes = Payload(m) /\ out'[1].key = p.key  BY <3>3, <3>7
    <3> QED  BY <3>4, <3>6, <3>8
  <2> QED  BY <2>2, <2>5
<1> QED  BY <1>2, <1>3 DEF ReadAddressed

\* What AddressesStay says of a step keeps the addresses of the frames among those that
\* the node had.
LEMMA QuietHad ==
  ASSUME HadInv, Quiet, had' = had
  PROVE  HadInv'
BY DEF HadInv, Quiet

\* Nothing changes.
LEMMA StutterAddress ==
  ASSUME AddressInv, UNCHANGED avars
  PROVE  AddressInv' /\ (AddressedIntegrity => AddressedIntegrity')
<1>1. /\ UNCHANGED <<tx, txdata, out>>
      /\ UNCHANGED <<adr, txmsg, pc, as, heard, answer, had>>
      /\ Pool' = Pool /\ rv' = rv
  BY DEF avars, lvars, vars, link, address, Pool
<1>2. Shapes'  BY StepShapes DEF AddressInv
<1>3. Nodewise'  BY <1>1, OtherNodes DEF AddressInv
<1>4. HadInv'
  <2>1. \A n \in Nodes : Underway(n)' = Underway(n)  BY <1>1 DEF Underway, Written
  <2> QED  BY <1>1, <2>1 DEF HadInv, AddressInv
<1>5. PoolInv'
  <2>1. rv' \in Results  BY <1>1 DEF AddressInv, PoolInv, IInv
  <2> QED  BY <1>1, <2>1, PoolWaits DEF AddressInv
<1> QED  BY <1>1, <1>2, <1>3, <1>4, <1>5 DEF AddressInv, AddressedIntegrity

\* The steps of the nodes.
LEMMA NodesKeep ==
  ASSUME AddressInv,
         \/ \E m \in Messages : StartPacket(m)
         \/ \E n \in Nodes : NodeStep(n) \/ \E a \in Addresses : Move(n, a)
  PROVE  AddressInv' /\ out' = <<>>
<1>1. Shapes'  BY StepShapes DEF AddressInv, ANext
<1>2. ASSUME PoolUnchanged, \A n \in Nodes : had[n] \subseteq had'[n] PROVE PoolInv'
  <2>1. Pool' = Pool /\ rv' \in Results  BY <1>2 DEF PoolUnchanged, Pool, Return, Results
  <2> QED  BY <1>2, <2>1, PoolWaits DEF AddressInv
<1>3. ASSUME NEW m \in Messages, StartPacket(m) PROVE AddressInv' /\ out' = <<>>
  <2>1. PoolUnchanged /\ had' = had /\ UNCHANGED txdata /\ out' = <<>>
    BY <1>3 DEF StartPacket, SendPacket
  <2>2. Nodewise' /\ HadInv'  BY <1>3, <2>1, StartNodes, StartQuiet, QuietHad DEF AddressInv
  <2> QED  BY <1>1, <1>2, <2>1, <2>2 DEF AddressInv
<1>4. ASSUME NEW n \in Nodes, WriteField(n) PROVE AddressInv' /\ out' = <<>>
  <2>1. PoolUnchanged /\ had' = had /\ DOMAIN txdata' = Nodes /\ out' = <<>>
    BY <1>4 DEF WriteField, AddressInv
  <2>2. Nodewise' /\ HadInv'  BY <1>4, <2>1, WriteNodes, WriteQuiet, QuietHad DEF AddressInv
  <2> QED  BY <1>1, <1>2, <2>1, <2>2 DEF AddressInv
<1>5. ASSUME NEW n \in Nodes, SendTurn(n) PROVE AddressInv' /\ out' = <<>>
  <2>1. had' = had /\ UNCHANGED txdata /\ out' = <<>> /\ Broadcast(n) /\ Written(n)
    BY <1>5 DEF SendTurn, Broadcast, Written
  <2>2. Nodewise' /\ HadInv'  BY <1>5, <2>1, SendNodes, SendQuiet, QuietHad DEF AddressInv
  <2>3. PoolInv'  BY <2>1, BroadcastNamed DEF AddressInv
  <2> QED  BY <1>1, <2>1, <2>2, <2>3 DEF AddressInv
<1>6. ASSUME NEW n \in Nodes, WriteAnswer(n) PROVE AddressInv' /\ out' = <<>>
  <2>1. PoolUnchanged /\ had' = had /\ UNCHANGED txdata /\ out' = <<>>
    BY <1>6 DEF WriteAnswer
  <2>2. Nodewise' /\ HadInv'  BY <1>6, <2>1, AnswerNodes, AnswerQuiet, QuietHad DEF AddressInv
  <2> QED  BY <1>1, <1>2, <2>1, <2>2 DEF AddressInv
<1>7. ASSUME NEW n \in Nodes, SendAnswer(n) PROVE AddressInv' /\ out' = <<>>
  <2>1. had' = had /\ UNCHANGED <<tx, txdata, txmsg, pc>> /\ out' = <<>> /\ Broadcast(n) /\ Written(n)
    BY <1>7 DEF SendAnswer, Broadcast, Written
  <2>2. \A o \in Nodes : answer'[o] = answer[o] \/ answer'[o].at \in {"none", "id"}
    BY <1>7 DEF SendAnswer, NoAnswer, AddressInv, Shapes
  <2>3. Nodewise'  BY <2>1, <2>2, OtherNodes DEF AddressInv
  <2>4. HadInv'  BY <1>7, <2>1, AnnounceQuiet, QuietHad DEF AddressInv
  <2>5. PoolInv'  BY <2>1, BroadcastNamed DEF AddressInv
  <2> QED  BY <1>1, <2>1, <2>3, <2>4, <2>5 DEF AddressInv
<1>8. ASSUME NEW n \in Nodes, Hear(n) PROVE AddressInv' /\ out' = <<>>
  <2>1. PoolUnchanged /\ had' = had /\ UNCHANGED <<tx, txdata, txmsg, pc, answer>> /\ out' = <<>>
    BY <1>8 DEF Hear
  <2>2. Nodewise' /\ HadInv'  BY <1>8, <2>1, OtherNodes, HearQuiet, QuietHad DEF AddressInv
  <2> QED  BY <1>1, <1>2, <2>1, <2>2 DEF AddressInv
<1>9. ASSUME NEW n \in Nodes, NEW a \in Addresses, Move(n, a) PROVE AddressInv' /\ out' = <<>>
  <2>1. /\ PoolUnchanged /\ UNCHANGED <<tx, txdata, txmsg, pc, as>> /\ out' = <<>>
        /\ adr' = [adr EXCEPT ![n] = a]
        /\ had' = [had EXCEPT ![n] = had[n] \cup {a}]
        /\ answer' = [answer EXCEPT ![n] = [at |-> "id", adr |-> a]]
        /\ answer[n].at = "none"
    BY <1>9 DEF Move
  <2>2. /\ \A o \in Nodes \ {n} : adr'[o] = adr[o] /\ had'[o] = had[o] /\ answer'[o] = answer[o]
        /\ adr'[n] = a /\ had'[n] = had[n] \cup {a} /\ answer'[n] = [at |-> "id", adr |-> a]
        /\ DOMAIN had' = Nodes
    BY <2>1 DEF AddressInv, Shapes
  <2>3. \A o \in Nodes : had[o] \subseteq had'[o]  BY <2>2
  <2>4. \A o \in Nodes : answer'[o] = answer[o] \/ answer'[o].at \in {"none", "id"}
    BY <2>2
  <2>5. Nodewise'  BY <2>1, <2>4, OtherNodes DEF AddressInv
  <2>6. HadInv'
    <3>1. Underway(n)' \subseteq Underway(n) \cup {a}
      <4>1. answer'[n].at = "id" /\ answer'[n].adr = a  BY <2>2
      <4>2. Written(n)' => Written(n)  BY <2>1, <4>1 DEF Written
      <4> QED  BY <2>1, <4>1, <4>2 DEF Underway
    <3>2. \A o \in Nodes \ {n} : Underway(o)' = Underway(o)
      BY <2>1, <2>2 DEF Underway, Written
    <3> QED  BY <2>2, <3>1, <3>2 DEF HadInv, AddressInv
  <2>7. PoolInv'  BY <1>2, <2>1, <2>3
  <2> QED  BY <1>1, <2>1, <2>2, <2>5, <2>6, <2>7 DEF AddressInv
<1> QED  BY <1>3, <1>4, <1>5, <1>6, <1>7, <1>8, <1>9 DEF NodeStep

\* The start.
LEMMA AddressStarts == AInit => AddressInv /\ AddressedIntegrity
<1> SUFFICES ASSUME AInit PROVE AddressInv /\ AddressedIntegrity  OBVIOUS
<1>1. Shapes /\ Nodewise  BY InitShapes, InitNodes
<1>2. /\ Init /\ out = <<>> /\ DOMAIN txdata = Nodes
      /\ had = [n \in Nodes |-> {adr[n]}] /\ pc = [n \in Nodes |-> "idle"]
      /\ answer = [n \in Nodes |-> NoAnswer]
  BY DEF AInit, LInit, AddressInit
<1>3. HadInv
  <2>1. \A n \in Nodes : pc[n] = "idle" /\ answer[n].at = "none" /\ adr[n] \in had[n]
    BY <1>2 DEF NoAnswer
  <2>2. \A n \in Nodes : Underway(n) = {}  BY <2>1 DEF Underway, Written
  <2> QED  BY <2>1, <2>2 DEF HadInv
<1>4. PoolInv
  <2>1. IInv  BY <1>2, InitGood
  <2>2. Used(Pool) = {}  BY <1>2 DEF Init, Used, Pool
  <2> QED  BY <2>1, <2>2 DEF PoolInv
<1> QED  BY <1>1, <1>2, <1>3, <1>4 DEF AddressInv, AddressedIntegrity

\* A packet of several frames that read_packet() returns is one that a node was asked to
\* send, in full, and names an address that the node had, for any number of nodes and
\* addresses, any lengths of messages, sizes of the pool and buffers of the readers,
\* although the two threads of a node overwrite each other's txmsg.
THEOREM AddressedHolds == ASpec => []AddressedIntegrity
<1>1. AInit => AddressInv /\ AddressedIntegrity  BY AddressStarts
<1>2. AddressInv /\ AddressedIntegrity /\ [ANext]_avars => AddressInv' /\ AddressedIntegrity'
  <2> SUFFICES ASSUME AddressInv, AddressedIntegrity, [ANext]_avars
               PROVE  AddressInv' /\ AddressedIntegrity'
    OBVIOUS
  <2>1. CASE \/ \E m \in Messages : StartPacket(m)
             \/ \E n \in Nodes : NodeStep(n) \/ \E a \in Addresses : Move(n, a)
    <3>1. AddressInv' /\ out' = <<>>  BY <2>1, NodesKeep
    <3> QED  BY <3>1 DEF AddressedIntegrity
  <2>2. ASSUME NEW sz \in DestSizes, ReadAddressed(sz) PROVE AddressInv' /\ AddressedIntegrity'
    <3>1. UNCHANGED <<tx, txdata, adr, txmsg, pc, as, answer, had>>
      BY <2>2 DEF ReadAddressed, address
    <3>2. Shapes'  BY <2>2, StepShapes DEF AddressInv, ANext
    <3>3. Nodewise'  BY <3>1, OtherNodes DEF AddressInv
    <3>4. HadInv'
      <4>1. \A n \in Nodes : Underway(n)' = Underway(n)  BY <3>1 DEF Underway, Written
      <4> QED  BY <3>1, <4>1 DEF HadInv, AddressInv
    <3>5. PoolInv' /\ AddressedIntegrity'  BY <2>2, ReadNamed DEF AddressInv
    <3> QED  BY <3>1, <3>2, <3>3, <3>4, <3>5 DEF AddressInv
  <2>3. CASE UNCHANGED avars  BY <2>3, StutterAddress
  <2> QED  BY <2>1, <2>2, <2>3 DEF ANext
<1> QED  BY <1>1, <1>2, PTL DEF ASpec

=============================================================================
