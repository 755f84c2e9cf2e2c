------------------------- MODULE CobsDownlinkProofs -------------------------
(***************************************************************************)
(* Theorems about two streams of bytes: the packets of serial lines (Cobs)    *)
(* and the variables of the backported Mandala (Downlink).                   *)
(*                                                                          *)
(* What the encoder of serial lines writes, the decoder reads, and nothing   *)
(* else but one form of it: for every length of a packet and of a block,      *)
(* every checksum of two bytes, and every way to cut the bytes into calls.   *)
(* Blocks(d)[n] is the encoder behind n bytes of d.  A block starts behind n  *)
(* bytes if Closed(Blocks(d)[n]) has an empty block; what the decoder has     *)
(* seen are the blocks of its buffer up to such a place, the code of the      *)
(* block that follows, and the bytes behind that place.                       *)
(*                                                                          *)
(* What the vehicle packs of its variables, the receiver unpacks, for every   *)
(* table of variables and every room in a packet.  The mask of a group is     *)
(* written to until the group has been packed, so that the bytes of a packet  *)
(* are not those of any earlier turn: Ahead says what they may still become,  *)
(* and the receiver, InStep with the turns of the vehicle, has not read more. *)
(* LinkInv then relates the snapshot of the vehicle to the receiver.          *)
(***************************************************************************)
EXTENDS Cobs, Downlink, NumberLemmas, SequenceTheorems

-----------------------------------------------------------------------------
(* Sequences                                                               *)

\* Three parts in one.
Joint(a, x, b) == a \o <<x>> \o b

\* w is that: its length and its elements.
IsJoint(w, a, x, b) ==
    /\ Len(w) = Len(a) + 1 + Len(b)
    /\ \A i \in 1 .. Len(a) : w[i] = a[i]
    /\ w[Len(a) + 1] = x
    /\ \A i \in 1 .. Len(b) : w[Len(a) + 1 + i] = b[i]

\* Three parts make a sequence.
LEMMA Joined ==
  ASSUME NEW S, NEW a \in Seq(S), NEW x \in S, NEW b \in Seq(S)
  PROVE  Joint(a, x, b) \in Seq(S) /\ IsJoint(Joint(a, x, b), a, x, b)
<1> DEFINE u == a \o <<x>>
           w == u \o b
<1>1. /\ u \in Seq(S) /\ Len(u) = Len(a) + 1 /\ \A i \in 1 .. Len(a) : u[i] = a[i]
      /\ u[Len(a) + 1] = x
  OBVIOUS
<1>2. Joint(a, x, b) = w  BY DEF Joint
<1> HIDE DEF u
<1>3. w \in Seq(S) /\ Len(w) = Len(u) + Len(b)  BY <1>1
<1>4. \A i \in 1 .. Len(u) : w[i] = u[i]  BY <1>1
<1>5. \A i \in 1 .. Len(b) : w[Len(u) + i] = b[i]  BY <1>1
<1>6. \A i \in 1 .. Len(a) : i \in 1 .. Len(u)  BY <1>1
<1>7. Len(a) + 1 \in 1 .. Len(u)  BY <1>1
<1> HIDE DEF w
<1>8. IsJoint(w, a, x, b)  BY <1>1, <1>3, <1>4, <1>5, <1>6, <1>7 DEF IsJoint
<1> QED  BY <1>2, <1>3, <1>8

\* Sequences are equal if their lengths and elements are.
LEMMA SameSeq ==
  ASSUME NEW S, NEW a \in Seq(S), NEW b \in Seq(S), Len(a) = Len(b),
         \A i \in 1 .. Len(a) : a[i] = b[i]
  PROVE  a = b
BY SeqEqual

\* A sequence is a function.
LEMMA SeqIsFunction ==
  ASSUME NEW S, NEW n \in Nat
  PROVE  \A a : a \in [1 .. n -> S] <=> a \in Seq(S) /\ Len(a) = n
OBVIOUS

\* Two parts in one.
Both(a, b) == a \o b

\* w is that: its length and its elements.
IsBoth(w, a, b) ==
    /\ Len(w) = Len(a) + Len(b)
    /\ \A i \in 1 .. Len(a) : w[i] = a[i]
    /\ \A i \in 1 .. Len(b) : w[Len(a) + i] = b[i]

\* Two parts make a sequence.
LEMMA BothJoined ==
  ASSUME NEW S, NEW a \in Seq(S), NEW b \in Seq(S)
  PROVE  Both(a, b) \in Seq(S) /\ IsBoth(Both(a, b), a, b)
BY DEF Both, IsBoth

\* The first of the elements of d behind n, up to m.
Part(d, n, m) == SubSeq(d, n + 1, m)

\* Its length and its elements.
LEMMA PartIs ==
  ASSUME NEW S, NEW d \in Seq(S), NEW n \in 0 .. Len(d), NEW m \in n .. Len(d)
  PROVE  /\ Part(d, n, m) \in Seq(S) /\ Len(Part(d, n, m)) = m - n
         /\ \A i \in 1 .. m - n : Part(d, n, m)[i] = d[n + i]
<1>1. n + 1 \in Int /\ m \in Int /\ (n + 1 <= m => n + 1 \in 1 .. Len(d) /\ m \in 1 .. Len(d))
  OBVIOUS
<1>2. Part(d, n, m) = [i \in 1 .. m - n |-> d[n + i]]
  <2>1. Part(d, n, m) = [i \in 1 .. (m - (n + 1) + 1) |-> d[i + (n + 1) - 1]]  BY <1>1 DEF Part
  <2> QED  BY <2>1
<1>3. \A i \in 1 .. m - n : d[n + i] \in S
  <2>1. \A i \in 1 .. m - n : n + i \in 1 .. Len(d)  OBVIOUS
  <2> QED  BY <2>1
<1>4. m - n \in Nat  OBVIOUS
<1> QED  BY <1>2, <1>3, <1>4

\* A part is what it is made of.
LEMMA PartEquals ==
  ASSUME NEW S, NEW d \in Seq(S), NEW y \in Seq(S), NEW n \in 0 .. Len(d), NEW m \in n .. Len(d),
         Len(y) = m - n, \A i \in 1 .. m - n : d[n + i] = y[i]
  PROVE  SubSeq(d, n + 1, m) = y
<1> DEFINE x == Part(d, n, m)
<1>1. x \in Seq(S) /\ Len(x) = m - n /\ \A i \in 1 .. m - n : x[i] = d[n + i]  BY PartIs
<1> HIDE DEF x
<1>2. x = y  BY <1>1, SameSeq
<1> QED  BY <1>2 DEF x, Part

\* s is how w begins.
Begins(s, w) == Len(s) <= Len(w) /\ \A i \in 1 .. Len(s) : s[i] = w[i]

-----------------------------------------------------------------------------
(* The encoder                                                             *)

\* The bytes that the encoder writes before the delimiter.
Coded == 1 .. MaxByte

Fresh == [done |-> <<>>, block |-> <<>>]

\* No block is longer than a full one.
Fine(e) ==
    /\ e \in [done : Seq(Coded), block : Seq(Coded)]
    /\ Len(e.block) < MaxByte

\* The code and the bytes of a block are put behind those that are done.
LEMMA NewBlockIs ==
  ASSUME NEW e, Fine(e)
  PROVE  /\ NewBlock(e) = [done |-> NewBlock(e).done, block |-> <<>>] /\ Fine(NewBlock(e))
         /\ NewBlock(e).done \in Seq(Coded)
         /\ IsJoint(NewBlock(e).done, e.done, Len(e.block) + 1, e.block)
<1> DEFINE a == e.done
           b == e.block
           x == Len(b) + 1
           w == NewBlock(e).done
<1>1. a \in Seq(Coded) /\ b \in Seq(Coded) /\ Len(b) < MaxByte /\ MaxByte \in Nat \ {0, 1}
  BY CobsAssumption DEF Fine
<1>2. x \in Coded  BY <1>1 DEF Coded
<1>3. w = Joint(a, x, b)  BY DEF NewBlock, Joint
<1>4. NewBlock(e) = [done |-> w, block |-> <<>>]  BY DEF NewBlock
<1> HIDE DEF a, b, x, w
<1>5. w \in Seq(Coded) /\ IsJoint(w, a, x, b)  BY <1>1, <1>2, <1>3, Joined
<1>6. Fine(NewBlock(e))  BY <1>1, <1>4, <1>5 DEF Fine
<1> QED  BY <1>4, <1>5, <1>6 DEF a, b, x, w

\* A block that is full is finished.
LEMMA ClosedIs ==
  ASSUME NEW e, Fine(e)
  PROVE  /\ Fine(Closed(e)) /\ Len(Closed(e).block) + 1 < MaxByte
         /\ Len(e.block) + 1 < MaxByte => Closed(e) = e
         /\ Len(e.block) + 1 = MaxByte => Closed(e) = NewBlock(e)
<1>1. MaxByte \in Nat \ {0, 1}  BY CobsAssumption
<1>2. Len(e.block) \in Nat /\ Len(e.block) < MaxByte  BY DEF Fine
<1>3. CASE Len(e.block) + 1 = MaxByte
  <2>1. Closed(e) = NewBlock(e)  BY <1>3 DEF Closed
  <2>2. Fine(NewBlock(e))  BY NewBlockIs
  <2>3. NewBlock(e).block = <<>>  BY DEF NewBlock
  <2> QED  BY <1>1, <1>2, <1>3, <2>1, <2>2, <2>3
<1>4. CASE Len(e.block) + 1 # MaxByte  BY <1>1, <1>2, <1>4 DEF Closed
<1> QED  BY <1>3, <1>4

\* A zero finishes a block, another byte is added to it.
LEMMA PutIs ==
  ASSUME NEW e, Fine(e), NEW c \in Bytes
  PROVE  /\ Fine(Put(e, c))
         /\ c = esc => Put(e, c) = NewBlock(Closed(e))
         /\ c # esc => Put(e, c) = [done |-> Closed(e).done, block |-> Append(Closed(e).block, c)]
<1>1. Fine(Closed(e)) /\ Len(Closed(e).block) + 1 < MaxByte  BY ClosedIs
<1>2. CASE c = esc
  <2>1. Put(e, c) = NewBlock(Closed(e))  BY <1>2 DEF Put
  <2> QED  BY <1>1, <1>2, <2>1, NewBlockIs
<1>3. CASE c # esc
  <2> DEFINE f == Closed(e)
  <2>1. c \in Coded  BY <1>3, CobsAssumption DEF Coded, Bytes, esc
  <2>2. Put(e, c) = [f EXCEPT !.block = Append(f.block, c)]  BY <1>3 DEF Put
  <2>3. f \in [done : Seq(Coded), block : Seq(Coded)] /\ Len(f.block) + 1 < MaxByte  BY <1>1 DEF Fine
  <2> HIDE DEF f
  <2>4. Put(e, c) = [done |-> f.done, block |-> Append(f.block, c)]  BY <2>2, <2>3
  <2>5. Append(f.block, c) \in Seq(Coded) /\ Len(Append(f.block, c)) = Len(f.block) + 1
    BY <2>1, <2>3
  <2>6. Fine(Put(e, c))  BY <2>3, <2>4, <2>5, CobsAssumption DEF Fine
  <2> QED  BY <1>3, <2>4, <2>6 DEF f
<1> QED  BY <1>2, <1>3

\* The encoder behind the first m bytes of d.
AreBlocks(e, d, m) == e = [n \in 0 .. m |-> IF n = 0 THEN Fresh ELSE Put(e[n - 1], d[n])]

\* There is such a sequence of states.
LEMMA BlocksExist ==
  ASSUME NEW d, NEW n \in Nat
  PROVE  \E e : AreBlocks(e, d, n)
<1> DEFINE Bad == {m \in Nat : ~\E e : AreBlocks(e, d, m)}
<1>1. CASE Bad # {}
  <2>1. PICK m \in Bad : \A j \in Bad : m <= j  BY <1>1, LeastNat
  <2>2. CASE m = 0
    <3> DEFINE e == [i \in 0 .. 0 |-> Fresh]
    <3>1. e = [i \in 0 .. 0 |-> IF i = 0 THEN Fresh ELSE Put(e[i - 1], d[i])]  OBVIOUS
    <3>2. AreBlocks(e, d, 0)  BY <3>1 DEF AreBlocks
    <3> QED  BY <2>2, <3>2
  <2>3. CASE m # 0
    <3>1. m - 1 \in Nat /\ m - 1 \notin Bad  BY <2>1, <2>3
    <3>2. PICK f : AreBlocks(f, d, m - 1)  BY <3>1
    <3> DEFINE x == Put(f[m - 1], d[m])
               g == [i \in 0 .. m |-> IF i = m THEN x ELSE f[i]]
    <3>3. \A i \in 0 .. m - 1 : f[i] = IF i = 0 THEN Fresh ELSE Put(f[i - 1], d[i])
      BY <3>2 DEF AreBlocks
    <3>4. \A i \in 0 .. m : g[i] = IF i = 0 THEN Fresh ELSE Put(g[i - 1], d[i])
      <4> SUFFICES ASSUME NEW i \in 0 .. m
                   PROVE  g[i] = IF i = 0 THEN Fresh ELSE Put(g[i - 1], d[i])
        OBVIOUS
      <4>1. i # 0 => g[i - 1] = f[i - 1]  OBVIOUS
      <4>2. CASE i = m  BY <2>3, <4>1, <4>2
      <4>3. CASE i # m  BY <3>3, <4>1, <4>3
      <4> QED  BY <4>2, <4>3
    <3>5. g = [i \in 0 .. m |-> IF i = 0 THEN Fresh ELSE Put(g[i - 1], d[i])]
      <4>1. g = [i \in 0 .. m |-> g[i]]  OBVIOUS
      <4> HIDE DEF g
      <4> QED  BY <3>4, <4>1
    <3>6. AreBlocks(g, d, m)  BY <3>5 DEF AreBlocks
    <3> QED  BY <2>1, <3>6
  <2> QED  BY <2>2, <2>3
<1>2. CASE Bad = {}  BY <1>2
<1> QED  BY <1>1, <1>2

\* What Blocks computes.
LEMMA BlocksAre ==
  ASSUME NEW d \in Seq(Bytes)
  PROVE  /\ Blocks(d)[0] = Fresh
         /\ \A n \in 1 .. Len(d) : Blocks(d)[n] = Put(Blocks(d)[n - 1], d[n])
<1>1. Len(d) \in Nat  OBVIOUS
<1>2. \E e : AreBlocks(e, d, Len(d))  BY <1>1, BlocksExist
<1>3. Blocks(d) = CHOOSE e : AreBlocks(e, d, Len(d))  BY DEF Blocks, AreBlocks, Fresh
<1>4. AreBlocks(Blocks(d), d, Len(d))  BY <1>2, <1>3
<1> DEFINE e == Blocks(d)
<1>5. \A n \in 0 .. Len(d) : e[n] = IF n = 0 THEN Fresh ELSE Put(e[n - 1], d[n])
  BY <1>4 DEF AreBlocks
<1> QED  BY <1>1, <1>5

\* Blocks are fine.
LEMMA BlocksFine ==
  ASSUME NEW d \in Seq(Bytes), NEW n \in 0 .. Len(d)
  PROVE  Fine(Blocks(d)[n])
<1> DEFINE Bad == {m \in Nat : m <= Len(d) /\ ~Fine(Blocks(d)[m])}
<1>1. Fine(Fresh)  BY CobsAssumption DEF Fine, Fresh
<1>2. CASE Bad # {}
  <2>1. PICK m \in Bad : \A j \in Bad : m <= j  BY <1>2, LeastNat
  <2>2. m # 0  BY <1>1, <2>1, BlocksAre
  <2>3. m - 1 \in Nat /\ m - 1 <= Len(d) /\ m - 1 \notin Bad  BY <2>1, <2>2
  <2>4. Fine(Blocks(d)[m - 1]) /\ m \in 1 .. Len(d) /\ d[m] \in Bytes  BY <2>1, <2>2, <2>3
  <2>5. Fine(Put(Blocks(d)[m - 1], d[m]))  BY <2>4, PutIs
  <2> QED  BY <2>1, <2>4, <2>5, BlocksAre
<1>3. CASE Bad = {}  BY <1>3
<1> QED  BY <1>2, <1>3

\* Blocks depends on no bytes that come later.
LEMMA BlocksAgree ==
  ASSUME NEW d \in Seq(Bytes), NEW f \in Seq(Bytes), NEW n \in 0 .. Len(d), n <= Len(f),
         \A i \in 1 .. n : d[i] = f[i]
  PROVE  Blocks(d)[n] = Blocks(f)[n]
<1> DEFINE Bad == {m \in Nat : m <= n /\ Blocks(d)[m] # Blocks(f)[m]}
<1>1. CASE Bad # {}
  <2>1. PICK m \in Bad : \A j \in Bad : m <= j  BY <1>1, LeastNat
  <2>2. m # 0  BY <2>1, BlocksAre
  <2>3. m - 1 \in Nat /\ m - 1 <= n /\ m - 1 \notin Bad  BY <2>1, <2>2
  <2>4. m \in 1 .. Len(d) /\ m \in 1 .. Len(f) /\ d[m] = f[m]  BY <2>1, <2>2
  <2>5. Blocks(d)[m - 1] = Blocks(f)[m - 1]  BY <2>3
  <2> QED  BY <2>1, <2>4, <2>5, BlocksAre
<1>2. CASE Bad = {}  BY <1>2
<1> QED  BY <1>1, <1>2

\* What is done stays.
LEMMA DoneGrows ==
  ASSUME NEW d \in Seq(Bytes), NEW m \in 0 .. Len(d), NEW n \in m .. Len(d)
  PROVE  Begins(Blocks(d)[m].done, Blocks(d)[n].done)
<1> DEFINE a(i) == Blocks(d)[i].done
           Bad == {i \in Nat : m <= i /\ i <= n /\ ~Begins(a(m), a(i))}
<1>1. \A i \in 0 .. Len(d) : a(i) \in Seq(Coded)  BY BlocksFine DEF Fine
<1>2. \A i \in 1 .. Len(d) : Begins(a(i - 1), a(i))
  <2> SUFFICES ASSUME NEW i \in 1 .. Len(d) PROVE Begins(a(i - 1), a(i))  OBVIOUS
  <2> DEFINE e == Blocks(d)[i - 1]
             f == Closed(e)
             g == Put(e, d[i])
  <2>1. i - 1 \in 0 .. Len(d) /\ d[i] \in Bytes  OBVIOUS
  <2>2. Fine(e) /\ g = Blocks(d)[i]  BY <2>1, BlocksFine, BlocksAre
  <2>3. Fine(f) /\ Fine(g)  BY <2>1, <2>2, ClosedIs, PutIs
  <2>4. \A x : Fine(x) => /\ x.done \in Seq(Coded) /\ NewBlock(x).done \in Seq(Coded)
                          /\ Begins(x.done, NewBlock(x).done)
    <3> SUFFICES ASSUME NEW x, Fine(x)
                 PROVE  /\ x.done \in Seq(Coded) /\ NewBlock(x).done \in Seq(Coded)
                        /\ Begins(x.done, NewBlock(x).done)
      OBVIOUS
    <3> DEFINE w == NewBlock(x).done
               a0 == x.done
               b0 == x.block
    <3>1. /\ w \in Seq(Coded) /\ Len(w) = Len(a0) + 1 + Len(b0)
          /\ \A j \in 1 .. Len(a0) : w[j] = a0[j]
      BY NewBlockIs DEF IsJoint
    <3>2. a0 \in Seq(Coded) /\ b0 \in Seq(Coded)  BY DEF Fine
    <3> HIDE DEF w, a0, b0
    <3>3. Len(a0) \in Nat /\ Len(b0) \in Nat  BY <3>2
    <3>4. Len(a0) <= Len(w)  BY <3>1, <3>3
    <3>5. Begins(a0, w)  BY <3>1, <3>4 DEF Begins
    <3> QED  BY <3>1, <3>2, <3>5 DEF w, a0
  <2>5. Begins(e.done, f.done)
    <3>1. f = e \/ f = NewBlock(e)  BY DEF Closed
    <3>2. Begins(e.done, e.done)  BY <2>2 DEF Fine, Begins
    <3> QED  BY <2>2, <2>4, <3>1, <3>2
  <2>6. Begins(f.done, g.done)
    <3>1. g = NewBlock(f) \/ g.done = f.done  BY <2>1, <2>2, PutIs
    <3>2. Begins(f.done, f.done)  BY <2>3 DEF Fine, Begins
    <3> QED  BY <2>3, <2>4, <3>1, <3>2
  <2>7. e.done \in Seq(Coded) /\ f.done \in Seq(Coded) /\ g.done \in Seq(Coded)
    BY <2>2, <2>3 DEF Fine
  <2> HIDE DEF e, f, g
  <2>8. Begins(e.done, g.done)  BY <2>5, <2>6, <2>7 DEF Begins
  <2> QED  BY <2>2, <2>8 DEF e
<1>3. Begins(a(m), a(m))  BY <1>1 DEF Begins
<1> HIDE DEF a
<1>4. CASE Bad # {}
  <2>1. PICK i \in Bad : \A j \in Bad : i <= j  BY <1>4, LeastNat
  <2>2. i # m  BY <1>3, <2>1
  <2>3. i - 1 \in Nat /\ m <= i - 1 /\ i - 1 <= n /\ i - 1 \notin Bad  BY <2>1, <2>2
  <2>4. Begins(a(m), a(i - 1))  BY <2>3
  <2>5. i \in 1 .. Len(d)  BY <2>1, <2>2
  <2>6. Begins(a(i - 1), a(i))  BY <1>2, <2>5
  <2>7. a(m) \in Seq(Coded) /\ a(i - 1) \in Seq(Coded) /\ a(i) \in Seq(Coded)  BY <1>1, <2>5
  <2>8. Begins(a(m), a(i))  BY <2>4, <2>6, <2>7 DEF Begins
  <2> QED  BY <2>1, <2>8
<1>5. CASE Bad = {}  BY <1>5 DEF a
<1> QED  BY <1>4, <1>5

\* A part grows by the next byte.
LEMMA PartGrows ==
  ASSUME NEW S, NEW d \in Seq(S), NEW n \in 0 .. Len(d), NEW m \in n .. Len(d), m # n
  PROVE  Part(d, n, m) = Append(Part(d, n, m - 1), d[m])
<1> DEFINE p == Part(d, n, m - 1)
           q == Part(d, n, m)
<1>1. m - 1 \in n .. Len(d) /\ m \in 1 .. Len(d) /\ d[m] \in S  OBVIOUS
<1>2. /\ p \in Seq(S) /\ Len(p) = (m - 1) - n /\ \A i \in 1 .. (m - 1) - n : p[i] = d[n + i]
      /\ q \in Seq(S) /\ Len(q) = m - n /\ \A i \in 1 .. m - n : q[i] = d[n + i]
  BY <1>1, PartIs
<1> HIDE DEF p, q
<1>3. Append(p, d[m]) \in Seq(S) /\ Len(Append(p, d[m])) = Len(q)  BY <1>1, <1>2
<1>4. \A i \in 1 .. Len(q) : q[i] = Append(p, d[m])[i]
  <2> SUFFICES ASSUME NEW i \in 1 .. Len(q) PROVE q[i] = Append(p, d[m])[i]  OBVIOUS
  <2>1. CASE i = m - n
    <3>1. Append(p, d[m])[i] = d[m] /\ q[i] = d[n + i] /\ n + i = m  BY <1>1, <1>2, <2>1
    <3> QED  BY <3>1
  <2>2. CASE i # m - n
    <3>1. i \in 1 .. Len(p)  BY <1>2, <2>2
    <3>2. Append(p, d[m])[i] = p[i]  BY <1>1, <1>2, <3>1
    <3> QED  BY <1>2, <3>1, <3>2
  <2> QED  BY <2>1, <2>2
<1>5. q = Append(p, d[m])  BY <1>2, <1>3, <1>4, SameSeq
<1> QED  BY <1>5 DEF p, q

\* From n to m d has no zero, and no more bytes than a block.
IsRun(d, n, m) ==
    /\ n \in 0 .. Len(d) /\ m \in n .. Len(d) /\ m - n < MaxByte
    /\ \A i \in n + 1 .. m : d[i] # esc

\* The encoder has such bytes in its block.
LEMMA RunInBlock ==
  ASSUME NEW d \in Seq(Bytes), NEW n, NEW m, IsRun(d, n, m), m # n,
         Closed(Blocks(d)[n]).block = <<>>
  PROVE  Blocks(d)[m] = [done |-> Closed(Blocks(d)[n]).done, block |-> Part(d, n, m)]
<1> DEFINE e == Closed(Blocks(d)[n])
           Good(i) == Blocks(d)[i] = [done |-> e.done, block |-> Part(d, n, i)]
           Bad == {i \in Nat : n < i /\ i <= m /\ ~Good(i)}
<1>1. n \in 0 .. Len(d) /\ m \in n .. Len(d) /\ m - n < MaxByte  BY DEF IsRun
<1>2. CASE Bad # {}
  <2>1. PICK i \in Bad : \A j \in Bad : i <= j  BY <1>2, LeastNat
  <2>2. i \in 1 .. Len(d) /\ i \in n + 1 .. m /\ i - 1 \in 0 .. Len(d) /\ i - 1 \in Nat
    BY <1>1, <2>1
  <2>3. d[i] \in Bytes /\ d[i] # esc  BY <2>2 DEF IsRun
  <2>4. Fine(Blocks(d)[i - 1])  BY <2>2, BlocksFine
  <2> DEFINE f == Closed(Blocks(d)[i - 1])
  <2>5. Blocks(d)[i] = [done |-> f.done, block |-> Append(f.block, d[i])]
    BY <2>2, <2>3, <2>4, BlocksAre, PutIs
  <2>6. f.done = e.done /\ f.block = Part(d, n, i - 1)
    <3>1. CASE i - 1 = n
      <4>1. Part(d, n, i - 1) = <<>>  BY <1>1, <3>1, SubSeqEmpty DEF Part
      <4> QED  BY <3>1, <4>1
    <3>2. CASE i - 1 # n
      <4>1. n < i - 1 /\ i - 1 <= m /\ i - 1 \notin Bad  BY <1>1, <2>1, <2>2, <3>2
      <4>2. Good(i - 1)  BY <2>2, <4>1
      <4>3. Len(Part(d, n, i - 1)) = i - 1 - n
        <5>1. i - 1 \in n .. Len(d)  BY <1>1, <2>2, <4>1
        <5> QED  BY <1>1, <5>1, PartIs
      <4>4. Len(Blocks(d)[i - 1].block) + 1 < MaxByte
        BY <1>1, <2>2, <4>2, <4>3, CobsAssumption
      <4>5. f = Blocks(d)[i - 1]  BY <2>4, <4>4, ClosedIs
      <4> QED  BY <4>2, <4>5
    <3> QED  BY <3>1, <3>2
  <2>7. Append(Part(d, n, i - 1), d[i]) = Part(d, n, i)
    <3>1. i \in n .. Len(d) /\ i # n  BY <1>1, <2>2
    <3> QED  BY <1>1, <3>1, PartGrows
  <2> QED  BY <2>1, <2>5, <2>6, <2>7
<1>3. CASE Bad = {}
  <2>1. m \in Nat /\ n < m /\ m <= m  BY <1>1
  <2>2. m \notin Bad  BY <1>3
  <2>3. Good(m)  BY <2>1, <2>2
  <2> QED  BY <2>3
<1> QED  BY <1>2, <1>3

\* A block starts behind n bytes of d.
StartsAt(d, n) == n \in 0 .. Len(d) /\ Closed(Blocks(d)[n]).block = <<>>

\* What the encoder has written when such a block ends behind m bytes.
Upto(d, n, m) == Joint(Closed(Blocks(d)[n]).done, m - n + 1, Part(d, n, m))

\* The first block starts at once.
LEMMA FirstStart ==
  ASSUME NEW d \in Seq(Bytes)
  PROVE  StartsAt(d, 0) /\ Closed(Blocks(d)[0]) = Fresh
<1>1. Fine(Fresh)  BY CobsAssumption DEF Fine, Fresh
<1>2. Len(Fresh.block) + 1 < MaxByte  BY CobsAssumption DEF Fresh
<1>3. Closed(Fresh) = Fresh  BY <1>1, <1>2, ClosedIs
<1> QED  BY <1>3, BlocksAre DEF StartsAt, Fresh

\* Its length, and its bytes.
IsUpto(w, a, d, n, m) ==
    /\ a \in Seq(Coded) /\ w \in Seq(Coded)
    /\ Len(w) = Len(a) + 1 + (m - n)
    /\ w[Len(a) + 1] = m - n + 1
    /\ \A i \in 1 .. m - n : w[Len(a) + 1 + i] = d[n + i]

\* That is what was written.
LEMMA UptoIs ==
  ASSUME NEW d \in Seq(Bytes), NEW n, NEW m, StartsAt(d, n), IsRun(d, n, m)
  PROVE  /\ Upto(d, n, m) \in Seq(Coded)
         /\ IsUpto(Upto(d, n, m), Closed(Blocks(d)[n]).done, d, n, m)
<1> DEFINE w == Upto(d, n, m)
           a == Closed(Blocks(d)[n]).done
           p == Part(d, n, m)
<1>1. n \in 0 .. Len(d) /\ m \in n .. Len(d) /\ m - n < MaxByte /\ MaxByte \in Nat \ {0, 1}
  BY CobsAssumption DEF IsRun
<1>2. m - n + 1 \in Coded  BY <1>1 DEF Coded
<1>3. a \in Seq(Coded)  BY <1>1, BlocksFine, ClosedIs DEF Fine
<1>4. Len(p) = m - n /\ \A i \in 1 .. m - n : p[i] = d[n + i]  BY <1>1, PartIs
<1>5. p \in Seq(Coded)
  <2>1. p \in Seq(Bytes)  BY <1>1, PartIs
  <2>2. \A i \in 1 .. Len(p) : p[i] \in Coded
    <3> SUFFICES ASSUME NEW i \in 1 .. Len(p) PROVE p[i] \in Coded  OBVIOUS
    <3>1. n + i \in n + 1 .. m /\ n + i \in 1 .. Len(d) /\ p[i] = d[n + i]  BY <1>1, <1>4
    <3>2. d[n + i] \in Bytes /\ d[n + i] # esc  BY <3>1 DEF IsRun
    <3> QED  BY <3>1, <3>2, CobsAssumption DEF Bytes, Coded, esc
  <2> HIDE DEF p
  <2> QED  BY <2>1, <2>2
<1>6. w = Joint(a, m - n + 1, p)  BY DEF Upto
<1> HIDE DEF w, p, a
<1>7. w \in Seq(Coded) /\ IsJoint(w, a, m - n + 1, p)  BY <1>2, <1>3, <1>5, <1>6, Joined
<1>8. IsUpto(w, a, d, n, m)  BY <1>3, <1>4, <1>7 DEF IsJoint, IsUpto
<1> QED  BY <1>7, <1>8 DEF w, a

\* What the encoder does at the end of such a block.
LEMMA RunEnds ==
  ASSUME NEW d \in Seq(Bytes), NEW n, NEW m, StartsAt(d, n), IsRun(d, n, m)
  PROVE  /\ m # n => NewBlock(Blocks(d)[m]).done = Upto(d, n, m)
         /\ m - n + 1 < MaxByte =>
              /\ Closed(Blocks(d)[m]) = [done |-> Closed(Blocks(d)[n]).done, block |-> Part(d, n, m)]
              /\ NewBlock(Closed(Blocks(d)[m])).done = Upto(d, n, m)
         /\ m - n + 1 = MaxByte => Closed(Blocks(d)[m]) = [done |-> Upto(d, n, m), block |-> <<>>]
<1> DEFINE a == Closed(Blocks(d)[n]).done
           p == Part(d, n, m)
           x == [done |-> a, block |-> p]
           b == Blocks(d)[m]
<1>1. n \in 0 .. Len(d) /\ m \in n .. Len(d) /\ m \in 0 .. Len(d) /\ MaxByte \in Nat \ {0, 1}
  BY CobsAssumption DEF IsRun
<1>2. Fine(b)  BY <1>1, BlocksFine
<1>3. Len(p) = m - n  BY <1>1, PartIs
<1>4. NewBlock(x).done = Upto(d, n, m)  BY <1>3 DEF NewBlock, Upto, Joint
<1>5. m # n => b = x  BY RunInBlock DEF StartsAt
<1>6. ASSUME m - n + 1 < MaxByte PROVE Closed(b) = x
  <2>1. CASE m = n
    <3>1. p = <<>>  BY <1>1, <2>1, SubSeqEmpty DEF Part
    <3>2. Fine(Closed(b)) /\ Closed(b).block = <<>> /\ Closed(b).done = a
      BY <1>2, <2>1, ClosedIs DEF StartsAt
    <3>3. Closed(b) = [done |-> Closed(b).done, block |-> Closed(b).block]  BY <3>2 DEF Fine
    <3> QED  BY <3>1, <3>2, <3>3
  <2>2. CASE m # n
    <3>1. b = x  BY <1>5, <2>2
    <3>2. Len(b.block) + 1 < MaxByte  BY <1>3, <1>6, <3>1
    <3> QED  BY <1>2, <3>1, <3>2, ClosedIs
  <2> QED  BY <2>1, <2>2
<1>7. ASSUME m - n + 1 = MaxByte PROVE Closed(b) = [done |-> Upto(d, n, m), block |-> <<>>]
  <2>1. m # n  BY <1>1, <1>7
  <2>2. b = x  BY <1>5, <2>1
  <2>3. Len(b.block) + 1 = MaxByte  BY <1>3, <1>7, <2>2
  <2>4. Closed(b) = NewBlock(x)  BY <1>2, <2>2, <2>3, ClosedIs
  <2>5. NewBlock(x) = [done |-> NewBlock(x).done, block |-> <<>>]  BY DEF NewBlock
  <2> QED  BY <1>4, <2>4, <2>5
<1> QED  BY <1>4, <1>5, <1>6, <1>7

\* All that the encoder writes for d.
Encoded(d) == NewBlock(Blocks(d)[Len(d)]).done

\* It begins with what is done behind n bytes, and is longer.
LEMMA EncodedBegins ==
  ASSUME NEW d \in Seq(Bytes), NEW n \in 0 .. Len(d)
  PROVE  /\ Encoded(d) \in Seq(Coded)
         /\ Begins(Blocks(d)[n].done, Encoded(d)) /\ Len(Blocks(d)[n].done) < Len(Encoded(d))
<1> DEFINE e == Blocks(d)[Len(d)]
           w == Encoded(d)
           a == Blocks(d)[n].done
           c == e.done
           b == e.block
<1>1. Len(d) \in 0 .. Len(d) /\ Len(d) \in n .. Len(d)  OBVIOUS
<1>2. Fine(e) /\ w = NewBlock(e).done  BY <1>1, BlocksFine DEF Encoded
<1>3. /\ w \in Seq(Coded) /\ Len(w) = Len(c) + 1 + Len(b)
      /\ \A i \in 1 .. Len(c) : w[i] = c[i]
  BY <1>2, NewBlockIs DEF IsJoint
<1>4. c \in Seq(Coded) /\ b \in Seq(Coded)  BY <1>2 DEF Fine
<1>5. Begins(a, c)  BY <1>1, DoneGrows
<1>6. a \in Seq(Coded)  BY BlocksFine DEF Fine
<1> HIDE DEF a, b, c, w
<1>7. Len(a) \in Nat /\ Len(b) \in Nat /\ Len(c) \in Nat /\ Len(a) <= Len(c)
  BY <1>4, <1>5, <1>6 DEF Begins
<1>8. \A i \in 1 .. Len(a) : i \in 1 .. Len(c) /\ a[i] = w[i]  BY <1>3, <1>5, <1>7 DEF Begins
<1>9. Len(a) < Len(w)  BY <1>3, <1>7
<1> QED  BY <1>3, <1>7, <1>8, <1>9 DEF Begins, a, w

\* Behind n bytes the encoder ends, or goes on with a block that ends behind m.
GoesOn(d, n, m) ==
    /\ IsRun(d, n, m)
    /\ Begins(Upto(d, n, m), Encoded(d))
    /\ m = Len(d) => Encoded(d) = Upto(d, n, m)
    /\ m < Len(d) => /\ Len(Upto(d, n, m)) < Len(Encoded(d))
                     /\ m - n + 1 = MaxByte \/ d[m + 1] = esc

\* A block ends at a zero, at the end of the bytes, or when it is full.
LEMMA BlockFollows ==
  ASSUME NEW d \in Seq(Bytes), NEW n, StartsAt(d, n)
  PROVE  Encoded(d) = Closed(Blocks(d)[n]).done \/ \E m : GoesOn(d, n, m)
<1> DEFINE Ends == {m \in Nat : /\ n <= m /\ m <= Len(d)
                                /\ m = Len(d) \/ m - n + 1 = MaxByte \/ d[m + 1] = esc}
<1>1. n \in 0 .. Len(d) /\ MaxByte \in Nat \ {0, 1} /\ Len(d) \in Nat
  BY CobsAssumption DEF StartsAt
<1>2. Len(d) \in Ends  BY <1>1
<1>3. PICK m \in Ends : \A j \in Ends : m <= j  BY <1>2, LeastNat
<1>4. \A i \in n + 1 .. m : d[i] # esc
  <2> SUFFICES ASSUME NEW i \in n + 1 .. m, d[i] = esc PROVE FALSE  OBVIOUS
  <2>1. i - 1 \in Nat /\ n <= i - 1 /\ i - 1 <= Len(d) /\ (i - 1) + 1 = i /\ i - 1 < m
    BY <1>1, <1>3
  <2>2. i - 1 \in Ends  BY <2>1
  <2> QED  BY <1>3, <2>1, <2>2
<1>5. m - n < MaxByte
  <2> SUFFICES ASSUME m - n >= MaxByte PROVE FALSE  BY <1>1, <1>3
  <2> DEFINE j == n + MaxByte - 1
  <2>1. j \in Nat /\ n <= j /\ j <= Len(d) /\ j - n + 1 = MaxByte /\ j < m  BY <1>1, <1>3
  <2>2. j \in Ends  BY <2>1
  <2> QED  BY <1>3, <2>1, <2>2
<1>6. IsRun(d, n, m)  BY <1>1, <1>3, <1>4, <1>5 DEF IsRun
<1>7. m \in 0 .. Len(d)  BY <1>1, <1>3
<1> DEFINE w == Upto(d, n, m)
           v == Encoded(d)
           a == Closed(Blocks(d)[n]).done
<1>8. w \in Seq(Coded) /\ v \in Seq(Coded)  BY <1>1, <1>6, UptoIs, EncodedBegins
<1>9. /\ m # n => NewBlock(Blocks(d)[m]).done = w
      /\ m - n + 1 < MaxByte => NewBlock(Closed(Blocks(d)[m])).done = w
      /\ m - n + 1 = MaxByte => Closed(Blocks(d)[m]) = [done |-> w, block |-> <<>>]
  BY <1>6, RunEnds
<1>10. CASE m = Len(d)
  <2>1. CASE m # n
    <3>1. v = w  BY <1>9, <1>10, <2>1 DEF Encoded
    <3>2. Begins(w, v)  BY <1>8, <3>1 DEF Begins
    <3> QED  BY <1>6, <1>10, <3>1, <3>2 DEF GoesOn
  <2>2. CASE m = n /\ Len(Blocks(d)[m].block) + 1 = MaxByte
    <3>1. Closed(Blocks(d)[m]) = NewBlock(Blocks(d)[m])  BY <1>7, <2>2, BlocksFine, ClosedIs
    <3> QED  BY <1>10, <2>2, <3>1 DEF Encoded
  <2>3. CASE m = n /\ Len(Blocks(d)[m].block) + 1 # MaxByte
    <3>1. Closed(Blocks(d)[m]) = Blocks(d)[m]  BY <2>3 DEF Closed
    <3>2. v = w  BY <1>1, <1>9, <1>10, <2>3, <3>1 DEF Encoded
    <3>3. Begins(w, v)  BY <1>8, <3>2 DEF Begins
    <3> QED  BY <1>6, <1>10, <3>2, <3>3 DEF GoesOn
  <2> QED  BY <2>1, <2>2, <2>3
<1>11. CASE m # Len(d)
  <2>1. m < Len(d) /\ m + 1 \in 1 .. Len(d) /\ m + 1 \in 0 .. Len(d) /\ (m + 1) - 1 = m
        /\ (m - n + 1 = MaxByte \/ d[m + 1] = esc)
    BY <1>3, <1>7, <1>11
  <2> DEFINE e == Blocks(d)[m + 1]
             f == Closed(Blocks(d)[m])
  <2>2. d[m + 1] \in Bytes /\ Fine(Blocks(d)[m]) /\ e = Put(Blocks(d)[m], d[m + 1])
    BY <1>7, <2>1, BlocksFine, BlocksAre
  <2>3. Fine(f) /\ Fine(e)  BY <1>7, <2>1, <2>2, BlocksFine, ClosedIs
  <2>4. Begins(w, e.done)
    <3>1. CASE m - n + 1 = MaxByte /\ d[m + 1] # esc
      <4>1. e.done = w  BY <1>9, <2>2, <3>1, PutIs
      <4> QED  BY <1>8, <4>1 DEF Begins
    <3>2. CASE m - n + 1 = MaxByte /\ d[m + 1] = esc
      <4>1. e = NewBlock(f) /\ f.done = w  BY <1>9, <2>2, <3>2, PutIs
      <4> DEFINE u == NewBlock(f).done
                 b == f.block
                 c == f.done
      <4>2. Len(u) = Len(c) + 1 + Len(b) /\ \A i \in 1 .. Len(c) : u[i] = c[i]
        BY <2>3, NewBlockIs DEF IsJoint
      <4>3. b \in Seq(Coded)  BY <2>3 DEF Fine
      <4> HIDE DEF u, b
      <4>4. Len(b) \in Nat  BY <4>3
      <4>5. c = w  BY <4>1
      <4>6. Begins(w, u)  BY <1>8, <4>2, <4>4, <4>5 DEF Begins
      <4> QED  BY <4>1, <4>6 DEF u
    <3>3. CASE m - n + 1 # MaxByte
      <4>1. m - n + 1 < MaxByte /\ d[m + 1] = esc  BY <1>1, <1>5, <1>7, <2>1, <3>3
      <4>2. e.done = w  BY <1>9, <2>2, <4>1, PutIs
      <4> QED  BY <1>8, <4>2 DEF Begins
    <3> QED  BY <3>1, <3>2, <3>3
  <2>5. Begins(e.done, v) /\ Len(e.done) < Len(v)  BY <2>1, EncodedBegins
  <2> DEFINE c == e.done
  <2>6. c \in Seq(Coded)  BY <2>3 DEF Fine
  <2>7. Begins(w, c) /\ Begins(c, v) /\ Len(c) < Len(v)  BY <2>4, <2>5
  <2> HIDE DEF w, v, c, e, f
  <2>8. Begins(w, v) /\ Len(w) < Len(v)  BY <1>8, <2>6, <2>7 DEF Begins
  <2>9. GoesOn(d, n, m)  BY <1>6, <1>11, <2>1, <2>8 DEF GoesOn, w, v
  <2> QED  BY <2>9
<1> QED  BY <1>10, <1>11

-----------------------------------------------------------------------------
(* The decoder                                                             *)

\* The decoder keeps within its buffer.
DecoderOK(d) ==
    /\ d \in [code : Coded, copy : Nat, buf : Seq(Bytes)]
    /\ d.copy < d.code /\ Len(d.buf) <= Capacity

\* It has seen s, in a block that starts behind the first n bytes of its buffer.
InBlock(d, s, n) ==
    LET m == Len(d.buf)
    IN  /\ StartsAt(d.buf, n) /\ IsRun(d.buf, n, m)
        /\ d.copy = d.code - 1 - (m - n)
        /\ s = Joint(Closed(Blocks(d.buf)[n]).done, d.code, Part(d.buf, n, m))

Reads(d, s) == (s = <<>> /\ d = Start) \/ \E n : InBlock(d, s, n)

\* What comes behind is added to the last of three parts.
LEMMA AppendJoined ==
  ASSUME NEW S, NEW a \in Seq(S), NEW x \in S, NEW p \in Seq(S), NEW c \in S
  PROVE  Append(Joint(a, x, p), c) = Joint(a, x, Append(p, c))
<1> DEFINE q == Append(p, c)
           w == Joint(a, x, p)
           v == Joint(a, x, q)
           u == Append(w, c)
<1>1. /\ q \in Seq(S) /\ Len(q) = Len(p) + 1 /\ q[Len(p) + 1] = c
      /\ \A i \in 1 .. Len(p) : q[i] = p[i]
  OBVIOUS
<1>2. w \in Seq(S) /\ IsJoint(w, a, x, p)  BY Joined
<1>3. v \in Seq(S) /\ IsJoint(v, a, x, q)  BY <1>1, Joined
<1> HIDE DEF w, v, q
<1>4. /\ u \in Seq(S) /\ Len(u) = Len(w) + 1 /\ u[Len(w) + 1] = c
      /\ \A i \in 1 .. Len(w) : u[i] = w[i]
  BY <1>2 DEF u
<1>5. Len(a) \in Nat /\ Len(p) \in Nat  OBVIOUS
<1> HIDE DEF u
<1>6. \A i \in 1 .. Len(u) : u[i] = v[i]
  <2> SUFFICES ASSUME NEW i \in 1 .. Len(u) PROVE u[i] = v[i]  OBVIOUS
  <2>1. CASE i \in 1 .. Len(a) + 1
    <3>1. i \in 1 .. Len(w)  BY <1>2, <1>5, <2>1 DEF IsJoint
    <3>2. u[i] = w[i]  BY <1>4, <3>1
    <3>3. CASE i = Len(a) + 1  BY <1>2, <1>3, <3>2, <3>3 DEF IsJoint
    <3>4. CASE i # Len(a) + 1
      <4>1. i \in 1 .. Len(a)  BY <1>5, <2>1, <3>4
      <4> QED  BY <1>2, <1>3, <3>2, <4>1 DEF IsJoint
    <3> QED  BY <3>3, <3>4
  <2>2. CASE i \notin 1 .. Len(a) + 1
    <3> DEFINE j == i - (Len(a) + 1)
    <3>1. j \in 1 .. Len(p) + 1 /\ i = Len(a) + 1 + j  BY <1>2, <1>4, <1>5, <2>2 DEF IsJoint
    <3> HIDE DEF j
    <3>2. v[i] = q[j]  BY <1>1, <1>3, <3>1 DEF IsJoint
    <3>3. CASE j = Len(p) + 1
      <4>1. i = Len(w) + 1  BY <1>2, <3>1, <3>3 DEF IsJoint
      <4> QED  BY <1>1, <1>4, <3>2, <3>3, <4>1
    <3>4. CASE j # Len(p) + 1
      <4>1. j \in 1 .. Len(p) /\ i \in 1 .. Len(w)  BY <1>2, <1>5, <3>1, <3>4 DEF IsJoint
      <4> QED  BY <1>1, <1>2, <1>4, <3>1, <3>2, <4>1 DEF IsJoint
    <3> QED  BY <3>3, <3>4
  <2> QED  BY <2>1, <2>2
<1>7. Len(u) = Len(v)  BY <1>1, <1>2, <1>3, <1>4, <1>5 DEF IsJoint
<1>8. u = v  BY <1>3, <1>4, <1>6, <1>7, SameSeq
<1> QED  BY <1>8 DEF u, v, w, q

\* A part depends on no other bytes.
LEMMA PartAgree ==
  ASSUME NEW S, NEW d \in Seq(S), NEW f \in Seq(S), NEW n \in 0 .. Len(d), NEW m \in n .. Len(d),
         m <= Len(f), \A i \in n + 1 .. m : d[i] = f[i]
  PROVE  Part(d, n, m) = Part(f, n, m)
<1> DEFINE p == Part(d, n, m)
           q == Part(f, n, m)
<1>1. /\ p \in Seq(S) /\ Len(p) = m - n /\ \A i \in 1 .. m - n : p[i] = d[n + i]
      /\ q \in Seq(S) /\ Len(q) = m - n /\ \A i \in 1 .. m - n : q[i] = f[n + i]
  <2>1. n \in 0 .. Len(f) /\ m \in n .. Len(f)  OBVIOUS
  <2> QED  BY <2>1, PartIs
<1>2. \A i \in 1 .. m - n : n + i \in n + 1 .. m  OBVIOUS
<1> HIDE DEF p, q
<1>3. \A i \in 1 .. Len(p) : p[i] = q[i]  BY <1>1, <1>2
<1>4. p = q  BY <1>1, <1>3, SameSeq
<1> QED  BY <1>4 DEF p, q

\* The first byte of a block is its code.
LEMMA CodeReads ==
  ASSUME NEW buf \in Seq(Bytes), NEW s \in Seq(Coded), NEW c \in Coded,
         Closed(Blocks(buf)[Len(buf)]) = [done |-> s, block |-> <<>>]
  PROVE  InBlock([code |-> c, copy |-> c - 1, buf |-> buf], Append(s, c), Len(buf))
<1> DEFINE m == Len(buf)
<1>1. m \in 0 .. m /\ m \in Nat  OBVIOUS
<1>2. StartsAt(buf, m)  BY <1>1 DEF StartsAt
<1>3. IsRun(buf, m, m)  BY <1>1, CobsAssumption DEF IsRun
<1>4. Part(buf, m, m) = <<>>  BY <1>1, SubSeqEmpty DEF Part
<1>5. Append(s, c) = Joint(s, c, <<>>)  BY DEF Joint
<1>6. c - 1 = c - 1 - (m - m)  BY <1>1 DEF Coded
<1>7. Closed(Blocks(buf)[m]).done = s  OBVIOUS
<1> QED  BY <1>2, <1>3, <1>4, <1>5, <1>6, <1>7 DEF InBlock

\* A byte of a block is put into the buffer.
LEMMA ByteReads ==
  ASSUME NEW d, DecoderOK(d), NEW s, NEW n, InBlock(d, s, n), NEW c \in Coded, d.copy > 0
  PROVE  InBlock([code |-> d.code, copy |-> d.copy - 1, buf |-> Append(d.buf, c)], Append(s, c), n)
<1> DEFINE buf == d.buf
           new == Append(d.buf, c)
           m == Len(buf)
           a == Closed(Blocks(buf)[n]).done
           p == Part(buf, n, m)
<1>1. /\ d.code \in 1 .. MaxByte /\ d.copy \in Nat /\ buf \in Seq(Bytes) /\ d.copy < d.code
      /\ MaxByte \in Nat \ {0, 1}
  BY CobsAssumption DEF DecoderOK, Coded
<1>2. n \in 0 .. m /\ m \in Nat /\ d.copy = d.code - 1 - (m - n)
  BY <1>1 DEF InBlock, StartsAt
<1>3. StartsAt(buf, n) /\ IsRun(buf, n, m) /\ s = Joint(a, d.code, p)  BY DEF InBlock
<1>4. c \in Bytes /\ c # esc  BY <1>1 DEF Coded, Bytes, esc
<1>5. /\ new \in Seq(Bytes) /\ Len(new) = m + 1 /\ new[m + 1] = c
      /\ \A i \in 1 .. m : new[i] = buf[i]
  BY <1>1, <1>4
<1> HIDE DEF buf, new
<1>6. Blocks(new)[n] = Blocks(buf)[n]
  <2>1. n \in 0 .. Len(buf) /\ n <= Len(new) /\ \A i \in 1 .. n : buf[i] = new[i]
    BY <1>2, <1>5
  <2> QED  BY <1>1, <1>5, <2>1, BlocksAgree
<1>7. StartsAt(new, n)  BY <1>2, <1>3, <1>5, <1>6 DEF StartsAt
<1>8. IsRun(new, n, m + 1)
  <2>1. m + 1 \in n .. Len(new) /\ (m + 1) - n < MaxByte /\ n \in 0 .. Len(new)  BY <1>1, <1>2, <1>5
  <2>2. \A i \in n + 1 .. m + 1 : new[i] # esc
    <3> SUFFICES ASSUME NEW i \in n + 1 .. m + 1 PROVE new[i] # esc  OBVIOUS
    <3>1. CASE i = m + 1  BY <1>4, <1>5, <3>1
    <3>2. CASE i # m + 1
      <4>1. i \in n + 1 .. m /\ i \in 1 .. m  BY <1>2, <3>2
      <4> QED  BY <1>3, <1>5, <4>1 DEF IsRun
    <3> QED  BY <3>1, <3>2
  <2> QED  BY <2>1, <2>2 DEF IsRun
<1>9. Part(new, n, m + 1) = Append(p, c)
  <2>1. n \in 0 .. Len(new) /\ m + 1 \in n .. Len(new) /\ m + 1 # n /\ (m + 1) - 1 = m  BY <1>2, <1>5
  <2>2. Part(new, n, m + 1) = Append(Part(new, n, m), c)  BY <1>5, <2>1, PartGrows
  <2>3. m \in n .. Len(new) /\ m <= Len(buf) /\ \A i \in n + 1 .. m : new[i] = buf[i]  BY <1>2, <1>5
  <2>4. Part(new, n, m) = Part(buf, n, m)  BY <1>1, <1>5, <2>1, <2>3, PartAgree
  <2> QED  BY <2>2, <2>4
<1>10. Append(s, c) = Joint(a, d.code, Append(p, c))
  <2>1. a \in Seq(Coded)  BY <1>1, <1>2, BlocksFine, ClosedIs DEF Fine
  <2>2. m \in n .. Len(buf)  BY <1>2
  <2>3. p \in Seq(Bytes)  BY <1>1, <1>2, <2>2, PartIs
  <2>4. a \in Seq(Bytes)  BY <2>1, SeqMonotonic, CobsAssumption DEF Coded, Bytes
  <2>5. d.code \in Bytes  BY <1>1 DEF Bytes
  <2> HIDE DEF a, p
  <2> QED  BY <1>3, <1>4, <2>3, <2>4, <2>5, AppendJoined
<1>11. d.copy - 1 = d.code - 1 - ((m + 1) - n)  BY <1>1, <1>2
<1> DEFINE e == [code |-> d.code, copy |-> d.copy - 1, buf |-> new]
<1>12. InBlock(e, Append(s, c), n)
  <2>1. e.code = d.code /\ e.copy = d.copy - 1 /\ e.buf = new  OBVIOUS
  <2> HIDE DEF e
  <2> QED  BY <1>5, <1>6, <1>7, <1>8, <1>9, <1>10, <1>11, <2>1 DEF InBlock
<1> QED  BY <1>12 DEF new, buf

\* The decoder behind a byte that it takes.
Taken(d, c) ==
    IF d.copy > 0 THEN [code |-> d.code, copy |-> d.copy - 1, buf |-> Append(d.buf, c)]
    ELSE IF d.code # MaxByte THEN [code |-> c, copy |-> c - 1, buf |-> Append(d.buf, esc)]
    ELSE [code |-> c, copy |-> c - 1, buf |-> d.buf]

\* It has no room for what it would write.
IsFull(d) == (d.copy > 0 \/ d.code # MaxByte) /\ Len(d.buf) >= Capacity

\* What the code writes into the decoder.
LEMMA DecoderWith ==
  ASSUME NEW d, DecoderOK(d)
  PROVE  \A x, y : /\ [d EXCEPT !.copy = x] = [code |-> d.code, copy |-> x, buf |-> d.buf]
                   /\ [d EXCEPT !.code = x, !.copy = y] = [code |-> x, copy |-> y, buf |-> d.buf]
<1> SUFFICES ASSUME NEW x, NEW y
             PROVE  /\ [d EXCEPT !.copy = x] = [code |-> d.code, copy |-> x, buf |-> d.buf]
                    /\ [d EXCEPT !.code = x, !.copy = y] = [code |-> x, copy |-> y, buf |-> d.buf]
  OBVIOUS
<1>1. d \in [code : Coded, copy : Nat, buf : Seq(Bytes)]  BY DEF DecoderOK
<1>2. [d EXCEPT !.copy = x] = [code |-> d.code, copy |-> x, buf |-> d.buf]  BY <1>1
<1>3. [d EXCEPT !.code = x, !.copy = y] = [code |-> x, copy |-> y, buf |-> d.buf]
  <2> DEFINE e == [d EXCEPT !.code = x, !.copy = y]
  <2>1. DOMAIN e = {"code", "copy", "buf"} /\ e.code = x /\ e.copy = y /\ e.buf = d.buf  BY <1>1
  <2>2. e = [i \in {"code", "copy", "buf"} |-> e[i]]  BY <1>1
  <2> HIDE DEF e
  <2>3. e = [code |-> x, copy |-> y, buf |-> d.buf]  BY <2>1, <2>2
  <2> QED  BY <2>3 DEF e
<1> QED  BY <1>2, <1>3

\* A byte that is no delimiter is taken, if there is room.
LEMMA ByteIs ==
  ASSUME NEW d, DecoderOK(d), NEW c \in Coded
  PROVE  /\ IsFull(d) => Byte(d, c) = Is(Start, "ErrorOverflow")
         /\ ~IsFull(d) => Byte(d, c) = Is(Taken(d, c), "Unknown")
<1>1. d \in [code : Coded, copy : Nat, buf : Seq(Bytes)] /\ c # esc /\ c \in Nat
  BY CobsAssumption DEF DecoderOK, Coded, esc
<1>2. CASE d.copy > 0
  <2>1. Byte(d, c) = WriteByte(d, c, [d EXCEPT !.copy = d.copy - 1])  BY <1>1, <1>2 DEF Byte
  <2>2. [[d EXCEPT !.copy = d.copy - 1] EXCEPT !.buf = Append(d.buf, c)] = Taken(d, c)
    <3> DEFINE e == [d EXCEPT !.copy = d.copy - 1]
               x == d.code
               y == d.copy - 1
               z == d.buf
               b == Append(d.buf, c)
    <3>1. e = [code |-> x, copy |-> y, buf |-> z]  BY DecoderWith
    <3> HIDE DEF e, x, y, z, b
    <3>2. [e EXCEPT !.buf = b] = [code |-> x, copy |-> y, buf |-> b]  BY <3>1
    <3> QED  BY <1>2, <3>2 DEF Taken, e, x, y, b
  <2> QED  BY <1>2, <2>1, <2>2 DEF WriteByte, IsFull
<1>3. CASE ~(d.copy > 0)
  <2> DEFINE e == [d EXCEPT !.code = c, !.copy = c - 1]
  <2>1. e = [code |-> c, copy |-> c - 1, buf |-> d.buf]  BY DecoderWith
  <2>2. Byte(d, c) = IF d.code # MaxByte THEN WriteByte(d, esc, e) ELSE Is(e, "Unknown")
    BY <1>1, <1>3 DEF Byte
  <2> HIDE DEF e
  <2>3. [e EXCEPT !.buf = Append(d.buf, esc)] = [code |-> c, copy |-> c - 1, buf |-> Append(d.buf, esc)]
    BY <2>1
  <2>4. CASE d.code = MaxByte  BY <1>3, <2>1, <2>2, <2>4 DEF Taken, IsFull
  <2>5. CASE d.code # MaxByte
    <3>1. Byte(d, c) = WriteByte(d, esc, e)  BY <2>2, <2>5
    <3>2. [e EXCEPT !.buf = Append(d.buf, esc)] = Taken(d, c)  BY <1>3, <2>3, <2>5 DEF Taken
    <3> QED  BY <1>3, <2>5, <3>1, <3>2 DEF WriteByte, IsFull
  <2> QED  BY <2>4, <2>5
<1> QED  BY <1>2, <1>3

\* The decoder stays within its buffer.
LEMMA TakenOK ==
  ASSUME NEW d, DecoderOK(d), NEW c \in Coded, ~IsFull(d)
  PROVE  DecoderOK(Taken(d, c))
<1>1. /\ d.code \in 1 .. MaxByte /\ d.copy \in Nat /\ d.buf \in Seq(Bytes) /\ d.copy < d.code
      /\ Len(d.buf) <= Capacity /\ c \in 1 .. MaxByte /\ MaxByte \in Nat \ {0, 1} /\ Capacity \in Nat
  BY CobsAssumption DEF DecoderOK, Coded, Capacity
<1>2. c \in Bytes /\ esc \in Bytes  BY <1>1 DEF Bytes, esc
<1>3. \A b \in Bytes : Append(d.buf, b) \in Seq(Bytes) /\ Len(Append(d.buf, b)) = Len(d.buf) + 1
  BY <1>1
<1>4. CASE d.copy > 0
  <2>1. Len(Append(d.buf, c)) <= Capacity  BY <1>1, <1>2, <1>3, <1>4 DEF IsFull
  <2> QED  BY <1>1, <1>2, <1>3, <1>4, <2>1 DEF DecoderOK, Taken, Coded
<1>5. CASE ~(d.copy > 0) /\ d.code # MaxByte
  <2>1. Len(Append(d.buf, esc)) <= Capacity  BY <1>1, <1>2, <1>3, <1>5 DEF IsFull
  <2> QED  BY <1>1, <1>2, <1>3, <1>5, <2>1 DEF DecoderOK, Taken, Coded
<1>6. CASE ~(d.copy > 0) /\ d.code = MaxByte  BY <1>1, <1>6 DEF DecoderOK, Taken, Coded
<1> QED  BY <1>4, <1>5, <1>6

\* A block that was read to its end is written by the encoder as it was read.
LEMMA BlockRead ==
  ASSUME NEW d, DecoderOK(d), NEW s, NEW n, InBlock(d, s, n), d.copy = 0
  PROVE  s = Upto(d.buf, n, Len(d.buf)) /\ Len(d.buf) - n + 1 = d.code
<1> DEFINE m == Len(d.buf)
<1>1. d.code \in 1 .. MaxByte /\ d.buf \in Seq(Bytes)  BY CobsAssumption DEF DecoderOK, Coded
<1>2. n \in 0 .. m /\ m \in Nat /\ 0 = d.code - 1 - (m - n)  BY <1>1 DEF InBlock, StartsAt
<1> HIDE DEF m
<1>3. m - n + 1 = d.code  BY <1>1, <1>2
<1> QED  BY <1>3 DEF InBlock, Upto, m

\* A block that is not full is finished by a zero.
LEMMA ZeroReads ==
  ASSUME NEW d \in Seq(Bytes), NEW n, StartsAt(d, n), IsRun(d, n, Len(d)), Len(d) - n + 1 < MaxByte,
         NEW f, f = Append(d, esc)
  PROVE  /\ f \in Seq(Bytes) /\ Len(f) = Len(d) + 1
         /\ Closed(Blocks(f)[Len(f)]) = [done |-> Upto(d, n, Len(d)), block |-> <<>>]
<1> DEFINE m == Len(d)
           x == Closed(Blocks(d)[m])
<1>1. esc \in Bytes  BY CobsAssumption DEF Bytes, esc
<1>2. f \in Seq(Bytes) /\ Len(f) = m + 1 /\ f[m + 1] = esc /\ \A i \in 1 .. m : f[i] = d[i]
  BY <1>1
<1>3. m \in Nat /\ m \in 0 .. Len(d) /\ m <= Len(f) /\ m + 1 \in 1 .. Len(f) /\ m + 1 - 1 = m
  BY <1>2
<1>4. Blocks(f)[m] = Blocks(d)[m]  BY <1>2, <1>3, BlocksAgree
<1>5. Fine(Blocks(d)[m]) /\ Fine(x)  BY <1>3, BlocksFine, ClosedIs
<1>6. Blocks(f)[m + 1] = NewBlock(x)
  <2> DEFINE k == m + 1
  <2>1. k \in 1 .. Len(f) /\ k - 1 = m /\ f[k] = esc  BY <1>2, <1>3
  <2> HIDE DEF k, m
  <2>2. Blocks(f)[k] = Put(Blocks(f)[k - 1], f[k])  BY <1>2, <2>1, BlocksAre
  <2>3. Blocks(f)[m + 1] = Put(Blocks(d)[m], esc)  BY <1>4, <2>1, <2>2 DEF k
  <2> QED  BY <1>1, <1>5, <2>3, PutIs DEF m
<1>7. NewBlock(x).done = Upto(d, n, m)  BY RunEnds
<1> HIDE DEF x
<1>8. NewBlock(x) = [done |-> Upto(d, n, m), block |-> <<>>] /\ Fine(NewBlock(x))
  BY <1>5, <1>7, NewBlockIs
<1>9. Len(NewBlock(x).block) + 1 < MaxByte  BY <1>8, CobsAssumption
<1>10. Closed(NewBlock(x)) = NewBlock(x)  BY <1>8, <1>9, ClosedIs
<1> QED  BY <1>2, <1>6, <1>8, <1>10

\* The decoder behind a byte has seen that byte as well.
LEMMA TakenReads ==
  ASSUME NEW d, DecoderOK(d), NEW s \in Seq(Coded), Reads(d, s), NEW c \in Coded
  PROVE  Reads(Taken(d, c), Append(s, c))
<1>1. d.code \in 1 .. MaxByte /\ d.copy \in Nat /\ d.buf \in Seq(Bytes) /\ MaxByte \in Nat \ {0, 1}
  BY CobsAssumption DEF DecoderOK, Coded
<1>2. CASE s = <<>> /\ d = Start
  <2>1. d.copy = 0 /\ d.code = MaxByte /\ d.buf = <<>>  BY <1>2 DEF Start
  <2>2. Taken(d, c) = [code |-> c, copy |-> c - 1, buf |-> <<>>]  BY <2>1 DEF Taken
  <2>3. <<>> \in Seq(Bytes) /\ Len(<<>>) = 0  BY <1>1
  <2>4. Closed(Blocks(<<>>)[0]) = [done |-> <<>>, block |-> <<>>]
    BY <2>3, FirstStart DEF Fresh
  <2> DEFINE buf == <<>>
  <2>5. /\ buf \in Seq(Bytes) /\ Closed(Blocks(buf)[Len(buf)]) = [done |-> s, block |-> <<>>]
        /\ Taken(d, c) = [code |-> c, copy |-> c - 1, buf |-> buf]
    BY <1>2, <2>2, <2>3, <2>4
  <2> HIDE DEF buf
  <2>6. InBlock(Taken(d, c), Append(s, c), Len(buf))  BY <2>5, CodeReads
  <2> QED  BY <2>6 DEF Reads
<1>3. CASE \E n : InBlock(d, s, n)
  <2>1. PICK n : InBlock(d, s, n)  BY <1>3
  <2>2. StartsAt(d.buf, n) /\ IsRun(d.buf, n, Len(d.buf))  BY <2>1 DEF InBlock
  <2>3. CASE d.copy > 0
    <3>1. Taken(d, c) = [code |-> d.code, copy |-> d.copy - 1, buf |-> Append(d.buf, c)]
      BY <2>3 DEF Taken
    <3> QED  BY <2>1, <2>3, <3>1, ByteReads DEF Reads
  <2>4. CASE ~(d.copy > 0) /\ d.code # MaxByte
    <3> DEFINE f == Append(d.buf, esc)
    <3>1. d.copy = 0  BY <1>1, <2>4
    <3>2. s = Upto(d.buf, n, Len(d.buf)) /\ Len(d.buf) - n + 1 = d.code  BY <2>1, <3>1, BlockRead
    <3>3. Len(d.buf) - n + 1 < MaxByte  BY <1>1, <2>4, <3>2
    <3>4. f \in Seq(Bytes) /\ Closed(Blocks(f)[Len(f)]) = [done |-> s, block |-> <<>>]
      BY <1>1, <2>2, <3>2, <3>3, ZeroReads
    <3>5. Taken(d, c) = [code |-> c, copy |-> c - 1, buf |-> f]  BY <2>4 DEF Taken
    <3> HIDE DEF f
    <3>6. InBlock(Taken(d, c), Append(s, c), Len(f))  BY <3>4, <3>5, CodeReads
    <3> QED  BY <3>6 DEF Reads
  <2>5. CASE ~(d.copy > 0) /\ d.code = MaxByte
    <3> DEFINE f == d.buf
    <3>1. d.copy = 0  BY <1>1, <2>5
    <3>2. s = Upto(f, n, Len(f)) /\ Len(f) - n + 1 = MaxByte  BY <2>1, <2>5, <3>1, BlockRead
    <3>3. Closed(Blocks(f)[Len(f)]) = [done |-> s, block |-> <<>>]
      BY <1>1, <2>2, <3>2, RunEnds
    <3>4. Taken(d, c) = [code |-> c, copy |-> c - 1, buf |-> f]  BY <2>5 DEF Taken
    <3> HIDE DEF f
    <3>5. InBlock(Taken(d, c), Append(s, c), Len(f))  BY <1>1, <3>3, <3>4, CodeReads DEF f
    <3> QED  BY <3>5 DEF Reads
  <2> QED  BY <2>3, <2>4, <2>5
<1> QED  BY <1>2, <1>3 DEF Reads

-----------------------------------------------------------------------------
(* Payloads                                                                *)

\* A payload and its checksum.
LEMMA DataIs ==
  ASSUME NEW p \in Payloads
  PROVE  /\ p \in Seq(Bytes) /\ Len(p) \in 1 .. packet_size
         /\ Crc(p) \in Seq(Bytes) /\ Len(Crc(p)) = 2
         /\ Data(p) \in Seq(Bytes) /\ Len(Data(p)) = Len(p) + 2 /\ Len(Data(p)) <= Capacity
         /\ \A i \in 1 .. Len(p) : Data(p)[i] = p[i]
         /\ \A i \in 1 .. 2 : Data(p)[Len(p) + i] = Crc(p)[i]
<1>1. PICK n \in 1 .. packet_size : p \in [1 .. n -> Bytes]  BY DEF Payloads
<1>2. n \in Nat /\ packet_size \in Nat  BY CobsAssumption
<1>3. p \in Seq(Bytes) /\ Len(p) = n  BY <1>1, <1>2
<1>4. Crc(p) \in [1 .. 2 -> Bytes]  BY CrcAssumption
<1> DEFINE q == Crc(p)
           d == Both(p, q)
<1>5. q \in Seq(Bytes) /\ Len(q) = 2
  <2>1. 2 \in Nat  OBVIOUS
  <2> QED  BY <1>4, <2>1, SeqIsFunction
<1> HIDE DEF q
<1>6. /\ d \in Seq(Bytes) /\ Len(d) = Len(p) + 2
      /\ \A i \in 1 .. Len(p) : d[i] = p[i]
      /\ \A i \in 1 .. 2 : d[Len(p) + i] = q[i]
  <2>1. d \in Seq(Bytes) /\ IsBoth(d, p, q)  BY <1>3, <1>5, BothJoined
  <2> HIDE DEF d
  <2> QED  BY <1>5, <2>1 DEF IsBoth
<1>7. Data(p) = d  BY DEF Data, Both, q
<1> HIDE DEF d
<1>8. Len(d) <= Capacity  BY <1>1, <1>2, <1>3, <1>6 DEF Capacity
<1> QED  BY <1>1, <1>3, <1>5, <1>6, <1>7, <1>8 DEF q

\* Bytes whose last two are the checksum of those before are a payload and its
\* checksum.
LEMMA IsData ==
  ASSUME NEW d \in Seq(Bytes), 2 < Len(d), Len(d) <= Capacity,
         SubSeq(d, Len(d) - 1, Len(d)) = Crc(SubSeq(d, 1, Len(d) - 2))
  PROVE  /\ SubSeq(d, 1, Len(d) - 2) \in Payloads
         /\ Data(SubSeq(d, 1, Len(d) - 2)) = d
<1> DEFINE n == Len(d) - 2
           p == SubSeq(d, 1, n)
           c == SubSeq(d, Len(d) - 1, Len(d))
<1>0. c = Crc(p)  OBVIOUS
<1>1. n \in 1 .. packet_size /\ n \in 0 .. Len(d) /\ n \in Nat /\ Len(d) = n + 2 /\ 0 \in 0 .. Len(d)
  BY CobsAssumption DEF Capacity
<1>2. p = Part(d, 0, n)  BY <1>1 DEF Part
<1> HIDE DEF n, p, c
<1>3. p \in Seq(Bytes) /\ Len(p) = n /\ \A i \in 1 .. n : p[i] = d[i]
  <2>1. n \in 0 .. Len(d)  BY <1>1
  <2>2. /\ Part(d, 0, n) \in Seq(Bytes) /\ Len(Part(d, 0, n)) = n - 0
        /\ \A i \in 1 .. n - 0 : Part(d, 0, n)[i] = d[0 + i]
    BY <1>1, <2>1, PartIs
  <2>3. \A i \in 1 .. n : 0 + i = i  BY <1>1
  <2> QED  BY <1>1, <1>2, <2>2, <2>3
<1>4. p \in [1 .. n -> Bytes]  BY <1>1, <1>3, SeqIsFunction
<1>5. p \in Payloads  BY <1>1, <1>4 DEF Payloads
<1>6. Crc(p) = Part(d, n, n + 2)
  <2>1. Len(d) - 1 = n + 1 /\ Len(d) = n + 2  BY <1>1
  <2> QED  BY <1>0, <2>1 DEF Part, c
<1>7. \A i \in 1 .. 2 : Crc(p)[i] = d[n + i]
  <2>1. n + 2 \in n .. Len(d) /\ (n + 2) - n = 2  BY <1>1
  <2>2. \A i \in 1 .. (n + 2) - n : Part(d, n, n + 2)[i] = d[n + i]  BY <1>1, <2>1, PartIs
  <2> QED  BY <1>6, <2>1, <2>2
<1>8. /\ Data(p) \in Seq(Bytes) /\ Len(Data(p)) = n + 2
      /\ \A i \in 1 .. n : Data(p)[i] = d[i]
      /\ \A i \in 1 .. 2 : Data(p)[n + i] = d[n + i]
  BY <1>3, <1>5, <1>7, DataIs
<1>9. \A i \in 1 .. n + 2 : Data(p)[i] = d[i]
  <2> SUFFICES ASSUME NEW i \in 1 .. n + 2 PROVE Data(p)[i] = d[i]  OBVIOUS
  <2>1. CASE i \in 1 .. n  BY <1>8, <2>1
  <2>2. CASE i \notin 1 .. n
    <3>1. i - n \in 1 .. 2 /\ n + (i - n) = i  BY <1>1, <2>2
    <3> QED  BY <1>8, <3>1
  <2> QED  BY <2>1, <2>2
<1> DEFINE f == Data(p)
<1>10. f \in Seq(Bytes) /\ Len(f) = Len(d) /\ \A i \in 1 .. Len(f) : f[i] = d[i]
  BY <1>1, <1>8, <1>9
<1> HIDE DEF f
<1>11. f = d  BY <1>10, SameSeq
<1> QED  BY <1>5, <1>11 DEF f, p, n

\* What a delimiter does.
LEMMA DelimiterIs ==
  ASSUME NEW d, DecoderOK(d), NEW b, b = Byte(d, esc)
  PROVE  /\ b.dec = Start /\ b.status \in {"ErrorSize", "ErrorCRC", "PacketAvailable"}
         /\ b.status = "PacketAvailable" <=>
              /\ d.copy = 0 /\ 2 < Len(d.buf)
              /\ SubSeq(d.buf, Len(d.buf) - 1, Len(d.buf)) = Crc(SubSeq(d.buf, 1, Len(d.buf) - 2))
<1> DEFINE l == Len(d.buf)
           sum == SubSeq(d.buf, (l - 2) + 1, (l - 2) + 2)
           crc == Crc(SubSeq(d.buf, 1, l - 2))
<1>1. d.copy \in Nat /\ d.buf \in Seq(Bytes)  BY DEF DecoderOK
<1>2. l \in Nat  BY <1>1
<1>3. b = IF d.copy > 0 \/ l <= 2 THEN Is(Start, "ErrorSize")
          ELSE IF sum = crc THEN Is(Start, "PacketAvailable") ELSE Is(Start, "ErrorCRC")
  BY DEF Byte, Delimiter
<1>4. sum = SubSeq(d.buf, l - 1, l)
  <2>1. (l - 2) + 1 = l - 1 /\ (l - 2) + 2 = l  BY <1>2
  <2> QED  BY <2>1
<1> HIDE DEF l, sum, crc
<1>5. d.copy = 0 <=> ~(d.copy > 0)  BY <1>1
<1>6. 2 < l <=> ~(l <= 2)  BY <1>2
<1>7. /\ b.dec = Start /\ b.status \in {"ErrorSize", "ErrorCRC", "PacketAvailable"}
      /\ b.status = "PacketAvailable" <=> d.copy = 0 /\ 2 < l /\ sum = crc
  BY <1>3, <1>5, <1>6 DEF Is
<1> QED  BY <1>4, <1>7 DEF l, crc

\* What was read up to the end of a block is what the encoder writes for it, or
\* that and an empty block.
LEMMA WrittenAsRead ==
  ASSUME NEW d, DecoderOK(d), NEW s, NEW n, InBlock(d, s, n), d.copy = 0
  PROVE  s = Encoded(d.buf) \/ s = Append(Encoded(d.buf), 1)
<1> DEFINE f == d.buf
           m == Len(f)
           b == Blocks(f)[m]
           a == Closed(Blocks(f)[n]).done
<1>1. f \in Seq(Bytes) /\ m \in Nat /\ m \in 0 .. m /\ MaxByte \in Nat \ {0, 1}
  BY CobsAssumption DEF DecoderOK
<1>2. StartsAt(f, n) /\ IsRun(f, n, m)  BY DEF InBlock
<1>3. s = Upto(f, n, m)  BY BlockRead
<1>4. /\ m # n => NewBlock(b).done = s
      /\ m - n + 1 < MaxByte => NewBlock(Closed(b)).done = s
  BY <1>1, <1>2, <1>3, RunEnds
<1>5. Encoded(f) = NewBlock(b).done  BY DEF Encoded
<1>6. CASE m # n  BY <1>4, <1>5, <1>6
<1>7. CASE m = n
  <2>1. m - n + 1 < MaxByte  BY <1>1, <1>7
  <2>2. CASE Len(b.block) + 1 # MaxByte
    <3>1. Closed(b) = b  BY <2>2 DEF Closed
    <3> QED  BY <1>4, <1>5, <2>1, <3>1
  <2>3. CASE Len(b.block) + 1 = MaxByte
    <3>1. Closed(b) = NewBlock(b)  BY <2>3 DEF Closed
    <3>2. a = Encoded(f)  BY <1>5, <1>7, <3>1
    <3>3. m - n + 1 = 1  BY <1>1, <1>7
    <3>4. Part(f, n, m) = <<>>  BY <1>1, <1>7, SubSeqEmpty DEF Part
    <3>5. s = Joint(a, 1, <<>>)  BY <1>3, <3>3, <3>4 DEF Upto
    <3>6. a \in Seq(Coded)  BY <1>1, <1>7, BlocksFine, ClosedIs DEF Fine
    <3> HIDE DEF a
    <3>7. Joint(a, 1, <<>>) = Append(a, 1)  BY <3>6 DEF Joint
    <3> QED  BY <3>2, <3>5, <3>7
  <2> QED  BY <2>2, <2>3
<1> QED  BY <1>6, <1>7

\* A packet that the decoder gives is one that the encoder wrote.
LEMMA PacketRead ==
  ASSUME NEW d, DecoderOK(d), NEW s \in Seq(Coded), Reads(d, s),
         Byte(d, esc).status = "PacketAvailable",
         NEW p, p = SubSeq(d.buf, 1, Len(d.buf) - 2)
  PROVE  p \in Payloads /\ (s = Encode(p) \/ s = Append(Encode(p), 1))
<1>1. /\ d.copy = 0 /\ 2 < Len(d.buf)
      /\ SubSeq(d.buf, Len(d.buf) - 1, Len(d.buf)) = Crc(p)
  BY DelimiterIs
<1>2. d.buf \in Seq(Bytes) /\ Len(d.buf) <= Capacity  BY DEF DecoderOK
<1>3. p \in Payloads /\ Data(p) = d.buf
  <2> DEFINE f == d.buf
  <2>1. /\ f \in Seq(Bytes) /\ 2 < Len(f) /\ Len(f) <= Capacity
        /\ SubSeq(f, Len(f) - 1, Len(f)) = Crc(SubSeq(f, 1, Len(f) - 2))
    BY <1>1, <1>2
  <2> HIDE DEF f
  <2>2. SubSeq(f, 1, Len(f) - 2) \in Payloads /\ Data(SubSeq(f, 1, Len(f) - 2)) = f  BY <2>1, IsData
  <2> QED  BY <2>2 DEF f
<1>4. d # Start  BY <1>1 DEF Start
<1>5. PICK n : InBlock(d, s, n)  BY <1>4 DEF Reads
<1>6. Encoded(d.buf) = Encode(p)  BY <1>3 DEF Encoded, Encode
<1> QED  BY <1>1, <1>3, <1>5, <1>6, WrittenAsRead

-----------------------------------------------------------------------------
(* The decoder of bytes as they were encoded                               *)

\* A decoder that has seen how Encoded(f) begins has the first bytes of f.
Follows(d, s, f) == s # <<>> /\ Begins(s, Encoded(f)) => Begins(d.buf, f)

\* It knows where its block ends.
LEMMA BlockAhead ==
  ASSUME NEW f \in Seq(Bytes), NEW d, DecoderOK(d), NEW s, NEW n, InBlock(d, s, n),
         Begins(s, Encoded(f)), Begins(d.buf, f)
  PROVE  \E m : /\ GoesOn(f, n, m) /\ d.code = m - n + 1
                /\ n \in 0 .. Len(d.buf) /\ Len(d.buf) <= m
                /\ d.copy = m - Len(d.buf)
                /\ Len(s) = Len(Upto(f, n, m)) - d.copy
<1> DEFINE buf == d.buf
           l == Len(buf)
           a == Closed(Blocks(f)[n]).done
           p == Part(buf, n, l)
           w == Encoded(f)
<1>1. /\ buf \in Seq(Bytes) /\ l \in Nat /\ d.code \in 1 .. MaxByte /\ d.copy \in Nat
      /\ d.copy < d.code /\ MaxByte \in Nat \ {0, 1}
  BY CobsAssumption DEF DecoderOK, Coded
<1>2. StartsAt(buf, n) /\ IsRun(buf, n, l)  BY DEF InBlock
<1>3. n \in 0 .. l /\ l \in n .. Len(buf)  BY <1>1, <1>2 DEF StartsAt
<1>4. l <= Len(f) /\ \A i \in 1 .. l : buf[i] = f[i]  BY DEF Begins
<1>5. Blocks(buf)[n] = Blocks(f)[n]
  <2>1. n \in 0 .. Len(buf) /\ n <= Len(f) /\ \A i \in 1 .. n : buf[i] = f[i]  BY <1>1, <1>3, <1>4
  <2> QED  BY <1>1, <2>1, BlocksAgree
<1>6. d.copy = d.code - 1 - (l - n) /\ s = Joint(a, d.code, p)  BY <1>5 DEF InBlock
<1>7. n \in 0 .. Len(f) /\ StartsAt(f, n)  BY <1>1, <1>2, <1>3, <1>4, <1>5 DEF StartsAt
<1>8. a \in Seq(Coded)  BY <1>7, BlocksFine, ClosedIs DEF Fine
<1>9. a \in Seq(Bytes)  BY <1>8, SeqMonotonic, CobsAssumption DEF Coded, Bytes
<1>10. p \in Seq(Bytes) /\ Len(p) = l - n  BY <1>1, <1>3, PartIs
<1>11. w \in Seq(Coded)  BY <1>7, EncodedBegins
<1>12. d.code \in Bytes  BY <1>1 DEF Bytes
<1> HIDE DEF a, p, w, l, buf
<1>13. IsJoint(s, a, d.code, p)  BY <1>6, <1>9, <1>10, <1>12, Joined
<1>14. Len(s) = Len(a) + 1 + (l - n) /\ s[Len(a) + 1] = d.code  BY <1>10, <1>13 DEF IsJoint
<1>15. Len(s) <= Len(w) /\ \A i \in 1 .. Len(s) : s[i] = w[i]  BY DEF Begins, w
<1>16. Len(a) \in Nat  BY <1>8
<1>17. w # a  BY <1>1, <1>3, <1>14, <1>15, <1>16
<1>18. PICK m : GoesOn(f, n, m)  BY <1>7, <1>17, BlockFollows DEF w, a
<1>19. IsRun(f, n, m) /\ Begins(Upto(f, n, m), w)  BY <1>18 DEF GoesOn, w
<1> DEFINE u == Upto(f, n, m)
<1>20. Len(u) = Len(a) + 1 + (m - n) /\ u[Len(a) + 1] = m - n + 1
  <2>1. IsUpto(u, a, f, n, m)  BY <1>7, <1>19, UptoIs DEF a
  <2> HIDE DEF u
  <2> QED  BY <2>1 DEF IsUpto
<1>21. m \in n .. Len(f) /\ m \in Nat  BY <1>7, <1>19 DEF IsRun
<1>22. Len(a) + 1 \in 1 .. Len(u) /\ Len(a) + 1 \in 1 .. Len(s)
  BY <1>1, <1>3, <1>14, <1>16, <1>20, <1>21
<1>23. u[Len(a) + 1] = w[Len(a) + 1]  BY <1>19, <1>22 DEF Begins
<1>24. d.code = m - n + 1  BY <1>14, <1>15, <1>20, <1>22, <1>23
<1>25. d.copy = m - l  BY <1>1, <1>3, <1>6, <1>21, <1>24
<1>26. l <= m  BY <1>1, <1>21, <1>25
<1>27. Len(s) = Len(u) - d.copy  BY <1>1, <1>3, <1>14, <1>16, <1>20, <1>21, <1>25
<1> QED  BY <1>3, <1>18, <1>24, <1>25, <1>26, <1>27 DEF l, buf

\* It has room for the next byte, and writes what comes next in f.
LEMMA TakenFollows ==
  ASSUME NEW f \in Seq(Bytes), Len(f) <= Capacity, NEW d, DecoderOK(d),
         NEW s \in Seq(Coded), Reads(d, s), Follows(d, s, f), NEW c \in Coded,
         Begins(Append(s, c), Encoded(f))
  PROVE  ~IsFull(d) /\ Begins(Taken(d, c).buf, f)
<1> DEFINE w == Encoded(f)
           buf == d.buf
           l == Len(buf)
           t == Append(s, c)
<1>1. /\ buf \in Seq(Bytes) /\ l \in Nat /\ d.code \in 1 .. MaxByte /\ d.copy \in Nat
      /\ MaxByte \in Nat \ {0, 1} /\ Capacity \in Nat /\ Len(f) \in Nat
  BY CobsAssumption DEF DecoderOK, Coded, Capacity
<1>2. t \in Seq(Coded) /\ Len(t) = Len(s) + 1 /\ t[Len(s) + 1] = c /\ \A i \in 1 .. Len(s) : t[i] = s[i]
  OBVIOUS
<1>3. Len(t) <= Len(w) /\ \A i \in 1 .. Len(t) : t[i] = w[i]  BY DEF Begins
<1>4. Len(s) \in Nat  OBVIOUS
<1>5. w \in Seq(Coded)
  <2>1. 0 \in 0 .. Len(f)  BY <1>1
  <2> QED  BY <2>1, EncodedBegins
<1> HIDE DEF t
<1>6. Len(w) \in Nat  BY <1>5
<1> HIDE DEF w
<1>7. Begins(s, w)
  <2>1. Len(s) <= Len(w)  BY <1>2, <1>3, <1>4, <1>6
  <2>2. \A i \in 1 .. Len(s) : i \in 1 .. Len(t)  BY <1>2, <1>4
  <2> QED  BY <1>2, <1>3, <2>1, <2>2 DEF Begins
<1>8. \A b \in Bytes : l < Len(f) /\ f[l + 1] = b /\ Begins(buf, f) => Begins(Append(buf, b), f)
  <2> SUFFICES ASSUME NEW b \in Bytes, l < Len(f), f[l + 1] = b, Begins(buf, f)
               PROVE  Begins(Append(buf, b), f)
    OBVIOUS
  <2> DEFINE x == Append(buf, b)
  <2>1. Len(x) = l + 1 /\ x[l + 1] = b /\ \A i \in 1 .. l : x[i] = buf[i]  BY <1>1
  <2>2. \A i \in 1 .. l : buf[i] = f[i]  BY DEF Begins
  <2> HIDE DEF x, l
  <2>3. \A i \in 1 .. l + 1 : i \in 1 .. l \/ i = l + 1  BY <1>1
  <2>4. Begins(x, f)  BY <1>1, <2>1, <2>2, <2>3 DEF Begins
  <2> QED  BY <2>4 DEF x
<1>9. CASE s = <<>> /\ d = Start
  <2>1. d.copy = 0 /\ d.code = MaxByte /\ buf = <<>>  BY <1>9 DEF Start
  <2>2. Taken(d, c).buf = <<>>  BY <2>1 DEF Taken
  <2>3. Begins(<<>>, f)  BY <1>1 DEF Begins
  <2> QED  BY <2>1, <2>2, <2>3 DEF IsFull
<1>10. CASE \E n : InBlock(d, s, n)
  <2>1. PICK n : InBlock(d, s, n)  BY <1>10
  <2>2. s # <<>>
    <3> DEFINE a == Closed(Blocks(d.buf)[n]).done
               p == Part(d.buf, n, Len(d.buf))
    <3>1. n \in 0 .. l /\ l \in n .. l  BY <1>1, <2>1 DEF InBlock, StartsAt
    <3>2. a \in Seq(Coded)  BY <1>1, <3>1, BlocksFine, ClosedIs DEF Fine
    <3>3. a \in Seq(Bytes)  BY <3>2, SeqMonotonic, CobsAssumption DEF Coded, Bytes
    <3>4. p \in Seq(Bytes)  BY <1>1, <3>1, PartIs
    <3>5. s = Joint(a, d.code, p)  BY <2>1 DEF InBlock
    <3>6. d.code \in Bytes  BY <1>1 DEF Bytes
    <3> HIDE DEF a, p
    <3>7. IsJoint(s, a, d.code, p)  BY <3>3, <3>4, <3>5, <3>6, Joined
    <3>8. Len(a) \in Nat /\ Len(p) \in Nat  BY <3>3, <3>4
    <3>9. Len(s) # 0  BY <3>7, <3>8 DEF IsJoint
    <3> QED  BY <3>9
  <2>3. Begins(buf, f)  BY <1>7, <2>2 DEF Follows, w
  <2>4. PICK m : /\ GoesOn(f, n, m) /\ d.code = m - n + 1
                 /\ n \in 0 .. l /\ l <= m /\ d.copy = m - l
                 /\ Len(s) = Len(Upto(f, n, m)) - d.copy
    BY <1>7, <2>1, <2>3, BlockAhead DEF w
  <2> DEFINE u == Upto(f, n, m)
             a == Closed(Blocks(f)[n]).done
  <2>5. IsRun(f, n, m) /\ Begins(u, w)  BY <2>4 DEF GoesOn, w
  <2>6. m \in n .. Len(f) /\ m \in Nat /\ n \in 0 .. Len(f)  BY <1>1, <2>4, <2>5 DEF IsRun
  <2>7. StartsAt(f, n)
    <3>1. StartsAt(buf, n)  BY <2>1 DEF InBlock
    <3>2. n \in 0 .. Len(buf) /\ n <= Len(f) /\ \A i \in 1 .. n : buf[i] = f[i]
      BY <1>1, <2>3, <2>4, <2>6 DEF Begins
    <3>3. Blocks(buf)[n] = Blocks(f)[n]  BY <1>1, <3>2, BlocksAgree
    <3> QED  BY <2>6, <3>1, <3>3 DEF StartsAt
  <2>8. /\ a \in Seq(Coded) /\ u \in Seq(Coded) /\ Len(u) = Len(a) + 1 + (m - n)
        /\ \A i \in 1 .. m - n : u[Len(a) + 1 + i] = f[n + i]
    <3>1. IsUpto(u, a, f, n, m)  BY <2>5, <2>7, UptoIs
    <3> HIDE DEF u, a
    <3> QED  BY <3>1 DEF IsUpto
  <2>9. Len(a) \in Nat  BY <2>8
  <2>10. Len(u) <= Len(w) /\ \A i \in 1 .. Len(u) : u[i] = w[i]  BY <2>5 DEF Begins
  <2>11. Len(s) = Len(u) - d.copy  BY <2>4
  <2> HIDE DEF u, a
  <2>12. CASE d.copy > 0
    <3> DEFINE k == l + 1 - n
    <3>1. l < m /\ l < Len(f) /\ k \in 1 .. m - n /\ n + k = l + 1
      BY <1>1, <2>4, <2>6, <2>12
    <3>2. Len(s) + 1 = Len(a) + 1 + k /\ Len(s) + 1 \in 1 .. Len(u) /\ Len(s) + 1 \in 1 .. Len(t)
      <4> HIDE DEF l
      <4>1. l \in Nat /\ Len(s) \in Nat /\ n \in Nat /\ l >= n /\ d.copy \in Nat  BY <1>1, <1>4, <2>4
      <4>2. /\ d.copy = m - l /\ Len(s) = Len(u) - d.copy /\ Len(u) = Len(a) + 1 + (m - n)
            /\ m \in Nat /\ Len(a) \in Nat /\ d.copy > 0
        BY <2>4, <2>6, <2>8, <2>9, <2>11, <2>12
      <4>3. Len(s) = Len(a) + 1 + (l - n)  BY <4>1, <4>2
      <4>4. Len(s) + 1 = Len(a) + 1 + k  BY <4>1, <4>2, <4>3
      <4>5. Len(s) + 1 <= Len(u) /\ Len(u) \in Nat  BY <2>8, <4>1, <4>2
      <4>6. Len(s) + 1 \in 1 .. Len(u)  BY <4>1, <4>5
      <4>7. Len(s) + 1 \in 1 .. Len(t)  BY <1>2, <4>1
      <4> QED  BY <4>4, <4>6, <4>7
    <3> HIDE DEF k
    <3>3. c = f[l + 1]
      <4>1. c = w[Len(s) + 1]  BY <1>2, <1>3, <3>2
      <4>2. w[Len(s) + 1] = u[Len(s) + 1]  BY <2>10, <3>2
      <4>3. u[Len(s) + 1] = f[n + k]  BY <2>8, <3>1, <3>2
      <4> QED  BY <3>1, <4>1, <4>2, <4>3
    <3>4. c \in Bytes  BY <1>1 DEF Coded, Bytes
    <3>5. Begins(Append(buf, c), f)  BY <1>8, <2>3, <3>1, <3>3, <3>4
    <3>6. Taken(d, c).buf = Append(buf, c)  BY <2>12 DEF Taken
    <3>7. l < Capacity  BY <1>1, <3>1
    <3> QED  BY <1>1, <3>5, <3>6, <3>7 DEF IsFull
  <2>13. CASE ~(d.copy > 0) /\ d.code = MaxByte
    <3>1. Taken(d, c).buf = buf  BY <2>13 DEF Taken
    <3> QED  BY <2>3, <2>13, <3>1 DEF IsFull
  <2>14. CASE ~(d.copy > 0) /\ d.code # MaxByte
    <3>1. d.copy = 0 /\ l = m /\ Len(s) = Len(u)
      <4> HIDE DEF l
      <4>1. l \in Nat /\ d.copy \in Nat /\ d.copy = 0  BY <1>1, <2>14
      <4>2. Len(u) \in Nat  BY <2>8
      <4> QED  BY <2>4, <2>6, <2>11, <4>1, <4>2
    <3>2. w # u  BY <1>2, <1>3, <1>4, <1>6, <3>1
    <3>3. m < Len(f) /\ f[m + 1] = esc
      <4>1. m # Len(f)  BY <2>4, <3>2 DEF GoesOn, w, u
      <4>2. m < Len(f)  BY <1>1, <2>6, <4>1
      <4>3. m - n + 1 # MaxByte  BY <2>4, <2>14
      <4> QED  BY <2>4, <4>2, <4>3 DEF GoesOn
    <3>4. esc \in Bytes  BY <1>1 DEF esc, Bytes
    <3>5. Begins(Append(buf, esc), f)  BY <1>8, <2>3, <3>1, <3>3, <3>4
    <3>6. Taken(d, c).buf = Append(buf, esc)  BY <2>14 DEF Taken
    <3>7. l < Capacity  BY <1>1, <3>1, <3>3
    <3> QED  BY <1>1, <3>5, <3>6, <3>7 DEF IsFull
  <2> QED  BY <2>12, <2>13, <2>14
<1> QED  BY <1>9, <1>10 DEF Reads

\* A decoder that has seen all of Encoded(f) has f, and waits for no byte.
LEMMA EndFollows ==
  ASSUME NEW f \in Seq(Bytes), NEW d, DecoderOK(d), NEW s \in Seq(Coded), Reads(d, s),
         Follows(d, s, f), s = Encoded(f)
  PROVE  d.buf = f /\ d.copy = 0
<1> DEFINE w == Encoded(f)
           buf == d.buf
           l == Len(buf)
<1>1. buf \in Seq(Bytes) /\ l \in Nat /\ d.copy \in Nat /\ Len(f) \in Nat  BY DEF DecoderOK
<1>2. w \in Seq(Coded) /\ Len(w) > 0
  <2> DEFINE a == Blocks(f)[0].done
  <2>1. 0 \in 0 .. Len(f)  BY <1>1
  <2>2. Len(a) \in Nat  BY <2>1, BlocksFine DEF Fine
  <2>3. w \in Seq(Coded) /\ Len(a) < Len(w)  BY <2>1, EncodedBegins
  <2> HIDE DEF a, w
  <2>4. Len(w) \in Nat  BY <2>3
  <2> QED  BY <2>2, <2>3, <2>4
<1>3. s = w  OBVIOUS
<1> HIDE DEF w
<1>4. Begins(s, w) /\ s # <<>>  BY <1>2, <1>3 DEF Begins
<1>5. Begins(buf, f)  BY <1>4 DEF Follows, w
<1>6. PICK n : InBlock(d, s, n)  BY <1>4 DEF Reads
<1>7. PICK m : /\ GoesOn(f, n, m) /\ n \in 0 .. l /\ l <= m /\ d.copy = m - l
               /\ Len(s) = Len(Upto(f, n, m)) - d.copy
  BY <1>4, <1>5, <1>6, BlockAhead DEF w
<1> DEFINE u == Upto(f, n, m)
<1>8. IsRun(f, n, m) /\ Len(u) <= Len(w) /\ (m < Len(f) => Len(u) < Len(w))
  BY <1>7 DEF GoesOn, Begins, w
<1>9. m \in Nat /\ m <= Len(f)  BY <1>1, <1>7, <1>8 DEF IsRun
<1>10. Len(s) = Len(w) /\ Len(w) \in Nat  BY <1>2, <1>3
<1>11. Len(u) = Len(w) + d.copy
  <2> HIDE DEF l, buf
  <2>1. Len(u) \in Nat
    <3>1. u \in Seq(Coded)
      <4>1. StartsAt(f, n)
        <5>1. StartsAt(buf, n)  BY <1>6 DEF InBlock, buf
        <5>2. n \in 0 .. Len(buf) /\ n \in 0 .. Len(f) /\ \A i \in 1 .. n : buf[i] = f[i]
          BY <1>1, <1>5, <1>7, <1>9 DEF Begins, l
        <5>3. Blocks(buf)[n] = Blocks(f)[n]  BY <1>1, <5>2, BlocksAgree
        <5> QED  BY <5>1, <5>2, <5>3 DEF StartsAt
      <4> QED  BY <1>8, <4>1, UptoIs
    <3> HIDE DEF u
    <3> QED  BY <3>1
  <2> HIDE DEF u
  <2> QED  BY <1>1, <1>7, <1>10, <2>1 DEF u
<1> HIDE DEF u, l
<1>12. d.copy = 0 /\ m = Len(f) /\ l = m  BY <1>1, <1>7, <1>8, <1>9, <1>10, <1>11
<1> HIDE DEF buf
<1>13. buf = f  BY <1>1, <1>5, <1>12, SameSeq DEF Begins, l
<1> QED  BY <1>12, <1>13 DEF buf

\* What may arrive of the bytes of a packet.
LEMMA BegunIs ==
  ASSUME NEW s \in Seq(Coded), NEW c \in Bytes, Append(s, c) \in Begun
  PROVE  \E p \in Payloads : \/ c = esc /\ s = Encode(p)
                             \/ c # esc /\ Begins(Append(s, c), Encode(p))
<1>1. PICK p \in Payloads : \E n \in 1 .. Len(Encode(p)) + 1 :
        Append(s, c) = SubSeq(Append(Encode(p), esc), 1, n)
  BY DEF Begun, Packets
<1> DEFINE w == Encode(p)
           v == Append(w, esc)
           t == Append(s, c)
<1>2. PICK n \in 1 .. Len(w) + 1 : t = SubSeq(v, 1, n)  BY <1>1
<1>3. w \in Seq(Coded)
  <2>1. Data(p) \in Seq(Bytes) /\ 0 \in 0 .. Len(Data(p))  BY DataIs
  <2>2. w = Encoded(Data(p))  BY DEF Encode, Encoded
  <2> QED  BY <2>1, <2>2, EncodedBegins
<1>4. \A x \in Coded : x \in Bytes /\ x # esc  BY CobsAssumption DEF Coded, Bytes, esc
<1>5. esc \in Bytes  BY CobsAssumption DEF esc, Bytes
<1> HIDE DEF w
<1>6. w \in Seq(Bytes) /\ s \in Seq(Bytes)
  <2>1. Coded \subseteq Bytes  BY <1>4
  <2> QED  BY <1>3, <2>1, SeqMonotonic
<1>7. v \in Seq(Bytes) /\ Len(v) = Len(w) + 1 /\ v[Len(w) + 1] = esc /\ \A i \in 1 .. Len(w) : v[i] = w[i]
  BY <1>5, <1>6
<1>8. /\ t \in Seq(Bytes) /\ Len(t) = Len(s) + 1 /\ t[Len(s) + 1] = c
      /\ \A i \in 1 .. Len(s) : t[i] = s[i]
  BY <1>6
<1>9. Len(w) \in Nat /\ Len(s) \in Nat  BY <1>3
<1> HIDE DEF v
<1>10. Len(t) = n /\ \A i \in 1 .. n : t[i] = v[i]
  <2>1. t = Part(v, 0, n)  BY <1>2 DEF Part
  <2>2. 0 \in 0 .. Len(v) /\ n \in 0 .. Len(v)  BY <1>7, <1>9
  <2> HIDE DEF t
  <2>3. Len(t) = n - 0 /\ \A i \in 1 .. n - 0 : t[i] = v[0 + i]  BY <1>7, <2>1, <2>2, PartIs
  <2>4. n \in Nat /\ n - 0 = n /\ \A i \in 1 .. n : 0 + i = i  OBVIOUS
  <2> QED  BY <2>3, <2>4
<1> HIDE DEF t
<1>11. CASE n = Len(w) + 1
  <2>1. c = esc  BY <1>7, <1>8, <1>9, <1>10, <1>11
  <2>2. Len(s) = Len(w)  BY <1>8, <1>9, <1>10, <1>11
  <2>3. \A i \in 1 .. Len(s) : s[i] = w[i]
    <3>1. \A i \in 1 .. Len(s) : i \in 1 .. n  BY <1>9, <1>11, <2>2
    <3> QED  BY <1>7, <1>8, <1>10, <2>2, <3>1
  <2>4. s = w  BY <1>6, <2>2, <2>3, SameSeq
  <2> QED  BY <2>1, <2>4 DEF w
<1>12. CASE n # Len(w) + 1
  <2>1. n <= Len(w) /\ \A i \in 1 .. n : i \in 1 .. Len(w)  BY <1>9, <1>12
  <2>2. Begins(t, w)  BY <1>7, <1>10, <2>1 DEF Begins
  <2>3. n = Len(s) + 1 /\ n \in 1 .. Len(w)  BY <1>8, <1>9, <1>10, <2>1
  <2>4. c = w[n]  BY <1>7, <1>8, <1>10, <2>3
  <2>5. w[n] \in Coded  BY <1>3, <2>3
  <2>6. c # esc  BY <1>4, <2>4, <2>5
  <2> QED  BY <2>2, <2>6 DEF w, t
<1> QED  BY <1>11, <1>12

-----------------------------------------------------------------------------
(* The loop of decode()                                                    *)

Results == {"Unknown", "PacketAvailable", "ErrorSize", "ErrorCRC", "ErrorOverflow"}

Decoders == [code : Coded, copy : Nat, buf : Seq(Bytes)]

Turns == [dec : Decoders, status : Results, out : Seq(Bytes), seen : Seq(Coded), read : Seq(Coded),
          missed : {FALSE}]

\* What a packet was read from is that packet, encoded, or that and an empty block.
IsWritten(out_, read_) == out_ \in Payloads /\ read_ \in {Encode(out_), Append(Encode(out_), 1)}

\* The decoder d, which has seen s.
Tracks(d, s) ==
    /\ DecoderOK(d) /\ s \in Seq(Coded)
    /\ Reads(d, s) /\ \A p \in Payloads : Follows(d, s, Data(p))

\* What each turn keeps.
TurnInv(r) ==
    /\ r \in Turns /\ Tracks(r.dec, r.seen)
    /\ r.status = "PacketAvailable" => IsWritten(r.out, r.read)

\* A decoder that is restarted has seen nothing.
LEMMA StartTracks == Tracks(Start, <<>>)
<1>1. Start.code \in Coded /\ Start.copy \in Nat /\ Start.copy < Start.code
  BY CobsAssumption DEF Start, Coded
<1>2. Start \in Decoders /\ Len(Start.buf) <= Capacity
  BY CobsAssumption DEF Start, Decoders, Coded, Capacity
<1>3. <<>> \in Seq(Coded)  OBVIOUS
<1> QED  BY <1>1, <1>2, <1>3 DEF Tracks, DecoderOK, Decoders, Reads, Follows

\* One byte, for a decoder that is still running: it takes the byte and has seen
\* it, or starts again; it gives a packet that was written so, or refuses a byte
\* that no packet has there.
LEMMA ByteTracks ==
  ASSUME NEW d, NEW s, Tracks(d, s), NEW c \in Bytes, NEW b, b = Byte(d, c)
  PROVE  /\ b.status \in Results
         /\ b.status = "Unknown" => Append(s, c) \in Seq(Coded) /\ Tracks(b.dec, Append(s, c))
         /\ b.status # "Unknown" => b.dec = Start
         /\ b.status = "PacketAvailable" => IsWritten(SubSeq(d.buf, 1, Len(d.buf) - 2), s)
         /\ b.status \notin {"Unknown", "PacketAvailable"} => Append(s, c) \notin Begun
<1>1. DecoderOK(d) /\ s \in Seq(Coded) /\ Reads(d, s) /\ \A p \in Payloads : Follows(d, s, Data(p))
  BY DEF Tracks
<1>2. CASE c = esc
  <2> DEFINE q == SubSeq(d.buf, 1, Len(d.buf) - 2)
  <2>1. /\ b.dec = Start /\ b.status \in {"ErrorSize", "ErrorCRC", "PacketAvailable"}
        /\ b.status = "PacketAvailable" <=>
             /\ d.copy = 0 /\ 2 < Len(d.buf)
             /\ SubSeq(d.buf, Len(d.buf) - 1, Len(d.buf)) = Crc(q)
    BY <1>1, <1>2, DelimiterIs
  <2>2. ASSUME b.status = "PacketAvailable" PROVE IsWritten(q, s)
    <3>1. q \in Payloads /\ (s = Encode(q) \/ s = Append(Encode(q), 1))
      BY <1>1, <1>2, <2>2, PacketRead
    <3> HIDE DEF q
    <3> QED  BY <3>1 DEF IsWritten
  <2>3. ASSUME Append(s, c) \in Begun PROVE b.status = "PacketAvailable"
    <3>1. PICK p \in Payloads : s = Encode(p)  BY <1>1, <1>2, <2>3, BegunIs
    <3> DEFINE f == Data(p)
               n == Len(p)
    <3>2. s = Encoded(f)  BY <3>1 DEF Encode, Encoded
    <3>3. /\ n \in 1 .. packet_size /\ p \in Seq(Bytes)
          /\ Crc(p) \in Seq(Bytes) /\ Len(Crc(p)) = 2
          /\ f \in Seq(Bytes) /\ Len(f) = n + 2
          /\ \A i \in 1 .. n : f[i] = p[i]
          /\ \A i \in 1 .. 2 : f[n + i] = Crc(p)[i]
      BY DataIs
    <3>4. Follows(d, s, f)  BY <1>1
    <3> HIDE DEF f
    <3>5. d.buf = f /\ d.copy = 0  BY <1>1, <3>2, <3>3, <3>4, EndFollows
    <3> HIDE DEF n
    <3>6. n \in Nat /\ n >= 1  BY <3>3, CobsAssumption
    <3>7. Len(f) - 2 = n /\ Len(f) - 1 = n + 1 /\ Len(f) = n + 2 /\ 2 < Len(f)  BY <3>3, <3>6
    <3>8. SubSeq(f, 1, n) = p
      <4>1. /\ f \in Seq(Bytes) /\ p \in Seq(Bytes) /\ 0 \in 0 .. Len(f) /\ n \in 0 .. Len(f)
            /\ Len(p) = n - 0 /\ \A i \in 1 .. n - 0 : f[0 + i] = p[i] /\ 0 + 1 = 1
        BY <3>3, <3>6, <3>7 DEF n
      <4>2. SubSeq(f, 0 + 1, n) = p  BY <4>1, PartEquals
      <4> QED  BY <4>2
    <3>9. SubSeq(f, n + 1, n + 2) = Crc(p)
      <4> DEFINE y == Crc(p)
      <4>1. /\ f \in Seq(Bytes) /\ y \in Seq(Bytes)
            /\ Len(y) = 2 /\ \A i \in 1 .. 2 : f[n + i] = y[i]
        BY <3>3
      <4>2. n \in 0 .. Len(f) /\ n + 2 \in n .. Len(f) /\ (n + 2) - n = 2  BY <3>6, <3>7
      <4> HIDE DEF y
      <4>3. SubSeq(f, n + 1, n + 2) = y  BY <4>1, <4>2, PartEquals
      <4> QED  BY <4>3 DEF y
    <3>10. d.copy = 0 /\ 2 < Len(d.buf)
           /\ SubSeq(d.buf, Len(d.buf) - 1, Len(d.buf)) = Crc(SubSeq(d.buf, 1, Len(d.buf) - 2))
      BY <3>5, <3>7, <3>8, <3>9
    <3> QED  BY <2>1, <3>10
  <2> HIDE DEF q
  <2>4. b.status \in Results /\ b.status # "Unknown"  BY <2>1 DEF Results
  <2> QED  BY <2>1, <2>2, <2>3, <2>4 DEF q
<1>3. CASE c # esc
  <2>1. c \in Coded  BY <1>3, CobsAssumption DEF Coded, Bytes, esc
  <2>2. Append(s, c) \in Seq(Coded)  BY <1>1, <2>1
  <2>3. /\ IsFull(d) => b = Is(Start, "ErrorOverflow")
        /\ ~IsFull(d) => b = Is(Taken(d, c), "Unknown")
    BY <1>1, <2>1, ByteIs
  <2>4. \A p \in Payloads : /\ Data(p) \in Seq(Bytes) /\ Len(Data(p)) <= Capacity
                            /\ Encode(p) = Encoded(Data(p))
    BY DataIs DEF Encode, Encoded
  <2>5. \A p \in Payloads : Begins(Append(s, c), Encoded(Data(p))) =>
          ~IsFull(d) /\ Begins(Taken(d, c).buf, Data(p))
    <3> SUFFICES ASSUME NEW p \in Payloads, Begins(Append(s, c), Encoded(Data(p)))
                 PROVE  ~IsFull(d) /\ Begins(Taken(d, c).buf, Data(p))
      OBVIOUS
    <3> DEFINE f == Data(p)
    <3>1. f \in Seq(Bytes) /\ Len(f) <= Capacity /\ Follows(d, s, f)  BY <1>1, <2>4
    <3>2. Begins(Append(s, c), Encoded(f))  OBVIOUS
    <3> HIDE DEF f
    <3>3. ~IsFull(d) /\ Begins(Taken(d, c).buf, f)  BY <1>1, <2>1, <3>1, <3>2, TakenFollows
    <3> QED  BY <3>3 DEF f
  <2>6. CASE IsFull(d)
    <3>1. b.dec = Start /\ b.status = "ErrorOverflow"  BY <2>3, <2>6 DEF Is
    <3>2. Append(s, c) \notin Begun
      <4> SUFFICES ASSUME Append(s, c) \in Begun PROVE FALSE  OBVIOUS
      <4>1. PICK p \in Payloads : Begins(Append(s, c), Encode(p))  BY <1>1, <1>3, BegunIs
      <4> QED  BY <2>4, <2>5, <2>6, <4>1
    <3> QED  BY <3>1, <3>2 DEF Results
  <2>7. CASE ~IsFull(d)
    <3>1. b.dec = Taken(d, c) /\ b.status = "Unknown"  BY <2>3, <2>7 DEF Is
    <3>2. DecoderOK(Taken(d, c))  BY <1>1, <2>1, <2>7, TakenOK
    <3>3. Reads(Taken(d, c), Append(s, c))  BY <1>1, <2>1, TakenReads
    <3>4. \A p \in Payloads : Follows(Taken(d, c), Append(s, c), Data(p))  BY <2>5 DEF Follows
    <3>5. Tracks(b.dec, Append(s, c))  BY <2>2, <3>1, <3>2, <3>3, <3>4 DEF Tracks
    <3> QED  BY <2>2, <3>1, <3>5 DEF Results
  <2> QED  BY <2>6, <2>7
<1> QED  BY <1>2, <1>3

\* What a turn does with the status, and with what was seen.
LEMMA TurnIs ==
  ASSUME NEW r \in Turns, NEW c, r.status # "PacketAvailable", NEW b, b = Byte(r.dec, c),
         b.status \in Results
  PROVE  LET t == Turn(r, c)
         IN  /\ DOMAIN t = {"dec", "status", "out", "seen", "read", "missed"}
             /\ t.dec = b.dec
             /\ t.status = IF b.status = "Unknown" THEN r.status ELSE b.status
             /\ t.seen = IF b.status = "Unknown" THEN Append(r.seen, c) ELSE <<>>
             /\ t.missed = (r.missed \/ (/\ Append(r.seen, c) \in Begun
                                         /\ b.status \notin {"Unknown", "PacketAvailable"}))
             /\ b.status = "PacketAvailable" => /\ t.out = SubSeq(r.dec.buf, 1, Len(r.dec.buf) - 2)
                                                /\ t.read = r.seen
             /\ b.status # "PacketAvailable" => t.out = r.out /\ t.read = r.read
<1> DEFINE x == IF b.status = "Unknown" THEN r.status ELSE b.status
           y == IF b.status = "Unknown" THEN Append(r.seen, c) ELSE <<>>
           z == r.missed \/ (/\ Append(r.seen, c) \in Begun
                             /\ b.status \notin {"Unknown", "PacketAvailable"})
           o == SubSeq(r.dec.buf, 1, Len(r.dec.buf) - 2)
           next == [r EXCEPT !.dec = b.dec, !.status = x, !.seen = y, !.missed = z]
           last == [next EXCEPT !.out = o, !.read = r.seen]
           t == Turn(r, c)
<1>1. t = IF b.status # "PacketAvailable" THEN next ELSE last  BY DEF Turn
<1>2. DOMAIN r = {"dec", "status", "out", "seen", "read", "missed"}  BY DEF Turns
<1> HIDE DEF x, y, z, o, t
<1>3. /\ DOMAIN next = {"dec", "status", "out", "seen", "read", "missed"}
      /\ next.dec = b.dec /\ next.status = x /\ next.seen = y /\ next.missed = z
      /\ next.out = r.out /\ next.read = r.read
  BY <1>2
<1> HIDE DEF next
<1>4. /\ DOMAIN last = {"dec", "status", "out", "seen", "read", "missed"}
      /\ last.dec = b.dec /\ last.status = x /\ last.seen = y /\ last.missed = z
      /\ last.out = o /\ last.read = r.seen
  BY <1>3
<1> HIDE DEF last
<1>5. /\ DOMAIN t = {"dec", "status", "out", "seen", "read", "missed"}
      /\ t.dec = b.dec /\ t.status = x /\ t.seen = y /\ t.missed = z
      /\ b.status = "PacketAvailable" => t.out = o /\ t.read = r.seen
      /\ b.status # "PacketAvailable" => t.out = r.out /\ t.read = r.read
  BY <1>1, <1>3, <1>4
<1> QED  BY <1>5 DEF x, y, z, o, t

\* Every turn keeps the invariant.
LEMMA TurnKeeps ==
  ASSUME NEW r, TurnInv(r), NEW c \in Bytes
  PROVE  TurnInv(Turn(r, c))
<1>1. CASE r.status = "PacketAvailable"  BY <1>1 DEF Turn
<1>2. CASE r.status # "PacketAvailable"
  <2> DEFINE d == r.dec
             s == r.seen
             b == Byte(d, c)
             t == Turn(r, c)
             o == SubSeq(d.buf, 1, Len(d.buf) - 2)
             v == Append(s, c)
  <2>1. r \in Turns /\ Tracks(d, s)  BY DEF TurnInv
  <2>2. /\ r.status \in Results /\ r.out \in Seq(Bytes) /\ r.read \in Seq(Coded) /\ r.missed = FALSE
        /\ s \in Seq(Coded)
    BY <2>1 DEF Turns
  <2>3. /\ b.status \in Results
        /\ b.status = "Unknown" => v \in Seq(Coded) /\ Tracks(b.dec, v)
        /\ b.status # "Unknown" => b.dec = Start
        /\ b.status = "PacketAvailable" => IsWritten(o, s)
        /\ b.status \notin {"Unknown", "PacketAvailable"} => v \notin Begun
    BY <2>1, ByteTracks
  <2>4. /\ DOMAIN t = {"dec", "status", "out", "seen", "read", "missed"}
        /\ t.dec = b.dec
        /\ t.status = IF b.status = "Unknown" THEN r.status ELSE b.status
        /\ t.seen = IF b.status = "Unknown" THEN v ELSE <<>>
        /\ t.missed = (r.missed \/ (/\ v \in Begun
                                    /\ b.status \notin {"Unknown", "PacketAvailable"}))
        /\ b.status = "PacketAvailable" => t.out = o /\ t.read = s
        /\ b.status # "PacketAvailable" => t.out = r.out /\ t.read = r.read
    BY <1>2, <2>1, <2>3, TurnIs
  <2>5. t = [i \in {"dec", "status", "out", "seen", "read", "missed"} |-> t[i]]
    BY <2>1 DEF Turn, Turns
  <2> HIDE DEF b, t, o, v, s, d
  <2>6. t.status \in Results /\ t.missed = FALSE  BY <2>2, <2>3, <2>4
  <2>7. Tracks(t.dec, t.seen)
    <3>1. CASE b.status = "Unknown"  BY <2>3, <2>4, <3>1
    <3>2. CASE b.status # "Unknown"  BY <2>3, <2>4, <3>2, StartTracks
    <3> QED  BY <3>1, <3>2
  <2>8. t.dec \in Decoders /\ t.seen \in Seq(Coded)  BY <2>7 DEF Tracks, DecoderOK, Decoders
  <2>9. t.out \in Seq(Bytes) /\ t.read \in Seq(Coded)
    <3>1. CASE b.status = "PacketAvailable"
      <4>1. o \in Payloads  BY <2>3, <3>1 DEF IsWritten
      <4>2. o \in Seq(Bytes)  BY <4>1, DataIs
      <4> QED  BY <2>2, <2>4, <3>1, <4>2
    <3>2. CASE b.status # "PacketAvailable"  BY <2>2, <2>4, <3>2
    <3> QED  BY <3>1, <3>2
  <2>10. t \in Turns
    <3>1. t = [dec |-> t.dec, status |-> t.status, out |-> t.out, seen |-> t.seen, read |-> t.read,
               missed |-> t.missed]
      BY <2>5
    <3> QED  BY <2>6, <2>8, <2>9, <3>1 DEF Turns
  <2>11. t.status = "PacketAvailable" => IsWritten(t.out, t.read)
    BY <1>2, <2>3, <2>4
  <2> QED  BY <2>7, <2>10, <2>11 DEF TurnInv, t
<1> QED  BY <1>1, <1>2

\* The turns for the first m bytes of a chunk.
AreTurns(t, start, chunk, m) ==
    t = [n \in 0 .. m |-> IF n = 0 THEN start ELSE Turn(t[n - 1], chunk[n])]

\* There is such a sequence of turns.
LEMMA TurnsExist ==
  ASSUME NEW start, NEW chunk, NEW n \in Nat
  PROVE  \E t : AreTurns(t, start, chunk, n)
<1> DEFINE Bad == {m \in Nat : ~\E t : AreTurns(t, start, chunk, m)}
<1>1. CASE Bad # {}
  <2>1. PICK m \in Bad : \A j \in Bad : m <= j  BY <1>1, LeastNat
  <2>2. CASE m = 0
    <3> DEFINE t == [i \in 0 .. 0 |-> start]
    <3>1. t = [i \in 0 .. 0 |-> IF i = 0 THEN start ELSE Turn(t[i - 1], chunk[i])]  OBVIOUS
    <3>2. AreTurns(t, start, chunk, 0)  BY <3>1 DEF AreTurns
    <3> QED  BY <2>2, <3>2
  <2>3. CASE m # 0
    <3>1. m - 1 \in Nat /\ m - 1 \notin Bad  BY <2>1, <2>3
    <3>2. PICK f : AreTurns(f, start, chunk, m - 1)  BY <3>1
    <3> DEFINE x == Turn(f[m - 1], chunk[m])
               g == [i \in 0 .. m |-> IF i = m THEN x ELSE f[i]]
    <3>3. \A i \in 0 .. m - 1 : f[i] = IF i = 0 THEN start ELSE Turn(f[i - 1], chunk[i])
      BY <3>2 DEF AreTurns
    <3>4. \A i \in 0 .. m : g[i] = IF i = 0 THEN start ELSE Turn(g[i - 1], chunk[i])
      <4> SUFFICES ASSUME NEW i \in 0 .. m
                   PROVE  g[i] = IF i = 0 THEN start ELSE Turn(g[i - 1], chunk[i])
        OBVIOUS
      <4>1. i # 0 => g[i - 1] = f[i - 1]  OBVIOUS
      <4>2. CASE i = m  BY <2>3, <4>1, <4>2
      <4>3. CASE i # m  BY <3>3, <4>1, <4>3
      <4> QED  BY <4>2, <4>3
    <3>5. g = [i \in 0 .. m |-> IF i = 0 THEN start ELSE Turn(g[i - 1], chunk[i])]
      <4>1. g = [i \in 0 .. m |-> g[i]]  OBVIOUS
      <4> HIDE DEF g
      <4> QED  BY <3>4, <4>1
    <3>6. AreTurns(g, start, chunk, m)  BY <3>5 DEF AreTurns
    <3> QED  BY <2>1, <3>6
  <2> QED  BY <2>2, <2>3
<1>2. CASE Bad = {}  BY <1>2
<1> QED  BY <1>1, <1>2

\* They keep the invariant, up to the last.
LEMMA TurnsKeep ==
  ASSUME NEW start, TurnInv(start), NEW chunk \in Seq(Bytes),
         NEW t, AreTurns(t, start, chunk, Len(chunk))
  PROVE  TurnInv(t[Len(chunk)])
<1> DEFINE l == Len(chunk)
           Bad == {m \in Nat : m <= l /\ ~TurnInv(t[m])}
<1>1. l \in Nat  OBVIOUS
<1>2. \A n \in 0 .. l : t[n] = IF n = 0 THEN start ELSE Turn(t[n - 1], chunk[n])  BY DEF AreTurns
<1>3. CASE Bad # {}
  <2>1. PICK m \in Bad : \A j \in Bad : m <= j  BY <1>3, LeastNat
  <2>2. m # 0  BY <1>1, <1>2, <2>1
  <2>3. m - 1 \in Nat /\ m - 1 <= l /\ m - 1 \notin Bad  BY <1>1, <2>1, <2>2
  <2>4. TurnInv(t[m - 1])  BY <2>3
  <2>5. m \in 1 .. Len(chunk) /\ m \in 0 .. l /\ chunk[m] \in Bytes  BY <1>1, <2>1, <2>2
  <2>6. TurnInv(Turn(t[m - 1], chunk[m]))  BY <2>4, <2>5, TurnKeeps
  <2> QED  BY <1>2, <2>1, <2>2, <2>5, <2>6
<1>4. CASE Bad = {}
  <2>1. l \notin Bad  BY <1>4
  <2> QED  BY <1>1, <2>1
<1> QED  BY <1>3, <1>4

-----------------------------------------------------------------------------
(* The buffer of the encoder                                               *)

\* Behind n bytes, q blocks were finished without a zero: each of them stands for a
\* full block of bytes.
Sized(e, n, q) ==
    /\ Len(e.done) + Len(e.block) = n + q
    /\ (MaxByte - 1) * q + Len(e.block) <= n

\* One byte takes one place, and one more behind a full block.
LEMMA PutSized ==
  ASSUME NEW e, Fine(e), NEW n \in Nat, NEW q \in Nat, Sized(e, n, q), NEW c \in Bytes
  PROVE  \E p \in Nat : Sized(Put(e, c), n + 1, p) /\ (MaxByte - 1) * p <= n
<1> DEFINE k == MaxByte - 1
           f == Closed(e)
           g == Put(e, c)
<1>1. k \in Nat \ {0}  BY CobsAssumption
<1>2. Fine(f) /\ Fine(g)  BY ClosedIs, PutIs
<1>3. \A x : Fine(x) => /\ Len(x.done) \in Nat /\ Len(x.block) \in Nat
                        /\ Len(NewBlock(x).done) = Len(x.done) + 1 + Len(x.block)
                        /\ Len(NewBlock(x).block) = 0
  <2> SUFFICES ASSUME NEW x, Fine(x)
               PROVE  /\ Len(x.done) \in Nat /\ Len(x.block) \in Nat
                      /\ Len(NewBlock(x).done) = Len(x.done) + 1 + Len(x.block)
                      /\ Len(NewBlock(x).block) = 0
    OBVIOUS
  <2>1. Len(x.done) \in Nat /\ Len(x.block) \in Nat  BY DEF Fine
  <2>2. IsJoint(NewBlock(x).done, x.done, Len(x.block) + 1, x.block)  BY NewBlockIs
  <2>3. Len(NewBlock(x).done) = Len(x.done) + 1 + Len(x.block)  BY <2>2 DEF IsJoint
  <2>4. Len(NewBlock(x).block) = 0  BY DEF NewBlock
  <2> QED  BY <2>1, <2>3, <2>4
<1>4. /\ Len(e.done) \in Nat /\ Len(e.block) \in Nat /\ Len(f.done) \in Nat /\ Len(f.block) \in Nat
      /\ Len(e.done) + Len(e.block) = n + q /\ k * q + Len(e.block) <= n
  BY <1>2, <1>3 DEF Sized
<1> DEFINE ed == Len(e.done)
           eb == Len(e.block)
           fd == Len(f.done)
           fb == Len(f.block)
           gd == Len(g.done)
           gb == Len(g.block)
<1>5. \/ fd = ed + 1 + eb /\ fb = 0 /\ eb = k
      \/ fd = ed /\ fb = eb
  <2>1. CASE Len(e.block) + 1 = MaxByte
    <3>1. f = NewBlock(e)  BY <2>1, ClosedIs
    <3>2. fd = ed + 1 + eb /\ fb = 0  BY <1>3, <3>1
    <3>3. eb = k  BY <1>4, <2>1, CobsAssumption
    <3> QED  BY <3>2, <3>3
  <2>2. CASE Len(e.block) + 1 # MaxByte
    <3>1. f = e  BY <2>2 DEF Closed
    <3> QED  BY <3>1
  <2> QED  BY <2>1, <2>2
<1>6. \/ gd = fd + 1 + fb /\ gb = 0
      \/ gd = fd /\ gb = fb + 1
  <2>1. CASE c = esc
    <3>1. g = NewBlock(f)  BY <2>1, PutIs
    <3> QED  BY <1>2, <1>3, <3>1
  <2>2. CASE c # esc
    <3>1. g.done = f.done /\ g.block = Append(f.block, c)  BY <2>2, PutIs
    <3>2. f.block \in Seq(Coded)  BY <1>2 DEF Fine
    <3>3. Len(Append(f.block, c)) = Len(f.block) + 1  BY <3>2
    <3> QED  BY <3>1, <3>3
  <2> QED  BY <2>1, <2>2
<1>7. /\ ed \in Nat /\ eb \in Nat /\ fd \in Nat /\ fb \in Nat
      /\ ed + eb = n + q /\ k * q + eb <= n
  BY <1>4
<1> HIDE DEF k, f, g, ed, eb, fd, fb, gd, gb
<1>8. k * q \in Nat /\ q + 1 \in Nat /\ k * (q + 1) = k * q + k  BY <1>1
<1>9. \E p \in Nat : fd + fb = n + p /\ k * p + fb <= n /\ k * p \in Nat
  <2>1. CASE fd = ed + 1 + eb /\ fb = 0 /\ eb = k
    <3> DEFINE p == q + 1
    <3>1. p \in Nat /\ k * p = k * q + k /\ k * p \in Nat  BY <1>1, <1>8
    <3>2. fd + fb = n + p /\ k * p + fb <= n  BY <1>1, <1>7, <1>8, <2>1, <3>1
    <3> HIDE DEF p
    <3> QED  BY <3>1, <3>2
  <2>2. CASE fd = ed /\ fb = eb  BY <1>7, <1>8, <2>2
  <2> QED  BY <1>5, <2>1, <2>2
<1>10. PICK p \in Nat : fd + fb = n + p /\ k * p + fb <= n /\ k * p \in Nat  BY <1>9
<1> DEFINE x == k * p
<1>11. x \in Nat /\ fd + fb = n + p /\ x + fb <= n  BY <1>10
<1> HIDE DEF x
<1>12. gd + gb = n + 1 + p /\ x + gb <= n + 1 /\ x <= n  BY <1>6, <1>7, <1>11
<1> QED  BY <1>12 DEF Sized, k, g, gd, gb, x

\* The blocks of d have their size.
LEMMA BlocksSized ==
  ASSUME NEW d \in Seq(Bytes), NEW n \in 1 .. Len(d)
  PROVE  \E q \in Nat : Sized(Blocks(d)[n], n, q) /\ (MaxByte - 1) * q <= n - 1
<1> DEFINE Good(m) == \E q \in Nat : Sized(Blocks(d)[m], m, q) /\ (m # 0 => (MaxByte - 1) * q <= m - 1)
           Bad == {m \in Nat : m <= Len(d) /\ ~Good(m)}
<1>1. Good(0)
  <2>1. Len(Fresh.done) = 0 /\ Len(Fresh.block) = 0  BY DEF Fresh
  <2>2. (MaxByte - 1) * 0 = 0  BY CobsAssumption
  <2>3. Sized(Fresh, 0, 0)  BY <2>1, <2>2 DEF Sized
  <2> QED  BY <2>3, BlocksAre
<1>2. CASE Bad # {}
  <2>1. PICK m \in Bad : \A j \in Bad : m <= j  BY <1>2, LeastNat
  <2>2. m # 0  BY <1>1, <2>1
  <2>3. m - 1 \in Nat /\ m - 1 <= Len(d) /\ m - 1 \notin Bad  BY <2>1, <2>2
  <2>4. PICK q \in Nat : Sized(Blocks(d)[m - 1], m - 1, q)  BY <2>3
  <2>5. m \in 1 .. Len(d) /\ d[m] \in Bytes /\ m - 1 \in 0 .. Len(d) /\ (m - 1) + 1 = m
    BY <2>1, <2>2
  <2>6. Fine(Blocks(d)[m - 1])  BY <2>5, BlocksFine
  <2>7. \E p \in Nat : Sized(Put(Blocks(d)[m - 1], d[m]), (m - 1) + 1, p) /\ (MaxByte - 1) * p <= m - 1
    BY <2>3, <2>4, <2>5, <2>6, PutSized
  <2>8. Blocks(d)[m] = Put(Blocks(d)[m - 1], d[m])  BY <2>5, BlocksAre
  <2>9. Good(m)  BY <2>5, <2>7, <2>8
  <2> QED  BY <2>1, <2>9
<1>3. CASE Bad = {}
  <2>1. n \in Nat /\ n <= Len(d) /\ n # 0 /\ n \notin Bad  BY <1>3
  <2>2. Good(n)  BY <2>1
  <2> QED  BY <2>1, <2>2
<1> QED  BY <1>2, <1>3

\* Overhead has room for each of these blocks.
LEMMA OverheadEnough ==
  ASSUME NEW q \in Nat, (MaxByte - 1) * q <= packet_size + 1
  PROVE  Overhead \in Nat /\ q + 4 <= Overhead
<1> DEFINE k == MaxByte - 1
           x == packet_size + 1 + k
           y == x \div k
<1>1. k \in Nat \ {0} /\ packet_size \in Nat \ {0}  BY CobsAssumption
<1>2. x \in Nat /\ k * q <= packet_size + 1  BY <1>1
<1>3. packet_size + 2 + MaxByte - 2 = x  BY CobsAssumption
<1>4. Overhead = 2 + y + 1  BY <1>3 DEF Overhead
<1>5. y \in Nat /\ x % k \in 0 .. k - 1 /\ x = k * y + (x % k)  BY <1>1, <1>2, Division
<1> DEFINE r == x % k
<1> HIDE DEF r, y, k
<1>6. y >= q + 1
  <2> SUFFICES ASSUME y <= q PROVE FALSE  BY <1>5
  <2>1. PICK j \in Nat : q = y + j
    <3>1. q - y \in Nat /\ q = y + (q - y)  BY <1>5
    <3> QED  BY <3>1
  <2>2. k * q = k * y + k * j /\ k * j \in Nat /\ k * y \in Nat  BY <1>1, <1>5, <2>1
  <2>3. x = k * y + r /\ r \in 0 .. k - 1  BY <1>5 DEF r
  <2> QED  BY <1>1, <1>2, <2>2, <2>3
<1> QED  BY <1>4, <1>5, <1>6

\* What is written for a payload, and the delimiter, fit into the buffer.
LEMMA PacketFits ==
  ASSUME NEW p \in Payloads
  PROVE  Len(Encode(p)) + 1 <= packet_size + Overhead
<1> DEFINE d == Data(p)
           n == Len(d)
           e == Blocks(d)[n]
<1>1. /\ d \in Seq(Bytes) /\ n = Len(p) + 2 /\ Len(p) \in 1 .. packet_size /\ packet_size \in Nat
  BY DataIs, CobsAssumption
<1>2. n \in 1 .. Len(d) /\ n \in 0 .. Len(d) /\ n \in Nat /\ n <= packet_size + 2  BY <1>1
<1>3. Fine(e)  BY <1>1, <1>2, BlocksFine
<1>4. PICK q \in Nat : Sized(e, n, q) /\ (MaxByte - 1) * q <= n - 1  BY <1>1, <1>2, BlocksSized
<1>5. Encode(p) = NewBlock(e).done  BY DEF Encode
<1>6. IsJoint(Encode(p), e.done, Len(e.block) + 1, e.block)  BY <1>3, <1>5, NewBlockIs
<1>7. Len(e.done) \in Nat /\ Len(e.block) \in Nat  BY <1>3 DEF Fine
<1> DEFINE w == Len(Encode(p))
           ed == Len(e.done)
           eb == Len(e.block)
<1>8. w = n + q + 1
  <2>1. w = ed + 1 + eb  BY <1>6 DEF IsJoint
  <2>2. ed + eb = n + q  BY <1>4 DEF Sized
  <2>3. ed \in Nat /\ eb \in Nat /\ n \in Nat  BY <1>2, <1>7
  <2> HIDE DEF w, ed, eb, n
  <2> QED  BY <2>1, <2>2, <2>3
<1> HIDE DEF d, n, e, w
<1>9. (MaxByte - 1) * q <= packet_size + 1
  <2>1. (MaxByte - 1) * q \in Nat  BY CobsAssumption
  <2> QED  BY <1>1, <1>2, <1>4, <2>1
<1>10. Overhead \in Nat /\ q + 4 <= Overhead  BY <1>9, OverheadEnough
<1>11. w + 1 <= packet_size + Overhead  BY <1>1, <1>2, <1>8, <1>10
<1> QED  BY <1>11 DEF w

-----------------------------------------------------------------------------
(* The calls of decode()                                                   *)

\* What decode() returns.
Returned == Results \cup {"DataAccepted", "DataDropped"}

\* The decoder is one that has seen the bytes since its restart, no byte of a
\* packet was refused, and a packet that is returned was written so.
CobsInv ==
    /\ Tracks(dec, seen)
    /\ status \in Returned
    /\ status = "PacketAvailable" => IsWritten(out, read)
    /\ missed = FALSE

\* It holds before the first call.
LEMMA InitCobsInv == Init => CobsInv
BY StartTracks DEF Init, CobsInv, Returned, Results

\* A call of decode() keeps it, whatever the bytes are.
LEMMA DecodeCobsInv ==
  ASSUME CobsInv, NEW chunk \in Seq(Bytes), Decode(chunk)
  PROVE  CobsInv'
<1> DEFINE l == Len(chunk)
           start == NoBytes(dec, seen)
           t == CHOOSE t : AreTurns(t, start, chunk, l)
           r == t[l]
           all == IF chunk = <<>> THEN "DataDropped" ELSE "DataAccepted"
           last == [r EXCEPT !.status = IF @ = "Unknown" THEN all ELSE @]
<1>1. l \in Nat  OBVIOUS
<1>2. TurnInv(start)
  <2>1. dec \in Decoders /\ seen \in Seq(Coded)
    BY DEF CobsInv, Tracks, DecoderOK, Decoders
  <2>2. start \in Turns  BY <2>1 DEF NoBytes, Turns, Results
  <2>3. start.dec = dec /\ start.seen = seen /\ start.status # "PacketAvailable"  BY DEF NoBytes
  <2> QED  BY <2>2, <2>3 DEF CobsInv, TurnInv
<1>3. State(last)  BY DEF Decode, AreTurns
<1> HIDE DEF l, start
<1>4. AreTurns(t, start, chunk, l)  BY <1>1, TurnsExist
<1> HIDE DEF t
<1>5. TurnInv(r)  BY <1>2, <1>4, TurnsKeep DEF l
<1> HIDE DEF r
<1>6. /\ r \in Turns /\ Tracks(r.dec, r.seen)
      /\ r.status = "PacketAvailable" => IsWritten(r.out, r.read)
  BY <1>5 DEF TurnInv
<1>7. /\ DOMAIN r = {"dec", "status", "out", "seen", "read", "missed"}
      /\ r.status \in Results /\ r.missed = FALSE
  BY <1>6 DEF Turns
<1>8. all \in {"DataAccepted", "DataDropped"}  OBVIOUS
<1> HIDE DEF all
<1>9. /\ last.dec = r.dec /\ last.seen = r.seen /\ last.out = r.out /\ last.read = r.read
      /\ last.missed = r.missed
      /\ last.status = IF r.status = "Unknown" THEN all ELSE r.status
  BY <1>7
<1> HIDE DEF last
<1>10. last.status \in Returned /\ (last.status = "PacketAvailable" => r.status = "PacketAvailable")
  BY <1>7, <1>8, <1>9 DEF Returned
<1>11. /\ Tracks(last.dec, last.seen) /\ last.status \in Returned /\ last.missed = FALSE
       /\ last.status = "PacketAvailable" => IsWritten(last.out, last.read)
  BY <1>6, <1>7, <1>9, <1>10
<1>12. /\ dec' = last.dec /\ seen' = last.seen /\ status' = last.status /\ out' = last.out
       /\ read' = last.read /\ missed' = last.missed
  BY <1>3 DEF State
<1>13. Tracks(dec, seen)' <=> Tracks(dec', seen')  BY DEF Tracks, DecoderOK, Reads, Follows, InBlock
<1>14. IsWritten(out, read)' <=> IsWritten(out', read')  BY DEF IsWritten
<1> QED  BY <1>11, <1>12, <1>13, <1>14 DEF CobsInv

\* reset_decoder() keeps it.
LEMMA ResetCobsInv ==
  ASSUME CobsInv, Reset
  PROVE  CobsInv'
<1> DEFINE r == NoBytes(Start, <<>>)
<1>1. r.dec = Start /\ r.seen = <<>> /\ r.status = "Unknown" /\ r.missed = FALSE  BY DEF NoBytes
<1>2. dec' = r.dec /\ seen' = r.seen /\ status' = r.status /\ missed' = r.missed  BY DEF Reset, State
<1>3. Tracks(dec', seen')  BY <1>1, <1>2, StartTracks
<1>4. status' \in Returned /\ status' # "PacketAvailable" /\ missed' = FALSE
  BY <1>1, <1>2 DEF Returned, Results
<1> QED  BY <1>3, <1>4 DEF CobsInv

\* Each step keeps it.
LEMMA NextCobsInv == CobsInv /\ [Next]_vars => CobsInv'
<1> SUFFICES ASSUME CobsInv, [Next]_vars PROVE CobsInv'  OBVIOUS
<1>1. ASSUME NEW chunk \in Chunks, Decode(chunk) PROVE CobsInv'
  <2>1. PICK n \in 0 .. MaxChunk : chunk \in [1 .. n -> Bytes]  BY DEF Chunks
  <2>2. n \in Nat  BY <2>1
  <2>3. chunk \in Seq(Bytes)  BY <2>1, <2>2
  <2> QED  BY <1>1, <2>3, DecodeCobsInv
<1>2. CASE Reset  BY <1>2, ResetCobsInv
<1>3. CASE UNCHANGED vars  BY <1>3 DEF vars, CobsInv
<1> QED  BY <1>1, <1>2, <1>3 DEF Next

\* It holds in every state.
LEMMA CobsHolds == Spec => []CobsInv
BY InitCobsInv, NextCobsInv, PTL DEF Spec

-----------------------------------------------------------------------------
(* The theorems                                                            *)

\* The buffer and the block of the decoder stay within their bounds: no byte is
\* written behind the end of the buffer by write_decoded_byte().
THEOREM DecoderBounded == Spec => []TypeOK
<1>1. CobsInv => TypeOK
  <2> SUFFICES ASSUME CobsInv PROVE TypeOK  OBVIOUS
  <2>1. DecoderOK(dec) /\ status \in Returned  BY DEF CobsInv, Tracks
  <2>2. dec.code \in 1 .. MaxByte /\ dec.copy \in Nat /\ dec.copy < dec.code /\ dec.buf \in Seq(Bytes)
    BY <2>1 DEF DecoderOK, Coded
  <2>3. dec.code \in Bytes \ {esc} /\ dec.copy \in 0 .. dec.code - 1
    BY <2>2, CobsAssumption DEF Bytes, esc
  <2>4. Len(dec.buf) <= packet_size + 2  BY <2>1 DEF DecoderOK, Capacity
  <2> QED  BY <2>1, <2>2, <2>3, <2>4 DEF TypeOK, Returned, Results
<1> QED  BY <1>1, CobsHolds, PTL

\* encode() writes no byte behind a buffer of packet_size + overhead(): for every
\* payload that the decoder accepts, its blocks and their delimiter fit.
THEOREM BufferFits == Spec => []EncodedFits
<1>1. CobsInv => EncodedFits
  BY PacketFits DEF CobsInv, IsWritten, EncodedFits
<1> QED  BY <1>1, CobsHolds, PTL

\* decode() refuses no byte of a packet as encode() writes it, and returns it at
\* its delimiter: at every cut into calls, after any noise and a delimiter.
THEOREM PacketsReturned == Spec => []WholeReturned
<1>1. CobsInv => WholeReturned  BY DEF CobsInv, WholeReturned
<1> QED  BY <1>1, CobsHolds, PTL

\* decode() returns a packet only for the bytes of that packet, or these and an
\* empty block, which it cannot tell from a full block that ends with the packet.
THEOREM OthersAreRefused == Spec => []OthersRefused
<1>1. CobsInv => OthersRefused
  <2> SUFFICES ASSUME CobsInv, status = "PacketAvailable"
               PROVE  out \in Payloads /\ read \in {Packets[out], Append(Packets[out], 1)}
    BY DEF OthersRefused
  <2>1. out \in Payloads /\ read \in {Encode(out), Append(Encode(out), 1)}  BY DEF CobsInv, IsWritten
  <2>2. Packets[out] = Encode(out)  BY <2>1 DEF Packets
  <2> QED  BY <2>1, <2>2
<1> QED  BY <1>1, CobsHolds, PTL

-----------------------------------------------------------------------------
(* The downlink: variables and their places                                *)

\* The number of the variables, and what a variable takes of a packet.
Count == Len(setting.vars)
Size(i) == PackedSize(i, hd)
Content(i) == Packed(i, value[i], hd)

\* What may be in a packet or in the snapshot.
Held == Values \cup {0}
Wire == Held \cup {v \div 2 : v \in Held} \cup SUBSET Nat

\* The sizes of the variables.
LEMMA SettingIs ==
  ASSUME setting \in Settings
  PROVE  /\ Count \in Nat /\ Indices = 1 .. Count /\ setting.bits \in Nat \ {0}
         /\ \A i \in 1 .. Count, mode \in BOOLEAN :
              PackedSize(i, mode) \in Nat \ {0} /\ PackedSize(i, mode) <= PackedSize(i, TRUE)
<1> DEFINE x == setting.vars
           T == [full : Nat \ {0}, ext : Nat \ {0}]
<1>1. /\ x \in Seq(T) /\ setting.bits \in Nat \ {0}
      /\ \A i \in DOMAIN x : x[i].ext <= x[i].full
  BY SettingsAssumption
<1>2. Count \in Nat /\ Indices = 1 .. Count /\ Indices = DOMAIN x /\ Count = Len(x)
  BY <1>1 DEF Count, Indices
<1> HIDE DEF x, T
<1>3. ASSUME NEW i \in 1 .. Count, NEW mode \in BOOLEAN
      PROVE  PackedSize(i, mode) \in Nat \ {0} /\ PackedSize(i, mode) <= PackedSize(i, TRUE)
  <2>1. i \in DOMAIN x /\ x[i] \in T  BY <1>1, <1>2, <1>3
  <2>2. x[i].full \in Nat \ {0} /\ x[i].ext \in Nat \ {0} /\ x[i].ext <= x[i].full  BY <1>1, <2>1 DEF T
  <2>3. PackedSize(i, mode) = IF mode THEN x[i].full ELSE x[i].ext  BY DEF PackedSize, x
  <2>4. PackedSize(i, TRUE) = x[i].full  BY DEF PackedSize, x
  <2>5. PackedSize(i, mode) = x[i].full \/ PackedSize(i, mode) = x[i].ext  BY <2>3
  <2> DEFINE a == PackedSize(i, mode)
             b == PackedSize(i, TRUE)
             y == x[i].full
             z == x[i].ext
  <2>6. y \in Nat \ {0} /\ z \in Nat \ {0} /\ z <= y /\ b = y /\ (a = y \/ a = z)  BY <2>2, <2>4, <2>5
  <2> HIDE DEF a, b, y, z
  <2>7. a \in Nat \ {0} /\ a <= b  BY <2>6
  <2> QED  BY <2>7 DEF a, b
<1> QED  BY <1>1, <1>2, <1>3

\* pack() and pack_ext() fill what the variable takes.
LEMMA PackedIs ==
  ASSUME setting \in Settings, value \in [Indices -> Held], hd \in BOOLEAN, NEW i \in 1 .. Count
  PROVE  /\ Content(i) \in Seq(Wire) /\ Len(Content(i)) = Size(i) /\ DOMAIN Content(i) = 1 .. Size(i)
         /\ Size(i) \in Nat \ {0}
<1> DEFINE v == IF hd \/ setting.vars[i].full = setting.vars[i].ext THEN value[i] ELSE value[i] \div 2
<1>1. Size(i) \in Nat \ {0} /\ i \in Indices  BY SettingIs DEF Size
<1>2. v \in Wire
  <2>1. value[i] \in Held  BY <1>1
  <2> QED  BY <2>1 DEF Wire
<1>3. Content(i) = [k \in 1 .. Size(i) |-> v]  BY DEF Content, Packed, Size
<1> HIDE DEF v
<1> DEFINE n == Size(i)
<1>4. n \in Nat /\ Content(i) \in [1 .. n -> Wire]  BY <1>1, <1>2, <1>3
<1> HIDE DEF n
<1>5. Content(i) \in Seq(Wire)  BY <1>4
<1>6. Len(Content(i)) = n /\ DOMAIN Content(i) = 1 .. n  BY <1>4
<1> QED  BY <1>1, <1>5, <1>6 DEF n

\* The places of the variables, of m of them.
ArePlaces(at, mode, m) ==
    at = [n \in 0 .. m |-> IF n = 0 THEN 0 ELSE at[n - 1] + PackedSize(n, mode)]

\* There are such places.
LEMMA PlacesExist ==
  ASSUME NEW mode, NEW n \in Nat
  PROVE  \E at : ArePlaces(at, mode, n)
<1> DEFINE Bad == {m \in Nat : ~\E at : ArePlaces(at, mode, m)}
<1>1. CASE Bad # {}
  <2>1. PICK m \in Bad : \A j \in Bad : m <= j  BY <1>1, LeastNat
  <2>2. CASE m = 0
    <3> DEFINE f == [i \in 0 .. 0 |-> 0]
    <3>1. f = [i \in 0 .. 0 |-> IF i = 0 THEN 0 ELSE f[i - 1] + PackedSize(i, mode)]  OBVIOUS
    <3>2. ArePlaces(f, mode, 0)  BY <3>1 DEF ArePlaces
    <3> QED  BY <2>2, <3>2
  <2>3. CASE m # 0
    <3>1. m - 1 \in Nat /\ m - 1 \notin Bad  BY <2>1, <2>3
    <3>2. PICK f : ArePlaces(f, mode, m - 1)  BY <3>1
    <3> DEFINE x == f[m - 1] + PackedSize(m, mode)
               g == [i \in 0 .. m |-> IF i = m THEN x ELSE f[i]]
    <3>3. \A i \in 0 .. m - 1 : f[i] = IF i = 0 THEN 0 ELSE f[i - 1] + PackedSize(i, mode)
      BY <3>2 DEF ArePlaces
    <3>4. \A i \in 0 .. m : g[i] = IF i = 0 THEN 0 ELSE g[i - 1] + PackedSize(i, mode)
      <4> SUFFICES ASSUME NEW i \in 0 .. m
                   PROVE  g[i] = IF i = 0 THEN 0 ELSE g[i - 1] + PackedSize(i, mode)
        OBVIOUS
      <4>1. i # 0 => g[i - 1] = f[i - 1]  OBVIOUS
      <4>2. CASE i = m  BY <2>3, <4>1, <4>2
      <4>3. CASE i # m  BY <3>3, <4>1, <4>3
      <4> QED  BY <4>2, <4>3
    <3>5. g = [i \in 0 .. m |-> IF i = 0 THEN 0 ELSE g[i - 1] + PackedSize(i, mode)]
      <4>1. g = [i \in 0 .. m |-> g[i]]  OBVIOUS
      <4> HIDE DEF g
      <4> QED  BY <3>4, <4>1
    <3>6. ArePlaces(g, mode, m)  BY <3>5 DEF ArePlaces
    <3> QED  BY <2>1, <3>6
  <2> QED  BY <2>2, <2>3
<1>2. CASE Bad = {}  BY <1>2
<1> QED  BY <1>1, <1>2

\* One place behind the other.
LEMMA PlacesAre ==
  ASSUME setting \in Settings, NEW mode \in BOOLEAN
  PROVE  /\ Places(mode)[0] = 0
         /\ \A i \in 1 .. Count : Places(mode)[i] = Places(mode)[i - 1] + PackedSize(i, mode)
<1> DEFINE at == CHOOSE at : ArePlaces(at, mode, Count)
<1>1. Places(mode) = at  BY DEF Places, ArePlaces, Count
<1>2. Count \in Nat  BY SettingIs
<1>3. ArePlaces(at, mode, Count)  BY <1>2, PlacesExist
<1> HIDE DEF at
<1>4. \A n \in 0 .. Count : at[n] = IF n = 0 THEN 0 ELSE at[n - 1] + PackedSize(n, mode)
  BY <1>3 DEF ArePlaces
<1> QED  BY <1>1, <1>2, <1>4

\* They grow, and are inside the snapshot in either mode.
LEMMA PlacesFit ==
  ASSUME setting \in Settings, NEW mode \in BOOLEAN, NEW m \in 0 .. Count
  PROVE  /\ Places(mode)[m] \in Nat /\ Places(mode)[m] <= Places(TRUE)[m]
         /\ \A i \in 0 .. m : Places(mode)[i] \in Nat /\ Places(mode)[i] <= Places(mode)[m]
<1> DEFINE p == Places(mode)
           q == Places(TRUE)
           Good(n) == /\ p[n] \in Nat /\ q[n] \in Nat /\ p[n] <= q[n]
                      /\ \A i \in 0 .. n : p[i] \in Nat /\ p[i] <= p[n]
           Bad == {n \in Nat : n <= Count /\ ~Good(n)}
<1>1. Count \in Nat  BY SettingIs
<1>2. /\ p[0] = 0 /\ \A i \in 1 .. Count : p[i] = p[i - 1] + PackedSize(i, mode)
      /\ q[0] = 0 /\ \A i \in 1 .. Count : q[i] = q[i - 1] + PackedSize(i, TRUE)
  BY PlacesAre
<1> HIDE DEF p, q
<1>3. CASE Bad # {}
  <2>1. PICK n \in Bad : \A j \in Bad : n <= j  BY <1>3, LeastNat
  <2>2. n # 0
    <3>1. \A i \in 0 .. 0 : i = 0  OBVIOUS
    <3> QED  BY <1>2, <2>1, <3>1
  <2>3. n - 1 \in Nat /\ n - 1 <= Count /\ n - 1 \notin Bad /\ n \in 1 .. Count  BY <1>1, <2>1, <2>2
  <2>4. Good(n - 1)  BY <2>3
  <2>5. /\ PackedSize(n, mode) \in Nat \ {0} /\ PackedSize(n, mode) <= PackedSize(n, TRUE)
        /\ PackedSize(n, TRUE) \in Nat
    BY <2>3, SettingIs
  <2>6. p[n] = p[n - 1] + PackedSize(n, mode) /\ q[n] = q[n - 1] + PackedSize(n, TRUE)  BY <1>2, <2>3
  <2>7. p[n] \in Nat /\ q[n] \in Nat /\ p[n] <= q[n] /\ p[n - 1] <= p[n] /\ p[n - 1] \in Nat
    <3> DEFINE a == p[n - 1]
               b == q[n - 1]
               x == PackedSize(n, mode)
               y == PackedSize(n, TRUE)
    <3>1. a \in Nat /\ b \in Nat /\ a <= b  BY <2>4
    <3>2. x \in Nat /\ y \in Nat /\ x <= y /\ p[n] = a + x /\ q[n] = b + y  BY <2>5, <2>6
    <3> HIDE DEF a, b, x, y
    <3>3. p[n] \in Nat /\ q[n] \in Nat /\ p[n] <= q[n] /\ a <= p[n]  BY <3>1, <3>2
    <3> QED  BY <3>1, <3>3 DEF a
  <2>8. \A i \in 0 .. n : i = n \/ i \in 0 .. n - 1  BY <2>3
  <2>9. Good(n)  BY <2>4, <2>7, <2>8
  <2> QED  BY <2>1, <2>9
<1>4. CASE Bad = {}
  <2>1. m \in Nat /\ m <= Count /\ m \notin Bad  BY <1>1, <1>4
  <2>2. Good(m)  BY <2>1
  <2> QED  BY <2>2 DEF p, q
<1> QED  BY <1>3, <1>4

\* The bytes of a variable are in the snapshot, in front of those of the next ones.
LEMMA PlaceIs ==
  ASSUME setting \in Settings, NEW mode \in BOOLEAN, NEW i \in 1 .. Count
  PROVE  LET at == Places(mode)[i - 1]
             sz == PackedSize(i, mode)
         IN  /\ at \in Nat /\ sz \in Nat \ {0} /\ SnapshotSize \in Nat /\ at + sz <= SnapshotSize
             /\ Places(mode)[i] = at + sz
             /\ \A j \in i + 1 .. Count : Places(mode)[j - 1] \in Nat /\ at + sz <= Places(mode)[j - 1]
<1> DEFINE at == Places(mode)[i - 1]
           sz == PackedSize(i, mode)
           p == Places(mode)
           q == Places(TRUE)
<1>1. Count \in Nat /\ i \in Nat /\ i - 1 \in 0 .. Count /\ i \in 0 .. Count /\ Count \in 0 .. Count
  BY SettingIs
<1>2. sz \in Nat \ {0}  BY SettingIs
<1>3. p[i] = at + sz  BY PlacesAre
<1>4. at \in Nat  BY <1>1, PlacesFit
<1>5. p[i] <= p[Count] /\ p[Count] \in Nat /\ p[Count] <= q[Count]  BY <1>1, PlacesFit
<1>6. q[Count] \in Nat /\ SnapshotSize = q[Count]  BY <1>1, PlacesFit DEF SnapshotSize, Count
<1>7. \A j \in i + 1 .. Count : p[j - 1] \in Nat /\ p[i] <= p[j - 1]
  <2> SUFFICES ASSUME NEW j \in i + 1 .. Count PROVE p[j - 1] \in Nat /\ p[i] <= p[j - 1]  OBVIOUS
  <2>1. j - 1 \in 0 .. Count /\ i \in 0 .. j - 1  BY <1>1
  <2> QED  BY <2>1, PlacesFit
<1> HIDE DEF at, sz, p, q
<1>8. at + sz <= SnapshotSize  BY <1>2, <1>3, <1>4, <1>5, <1>6
<1> QED  BY <1>2, <1>3, <1>4, <1>6, <1>7, <1>8 DEF at, sz, p

\* memcpy() into the snapshot: the bytes are there, and no others have changed.
LEMMA StoreIs ==
  ASSUME NEW S, NEW m \in Nat, NEW x \in [1 .. m -> S], NEW at \in Nat, NEW b \in Seq(S),
         at + Len(b) <= m
  PROVE  LET y == Store(x, at, b)
         IN  /\ y \in [1 .. m -> S] /\ Segment(y, at, Len(b)) = b
             /\ \A p \in Nat, n \in Nat :
                  /\ p + n <= m
                  /\ p + n <= at \/ at + Len(b) <= p
                  => Segment(y, p, n) = Segment(x, p, n)
<1> DEFINE y == Store(x, at, b)
           l == Len(b)
<1>1. l \in Nat /\ DOMAIN b = 1 .. l /\ \A k \in 1 .. l : b[k] \in S  OBVIOUS
<1>2. DOMAIN x = 1 .. m /\ \A k \in 1 .. m : x[k] \in S  OBVIOUS
<1> HIDE DEF l
<1>3. y = [k \in 1 .. m |-> IF k - at \in 1 .. l THEN b[k - at] ELSE x[k]]  BY <1>1, <1>2 DEF Store
<1>4. \A k \in 1 .. m : y[k] = IF k - at \in 1 .. l THEN b[k - at] ELSE x[k]  BY <1>3
<1>5. y \in [1 .. m -> S]
  <2>1. \A k \in 1 .. m : (IF k - at \in 1 .. l THEN b[k - at] ELSE x[k]) \in S  BY <1>1, <1>2
  <2> QED  BY <1>3, <2>1
<1> HIDE DEF y
<1>6. Segment(y, at, l) = b
  <2>1. \A k \in 1 .. l : at + k \in 1 .. m /\ (at + k) - at = k  BY <1>1 DEF l
  <2>2. \A k \in 1 .. l : y[at + k] = b[k]  BY <1>4, <2>1
  <2>3. Segment(y, at, l) = [k \in 1 .. l |-> b[k]]  BY <2>2 DEF Segment
  <2>4. b = [k \in 1 .. l |-> b[k]]  BY <1>1 DEF l
  <2> QED  BY <2>3, <2>4
<1>7. \A p \in Nat, n \in Nat :
        /\ p + n <= m
        /\ p + n <= at \/ at + l <= p
        => Segment(y, p, n) = Segment(x, p, n)
  <2> SUFFICES ASSUME NEW p \in Nat, NEW n \in Nat, p + n <= m, p + n <= at \/ at + l <= p
               PROVE  Segment(y, p, n) = Segment(x, p, n)
    OBVIOUS
  <2>1. \A k \in 1 .. n : p + k \in 1 .. m /\ (p + k) - at \notin 1 .. l  BY <1>1
  <2>2. \A k \in 1 .. n : y[p + k] = x[p + k]  BY <1>4, <2>1
  <2> QED  BY <2>2 DEF Segment
<1> QED  BY <1>5, <1>6, <1>7 DEF y, l

-----------------------------------------------------------------------------
(* The loop of pack_downstream                                             *)

\* What the loop has.
Packs == [buf : Seq(Wire), at : Nat, cnt : Nat, masks : Nat, zeros : Nat, place : Nat,
          flags : SUBSET Indices, snapshot : [1 .. SnapshotSize -> Wire], sent : SUBSET Indices,
          cut : BOOLEAN]

PackFields == {"buf", "at", "cnt", "masks", "zeros", "place", "flags", "snapshot", "sent", "cut"}

\* The mask of the group is in the buffer.
MaskOK(s) == s.at \in 1 .. Len(s.buf) /\ s.buf[s.at] \in SUBSET Nat

\* t is s behind a variable of sz bytes: the place moves, and behind the last
\* variable of a group there is a new mask.
Passed(s, t, i, sz) ==
    /\ t.cnt = s.cnt /\ t.masks = s.masks /\ t.flags = s.flags /\ t.snapshot = s.snapshot
    /\ t.sent = s.sent /\ t.cut = s.cut
    /\ t.place = s.place + sz
    /\ i % setting.bits # 0 => t.buf = s.buf /\ t.at = s.at /\ t.zeros = s.zeros
    /\ i % setting.bits = 0 => /\ t.buf = Append(s.buf, {}) /\ t.at = Len(s.buf) + 1
                               /\ t.zeros = s.zeros + 1

\* t is s with the bytes b of variable i.
Added(s, t, i, b) ==
    /\ t.at = s.at /\ t.place = s.place /\ t.cut = s.cut
    /\ t.cnt = s.cnt + Len(b) /\ t.masks = s.masks + s.zeros /\ t.zeros = 0
    /\ t.flags = s.flags \ {i} /\ t.sent = s.sent \cup {i}
    /\ t.snapshot = Store(s.snapshot, s.place, b)
    /\ Len(t.buf) = Len(s.buf) + Len(b)
    /\ \A k \in 1 .. Len(s.buf) : k # s.at => t.buf[k] = s.buf[k]
    /\ t.buf[s.at] = s.buf[s.at] \cup {(i - 1) % setting.bits}
    /\ \A k \in 1 .. Len(b) : t.buf[Len(s.buf) + k] = b[k]

\* Behind a variable.
LEMMA BehindIs ==
  ASSUME setting \in Settings, NEW s \in Packs, MaskOK(s), NEW i \in 1 .. Count, NEW sz \in Nat
  PROVE  Behind(s, i, sz) \in Packs /\ MaskOK(Behind(s, i, sz)) /\ Passed(s, Behind(s, i, sz), i, sz)
<1> DEFINE next == [s EXCEPT !.place = @ + sz]
           last == [next EXCEPT !.buf = Append(@, {}), !.at = Len(s.buf) + 1, !.zeros = @ + 1]
           t == Behind(s, i, sz)
<1>1. /\ DOMAIN s = PackFields
      /\ s.buf \in Seq(Wire) /\ s.at \in Nat /\ s.cnt \in Nat /\ s.masks \in Nat /\ s.zeros \in Nat
      /\ s.place \in Nat /\ s.flags \in SUBSET Indices /\ s.snapshot \in [1 .. SnapshotSize -> Wire]
      /\ s.sent \in SUBSET Indices /\ s.cut \in BOOLEAN
  BY DEF Packs, PackFields
<1>2. s.place + sz \in Nat /\ s.zeros + 1 \in Nat /\ Len(s.buf) + 1 \in Nat  BY <1>1
<1>3. /\ Append(s.buf, {}) \in Seq(Wire) /\ Len(Append(s.buf, {})) = Len(s.buf) + 1
      /\ Append(s.buf, {})[Len(s.buf) + 1] = {}
  <2>1. {} \in Wire  BY DEF Wire
  <2> QED  BY <1>1, <2>1
<1>4. /\ DOMAIN next = PackFields /\ next.place = s.place + sz
      /\ next.buf = s.buf /\ next.at = s.at /\ next.cnt = s.cnt /\ next.masks = s.masks
      /\ next.zeros = s.zeros /\ next.flags = s.flags /\ next.snapshot = s.snapshot
      /\ next.sent = s.sent /\ next.cut = s.cut
  BY <1>1 DEF PackFields
<1> HIDE DEF next
<1>5. /\ DOMAIN last = PackFields /\ last.place = next.place
      /\ last.buf = Append(next.buf, {}) /\ last.at = Len(s.buf) + 1 /\ last.zeros = next.zeros + 1
      /\ last.cnt = next.cnt /\ last.masks = next.masks
      /\ last.flags = next.flags /\ last.snapshot = next.snapshot
      /\ last.sent = next.sent /\ last.cut = next.cut
  BY <1>4 DEF PackFields
<1>6. t = IF i % setting.bits # 0 THEN next ELSE last  BY DEF Behind, next
<1> HIDE DEF last
<1>7. Passed(s, t, i, sz) /\ DOMAIN t = PackFields
  <2>1. CASE i % setting.bits # 0  BY <1>4, <1>6, <2>1 DEF Passed
  <2>2. CASE i % setting.bits = 0  BY <1>4, <1>5, <1>6, <2>2 DEF Passed
  <2> QED  BY <2>1, <2>2
<1>8. t = [f \in PackFields |-> t[f]]
  <2>1. CASE i % setting.bits # 0
    <3>1. next = [f \in PackFields |-> next[f]]  BY <1>1 DEF next, PackFields
    <3> QED  BY <1>6, <2>1, <3>1
  <2>2. CASE i % setting.bits = 0
    <3>1. last = [f \in PackFields |-> last[f]]  BY <1>4, <1>5 DEF last, PackFields
    <3> QED  BY <1>6, <2>2, <3>1
  <2> QED  BY <2>1, <2>2
<1> HIDE DEF t
<1>9. t.buf \in Seq(Wire) /\ t.at \in Nat /\ t.zeros \in Nat /\ MaskOK(t)
  <2>1. CASE i % setting.bits # 0  BY <1>1, <1>7, <2>1 DEF Passed, MaskOK
  <2>2. CASE i % setting.bits = 0
    <3>1. t.buf = Append(s.buf, {}) /\ t.at = Len(s.buf) + 1 /\ t.zeros = s.zeros + 1
      BY <1>7, <2>2 DEF Passed
    <3>2. Len(s.buf) \in Nat  BY <1>1
    <3>3. Len(t.buf) = Len(s.buf) + 1 /\ t.buf[t.at] = {}  BY <1>3, <3>1
    <3> QED  BY <1>2, <1>3, <3>1, <3>2, <3>3 DEF MaskOK
  <2> QED  BY <2>1, <2>2
<1>10. t \in Packs
  <2>1. /\ t.cnt \in Nat /\ t.masks \in Nat /\ t.place \in Nat /\ t.flags \in SUBSET Indices
        /\ t.snapshot \in [1 .. SnapshotSize -> Wire] /\ t.sent \in SUBSET Indices /\ t.cut \in BOOLEAN
    BY <1>1, <1>2, <1>7 DEF Passed
  <2>2. t = [buf |-> t.buf, at |-> t.at, cnt |-> t.cnt, masks |-> t.masks, zeros |-> t.zeros,
             place |-> t.place, flags |-> t.flags, snapshot |-> t.snapshot, sent |-> t.sent,
             cut |-> t.cut]
    BY <1>8 DEF PackFields
  <2> QED  BY <1>9, <2>1, <2>2 DEF Packs
<1> QED  BY <1>7, <1>9, <1>10 DEF t

\* A variable that is written.
LEMMA PostedIs ==
  ASSUME setting \in Settings, NEW s \in Packs, MaskOK(s), NEW i \in 1 .. Count,
         NEW b \in Seq(Wire), s.place + Len(b) <= SnapshotSize
  PROVE  Posted(s, i, b) \in Packs /\ MaskOK(Posted(s, i, b)) /\ Added(s, Posted(s, i, b), i, b)
<1> DEFINE t == Posted(s, i, b)
           g == (i - 1) % setting.bits
           m == [s.buf EXCEPT ![s.at] = @ \cup {g}]
           w == m \o b
<1>1. /\ DOMAIN s = PackFields
      /\ s.buf \in Seq(Wire) /\ s.at \in Nat /\ s.cnt \in Nat /\ s.masks \in Nat /\ s.zeros \in Nat
      /\ s.place \in Nat /\ s.flags \in SUBSET Indices /\ s.snapshot \in [1 .. SnapshotSize -> Wire]
      /\ s.sent \in SUBSET Indices /\ s.cut \in BOOLEAN
  BY DEF Packs, PackFields
<1>2. i \in Indices /\ g \in Nat /\ SnapshotSize \in Nat
  <2>1. Count \in Nat /\ Indices = 1 .. Count /\ setting.bits \in Nat \ {0}  BY SettingIs
  <2>2. SnapshotSize \in Nat  BY PlaceIs
  <2> QED  BY <2>1, <2>2
<1> HIDE DEF g
<1>3. s.at \in 1 .. Len(s.buf) /\ s.buf[s.at] \cup {g} \in SUBSET Nat  BY <1>2 DEF MaskOK
<1>4. m \in Seq(Wire) /\ Len(m) = Len(s.buf) /\ m[s.at] = s.buf[s.at] \cup {g}
      /\ \A k \in 1 .. Len(s.buf) : k # s.at => m[k] = s.buf[k]
  <2> DEFINE v == s.buf[s.at] \cup {g}
             x == s.buf
             n == Len(x)
  <2>1. v \in Wire  BY <1>3 DEF Wire
  <2>2. m = [x EXCEPT ![s.at] = v]  OBVIOUS
  <2> HIDE DEF v, m
  <2>3. n \in Nat /\ x \in [1 .. n -> Wire]  BY <1>1
  <2> HIDE DEF n, x
  <2>4. m \in [1 .. n -> Wire]  BY <2>1, <2>2, <2>3
  <2>5. m \in Seq(Wire) /\ Len(m) = n  BY <2>3, <2>4, SeqIsFunction
  <2>6. s.at \in 1 .. n  BY <1>3 DEF n, x
  <2>7. m[s.at] = v /\ \A k \in 1 .. n : k # s.at => m[k] = x[k]  BY <2>2, <2>3, <2>6
  <2> QED  BY <2>5, <2>7 DEF v, n, x
<1> HIDE DEF m
<1>5. /\ w \in Seq(Wire) /\ Len(w) = Len(s.buf) + Len(b)
      /\ \A k \in 1 .. Len(s.buf) : w[k] = m[k]
      /\ \A k \in 1 .. Len(b) : w[Len(s.buf) + k] = b[k]
  <2>1. w = Both(m, b)  BY DEF Both
  <2>2. Both(m, b) \in Seq(Wire) /\ IsBoth(Both(m, b), m, b)  BY <1>4, BothJoined
  <2> HIDE DEF w
  <2> QED  BY <1>4, <2>1, <2>2 DEF IsBoth
<1>6. t = [s EXCEPT !.buf = w, !.cnt = @ + Len(b), !.masks = @ + s.zeros, !.zeros = 0,
              !.flags = @ \ {i}, !.snapshot = Store(@, s.place, b), !.sent = @ \cup {i}]
  <2>1. t = [s EXCEPT !.buf = [s.buf EXCEPT ![s.at] = s.buf[s.at] \cup {(i - 1) % setting.bits}] \o b,
                      !.cnt = @ + Len(b), !.masks = @ + s.zeros, !.zeros = 0,
                      !.flags = @ \ {i}, !.snapshot = Store(@, s.place, b), !.sent = @ \cup {i}]
    BY DEF Posted
  <2>2. w = [s.buf EXCEPT ![s.at] = s.buf[s.at] \cup {(i - 1) % setting.bits}] \o b  BY DEF w, m, g
  <2> HIDE DEF w, t
  <2> QED  BY <2>1, <2>2
<1> HIDE DEF w, t
<1>7. /\ DOMAIN t = PackFields
      /\ t.at = s.at /\ t.place = s.place /\ t.cut = s.cut /\ t.buf = w
      /\ t.cnt = s.cnt + Len(b) /\ t.masks = s.masks + s.zeros /\ t.zeros = 0
      /\ t.flags = s.flags \ {i} /\ t.sent = s.sent \cup {i}
      /\ t.snapshot = Store(s.snapshot, s.place, b)
  BY <1>1, <1>6 DEF PackFields
<1>8. t = [f \in PackFields |-> t[f]]
  <2>1. t = [f \in DOMAIN s |-> t[f]]  BY <1>6
  <2> QED  BY <1>1, <2>1
<1>9. MaskOK(t)
  <2>1. t.at = s.at /\ t.buf = w /\ Len(w) = Len(s.buf) + Len(b) /\ w[s.at] = m[s.at]
    BY <1>3, <1>5, <1>7
  <2>2. Len(s.buf) \in Nat /\ Len(b) \in Nat  BY <1>1
  <2>3. s.at \in 1 .. Len(w)  BY <1>3, <2>1, <2>2
  <2> QED  BY <1>3, <1>4, <2>1, <2>3 DEF MaskOK
<1>10. Added(s, t, i, b)
  BY <1>3, <1>4, <1>5, <1>7 DEF Added, g
<1>11. t \in Packs
  <2>1. t.snapshot \in [1 .. SnapshotSize -> Wire]
    <3>1. Store(s.snapshot, s.place, b) \in [1 .. SnapshotSize -> Wire]  BY <1>1, <1>2, StoreIs
    <3> QED  BY <1>7, <3>1
  <2>2. t.cnt \in Nat /\ t.masks \in Nat /\ t.zeros \in Nat
    <3>1. Len(b) \in Nat  OBVIOUS
    <3> QED  BY <1>1, <1>7, <3>1
  <2>3. t.buf \in Seq(Wire) /\ t.at \in Nat /\ t.place \in Nat /\ t.cut \in BOOLEAN
    BY <1>1, <1>5, <1>7
  <2>4. t.flags \in SUBSET Indices /\ t.sent \in SUBSET Indices  BY <1>1, <1>2, <1>7
  <2>5. t = [buf |-> t.buf, at |-> t.at, cnt |-> t.cnt, masks |-> t.masks, zeros |-> t.zeros,
             place |-> t.place, flags |-> t.flags, snapshot |-> t.snapshot, sent |-> t.sent,
             cut |-> t.cut]
    BY <1>8 DEF PackFields
  <2> QED  BY <2>1, <2>2, <2>3, <2>4, <2>5 DEF Packs
<1> QED  BY <1>9, <1>10, <1>11 DEF t

\* One turn for variable i: the loop has ended; the variable is as in the snapshot and not
\* flagged; there is no room; or it is written.
Filtered(s, i) == i \notin s.flags /\ Segment(s.snapshot, s.place, Size(i)) = Content(i)

Ends(s, t, i) ==
    /\ t.cut = TRUE /\ t.flags = s.flags \cup {i}
    /\ t.buf = s.buf /\ t.at = s.at /\ t.cnt = s.cnt /\ t.masks = s.masks /\ t.zeros = s.zeros
    /\ t.place = s.place /\ t.snapshot = s.snapshot /\ t.sent = s.sent

LEMMA PackTurnIs ==
  ASSUME setting \in Settings, value \in [Indices -> Held], hd \in BOOLEAN,
         NEW s \in Packs, MaskOK(s), NEW i \in 1 .. Count,
         ~s.cut => s.place + Size(i) <= SnapshotSize
  PROVE  LET t == PackTurn(s, i)
         IN  /\ t \in Packs /\ MaskOK(t)
             /\ \/ s.cut /\ t = s
                \/ ~s.cut /\ Filtered(s, i) /\ Passed(s, t, i, Size(i))
                \/ ~s.cut /\ ~Filtered(s, i) /\ Ends(s, t, i)
                \/ /\ ~s.cut /\ ~Filtered(s, i)
                   /\ \E x \in Packs : MaskOK(x) /\ Added(s, x, i, Content(i)) /\ Passed(x, t, i, Size(i))
<1> DEFINE b == Content(i)
           sz == Len(b)
           t == PackTurn(s, i)
<1>1. b \in Seq(Wire) /\ sz = Size(i) /\ sz \in Nat  BY PackedIs
<1>2. t = IF s.cut THEN s
          ELSE IF Filtered(s, i) THEN Behind(s, i, sz)
          ELSE IF Overflow(s, sz) THEN Cut(s, i)
          ELSE Behind(Posted(s, i, b), i, sz)
  <2>1. Filtered(s, i) = (i \notin s.flags /\ Segment(s.snapshot, s.place, sz) = b)  BY <1>1 DEF Filtered
  <2> HIDE DEF sz
  <2>2. Packed(i, value[i], hd) = b  BY DEF Content
  <2>3. Len(Packed(i, value[i], hd)) = sz  BY <2>2 DEF sz
  <2> HIDE DEF b
  <2> QED  BY <2>1, <2>2, <2>3 DEF PackTurn
<1> HIDE DEF b, sz, t
<1>3. CASE s.cut  BY <1>2, <1>3 DEF t
<1>4. CASE ~s.cut /\ Filtered(s, i)
  <2>1. t = Behind(s, i, sz)  BY <1>2, <1>4
  <2>2. t \in Packs /\ MaskOK(t) /\ Passed(s, t, i, sz)  BY <1>1, <2>1, BehindIs
  <2> QED  BY <1>1, <1>4, <2>2 DEF t
<1>5. CASE ~s.cut /\ ~Filtered(s, i) /\ Overflow(s, sz)
  <2>1. t = [s EXCEPT !.cut = TRUE, !.flags = @ \cup {i}]  BY <1>2, <1>5 DEF Cut
  <2>2. /\ DOMAIN s = PackFields
        /\ s.buf \in Seq(Wire) /\ s.at \in Nat /\ s.cnt \in Nat /\ s.masks \in Nat /\ s.zeros \in Nat
        /\ s.place \in Nat /\ s.flags \in SUBSET Indices /\ s.snapshot \in [1 .. SnapshotSize -> Wire]
        /\ s.sent \in SUBSET Indices
    BY DEF Packs, PackFields
  <2>3. i \in Indices  BY SettingIs
  <2>4. DOMAIN t = PackFields /\ Ends(s, t, i)  BY <2>1, <2>2 DEF Ends, PackFields
  <2>5. t = [f \in PackFields |-> t[f]]
    <3>1. t = [f \in DOMAIN s |-> t[f]]  BY <2>1
    <3> QED  BY <2>2, <3>1
  <2>6. t = [buf |-> t.buf, at |-> t.at, cnt |-> t.cnt, masks |-> t.masks, zeros |-> t.zeros,
             place |-> t.place, flags |-> t.flags, snapshot |-> t.snapshot, sent |-> t.sent,
             cut |-> t.cut]
    BY <2>5 DEF PackFields
  <2>7. t.flags \in SUBSET Indices  BY <2>2, <2>3, <2>4 DEF Ends
  <2>8. t \in Packs  BY <2>2, <2>4, <2>6, <2>7 DEF Packs, Ends
  <2>9. MaskOK(t)  BY <2>4 DEF MaskOK, Ends
  <2> QED  BY <1>5, <2>4, <2>8, <2>9 DEF t
<1>6. CASE ~s.cut /\ ~Filtered(s, i) /\ ~Overflow(s, sz)
  <2> DEFINE x == Posted(s, i, b)
  <2>1. t = Behind(x, i, sz)  BY <1>2, <1>6
  <2>2. s.place + Len(b) <= SnapshotSize  BY <1>1, <1>6 DEF sz
  <2>3. x \in Packs /\ MaskOK(x) /\ Added(s, x, i, b)  BY <1>1, <2>2, PostedIs
  <2> HIDE DEF x
  <2>4. t \in Packs /\ MaskOK(t) /\ Passed(x, t, i, sz)  BY <1>1, <2>1, <2>3, BehindIs
  <2> QED  BY <1>1, <1>6, <2>3, <2>4 DEF t, b
<1> QED  BY <1>3, <1>4, <1>5, <1>6

\* The turns of the loop, m of them.
ArePacks(s, flags, m) ==
    s = [n \in 0 .. m |-> IF n = 0 THEN PackStart(flags) ELSE PackTurn(s[n - 1], n)]

\* There are such turns.
LEMMA PacksExist ==
  ASSUME NEW flags, NEW n \in Nat
  PROVE  \E s : ArePacks(s, flags, n)
<1> DEFINE Bad == {m \in Nat : ~\E s : ArePacks(s, flags, m)}
<1>1. CASE Bad # {}
  <2>1. PICK m \in Bad : \A j \in Bad : m <= j  BY <1>1, LeastNat
  <2>2. CASE m = 0
    <3> DEFINE f == [i \in 0 .. 0 |-> PackStart(flags)]
    <3>1. f = [i \in 0 .. 0 |-> IF i = 0 THEN PackStart(flags) ELSE PackTurn(f[i - 1], i)]  OBVIOUS
    <3>2. ArePacks(f, flags, 0)  BY <3>1 DEF ArePacks
    <3> QED  BY <2>2, <3>2
  <2>3. CASE m # 0
    <3>1. m - 1 \in Nat /\ m - 1 \notin Bad  BY <2>1, <2>3
    <3>2. PICK f : ArePacks(f, flags, m - 1)  BY <3>1
    <3> DEFINE x == PackTurn(f[m - 1], m)
               g == [i \in 0 .. m |-> IF i = m THEN x ELSE f[i]]
    <3>3. \A i \in 0 .. m - 1 : f[i] = IF i = 0 THEN PackStart(flags) ELSE PackTurn(f[i - 1], i)
      BY <3>2 DEF ArePacks
    <3>4. \A i \in 0 .. m : g[i] = IF i = 0 THEN PackStart(flags) ELSE PackTurn(g[i - 1], i)
      <4> SUFFICES ASSUME NEW i \in 0 .. m
                   PROVE  g[i] = IF i = 0 THEN PackStart(flags) ELSE PackTurn(g[i - 1], i)
        OBVIOUS
      <4>1. i # 0 => g[i - 1] = f[i - 1]  OBVIOUS
      <4>2. CASE i = m  BY <2>3, <4>1, <4>2
      <4>3. CASE i # m  BY <3>3, <4>1, <4>3
      <4> QED  BY <4>2, <4>3
    <3>5. g = [i \in 0 .. m |-> IF i = 0 THEN PackStart(flags) ELSE PackTurn(g[i - 1], i)]
      <4>1. g = [i \in 0 .. m |-> g[i]]  OBVIOUS
      <4> HIDE DEF g
      <4> QED  BY <3>4, <4>1
    <3>6. ArePacks(g, flags, m)  BY <3>5 DEF ArePacks
    <3> QED  BY <2>1, <3>6
  <2> QED  BY <2>2, <2>3
<1>2. CASE Bad = {}  BY <1>2
<1> QED  BY <1>1, <1>2

\* Packing are such turns.
LEMMA PackingIs ==
  ASSUME setting \in Settings, NEW flags
  PROVE  /\ Packing(flags)[0] = PackStart(flags)
         /\ \A i \in 1 .. Count : Packing(flags)[i] = PackTurn(Packing(flags)[i - 1], i)
<1> DEFINE s == CHOOSE s : ArePacks(s, flags, Count)
<1>1. Packing(flags) = s  BY DEF Packing, ArePacks, Count
<1>2. Count \in Nat  BY SettingIs
<1>3. ArePacks(s, flags, Count)  BY <1>2, PacksExist
<1> HIDE DEF s
<1>4. \A n \in 0 .. Count : s[n] = IF n = 0 THEN PackStart(flags) ELSE PackTurn(s[n - 1], n)
  BY <1>3 DEF ArePacks
<1> QED  BY <1>1, <1>2, <1>4

\* The state that the lemmas of this part are about.
Typed ==
    /\ setting \in Settings /\ value \in [Indices -> Held] /\ hd \in BOOLEAN
    /\ dl_snapshot \in [1 .. SnapshotSize -> Wire]

\* The bytes of variable i in a snapshot.
Stored(x, i) == Segment(x, Places(hd)[i - 1], Size(i))

\* After m turns: what was written is in the snapshot and no longer flagged; all else is as
\* it was, and if nothing was cut off, as the vehicle has it.
PackInv(s, flags, m) ==
    /\ s \in Packs /\ MaskOK(s)
    /\ s.sent \subseteq 1 .. m /\ flags \ s.sent \subseteq s.flags
    /\ \A i \in s.sent : Stored(s.snapshot, i) = Content(i)
    /\ \A i \in Indices \ s.sent : Stored(s.snapshot, i) = Stored(dl_snapshot, i)
    /\ Len(s.buf) = s.cnt + s.masks + s.zeros
    /\ ~s.cut => /\ s.place = Places(hd)[m]
                 /\ \A g \in s.buf[s.at] : g < m % setting.bits
                 /\ \A i \in (1 .. m) \ s.sent : i \notin flags /\ Stored(dl_snapshot, i) = Content(i)

\* It holds at the start.
LEMMA PackStarts ==
  ASSUME Typed, NEW flags \in SUBSET Indices
  PROVE  PackInv(PackStart(flags), flags, 0)
<1> DEFINE s == PackStart(flags)
<1>1. /\ s.buf = <<{}>> /\ s.at = 1 /\ s.cnt = 0 /\ s.masks = 0 /\ s.zeros = 1 /\ s.place = 0
      /\ s.flags = flags /\ s.snapshot = dl_snapshot /\ s.sent = {} /\ s.cut = FALSE
  BY DEF PackStart
<1>2. <<{}>> \in Seq(Wire) /\ Len(<<{}>>) = 1
  <2>1. {} \in Wire  BY DEF Wire
  <2> QED  BY <2>1
<1>3. s \in Packs  BY <1>2 DEF Packs, PackStart, Typed
<1>4. Places(hd)[0] = 0  BY PlacesAre DEF Typed
<1> HIDE DEF s
<1>5. MaskOK(s)  BY <1>1, <1>2 DEF MaskOK
<1>6. s.buf[s.at] = {} /\ Len(s.buf) = s.cnt + s.masks + s.zeros  BY <1>1, <1>2
<1> QED  BY <1>1, <1>3, <1>4, <1>5, <1>6 DEF PackInv, s

\* The next remainder is one more, or zero.
LEMMA NextRemainder ==
  ASSUME NEW b \in Nat \ {0}, NEW i \in Nat \ {0}
  PROVE  /\ i % b \in 0 .. b - 1 /\ (i - 1) % b \in 0 .. b - 1
         /\ i % b = 0 \/ i % b = ((i - 1) % b) + 1
<1> DEFINE q == (i - 1) \div b
           r == (i - 1) % b
<1>1. i - 1 \in Nat  OBVIOUS
<1>2. q \in Nat /\ r \in 0 .. b - 1 /\ i - 1 = b * q + r  BY <1>1, Division
<1>3. i % b \in 0 .. b - 1  BY Division
<1> HIDE DEF q, r
<1>4. CASE r + 1 = b
  <2>1. b * (q + 1) = b * q + b /\ b * q \in Nat /\ q + 1 \in Nat  BY <1>2
  <2>2. i = b * (q + 1) + 0  BY <1>2, <1>4, <2>1
  <2>3. 0 \in 0 .. b - 1 /\ q + 1 \in Int /\ i \in Int  BY <1>2
  <2>4. i % b = 0  BY <2>2, <2>3, RemainderIs
  <2> QED  BY <1>2, <1>3, <2>4 DEF r
<1>5. CASE r + 1 # b
  <2>1. b * q \in Nat /\ i = b * q + (r + 1) /\ r + 1 \in 0 .. b - 1  BY <1>2, <1>5
  <2>2. i % b = r + 1  BY <1>2, <2>1, RemainderIs
  <2> QED  BY <1>2, <1>3, <2>2 DEF r
<1> QED  BY <1>4, <1>5

\* One turn keeps it.
LEMMA PackKeeps ==
  ASSUME Typed, NEW flags \in SUBSET Indices, NEW i \in 1 .. Count, NEW s, PackInv(s, flags, i - 1)
  PROVE  PackInv(PackTurn(s, i), flags, i)
<1> DEFINE t == PackTurn(s, i)
           sz == Size(i)
           b == Content(i)
           p == Places(hd)
<1>1. setting \in Settings /\ value \in [Indices -> Held] /\ hd \in BOOLEAN  BY DEF Typed
<1>2. /\ Count \in Nat /\ Indices = 1 .. Count /\ i \in Nat \ {0} /\ i - 1 \in 0 .. Count
      /\ setting.bits \in Nat \ {0}
  BY <1>1, SettingIs
<1>3. b \in Seq(Wire) /\ Len(b) = sz /\ sz \in Nat \ {0}  BY <1>1, PackedIs
<1>4. /\ p[i - 1] \in Nat /\ SnapshotSize \in Nat /\ p[i - 1] + sz <= SnapshotSize
      /\ p[i] = p[i - 1] + sz
  BY <1>1, PlaceIs DEF Size
<1>5. s \in Packs /\ MaskOK(s) /\ (~s.cut => s.place = p[i - 1])  BY DEF PackInv
<1>6. s.snapshot \in [1 .. SnapshotSize -> Wire] /\ s.buf \in Seq(Wire) /\ s.sent \in SUBSET Indices
      /\ s.cnt \in Nat /\ s.masks \in Nat /\ s.zeros \in Nat
  BY <1>5 DEF Packs
<1>7. /\ s.sent \subseteq 1 .. i - 1 /\ flags \ s.sent \subseteq s.flags
      /\ \A j \in s.sent : Stored(s.snapshot, j) = Content(j)
      /\ \A j \in Indices \ s.sent : Stored(s.snapshot, j) = Stored(dl_snapshot, j)
      /\ Len(s.buf) = s.cnt + s.masks + s.zeros
      /\ ~s.cut => /\ \A g \in s.buf[s.at] : g < (i - 1) % setting.bits
                   /\ \A j \in (1 .. i - 1) \ s.sent : j \notin flags /\ Stored(dl_snapshot, j) = Content(j)
  BY DEF PackInv
<1>8. /\ t \in Packs /\ MaskOK(t)
      /\ \/ s.cut /\ t = s
         \/ ~s.cut /\ Filtered(s, i) /\ Passed(s, t, i, sz)
         \/ ~s.cut /\ ~Filtered(s, i) /\ Ends(s, t, i)
         \/ /\ ~s.cut /\ ~Filtered(s, i)
            /\ \E x \in Packs : MaskOK(x) /\ Added(s, x, i, b) /\ Passed(x, t, i, sz)
  BY <1>1, <1>3, <1>4, <1>5, PackTurnIs
<1>9. /\ \A j : j \in 1 .. i - 1 => j \in 1 .. i
      /\ i \in 1 .. i /\ \A j \in 1 .. i : j = i \/ j \in 1 .. i - 1
      /\ i \notin s.sent
  BY <1>2, <1>7
<1>10. /\ i % setting.bits \in 0 .. setting.bits - 1 /\ (i - 1) % setting.bits \in 0 .. setting.bits - 1
       /\ i % setting.bits = 0 \/ i % setting.bits = ((i - 1) % setting.bits) + 1
  BY <1>2, NextRemainder
<1>11. \A x : Passed(x, t, i, sz) /\ x \in Packs /\ MaskOK(x) =>
         /\ Len(t.buf) = t.cnt + t.masks + t.zeros <=> Len(x.buf) = x.cnt + x.masks + x.zeros
         /\ (\A g \in x.buf[x.at] : g < ((i - 1) % setting.bits) + 1) =>
              \A g \in t.buf[t.at] : g < i % setting.bits
  <2> SUFFICES ASSUME NEW x, Passed(x, t, i, sz), x \in Packs, MaskOK(x)
               PROVE  /\ Len(t.buf) = t.cnt + t.masks + t.zeros <=> Len(x.buf) = x.cnt + x.masks + x.zeros
                      /\ (\A g \in x.buf[x.at] : g < ((i - 1) % setting.bits) + 1) =>
                           \A g \in t.buf[t.at] : g < i % setting.bits
    OBVIOUS
  <2>1. x.buf \in Seq(Wire) /\ x.cnt \in Nat /\ x.masks \in Nat /\ x.zeros \in Nat  BY DEF Packs
  <2>2. Len(x.buf) \in Nat  BY <2>1
  <2>3. CASE i % setting.bits # 0
    <3>1. /\ t.buf = x.buf /\ t.at = x.at /\ t.zeros = x.zeros /\ t.cnt = x.cnt /\ t.masks = x.masks
      BY <2>3 DEF Passed
    <3>2. i % setting.bits = ((i - 1) % setting.bits) + 1  BY <1>10, <2>3
    <3> QED  BY <3>1, <3>2
  <2>4. CASE i % setting.bits = 0
    <3>1. /\ t.buf = Append(x.buf, {}) /\ t.at = Len(x.buf) + 1 /\ t.zeros = x.zeros + 1
          /\ t.cnt = x.cnt /\ t.masks = x.masks
      BY <2>4 DEF Passed
    <3>2. Len(Append(x.buf, {})) = Len(x.buf) + 1 /\ Append(x.buf, {})[Len(x.buf) + 1] = {}  BY <2>1
    <3>3. t.buf[t.at] = {}  BY <3>1, <3>2
    <3>4. Len(t.buf) = Len(x.buf) + 1  BY <3>1, <3>2
    <3>5. \A g \in t.buf[t.at] : g < i % setting.bits  BY <3>3
    <3>6. Len(t.buf) = t.cnt + t.masks + t.zeros <=> Len(x.buf) = x.cnt + x.masks + x.zeros
      <4> DEFINE l == Len(x.buf)
                 c == x.cnt
                 m == x.masks
                 z == x.zeros
      <4>1. l \in Nat /\ c \in Nat /\ m \in Nat /\ z \in Nat  BY <2>1, <2>2
      <4>2. Len(t.buf) = l + 1 /\ t.cnt = c /\ t.masks = m /\ t.zeros = z + 1  BY <3>1, <3>4
      <4> HIDE DEF l, c, m, z
      <4>3. l + 1 = c + m + (z + 1) <=> l = c + m + z  BY <4>1
      <4> QED  BY <4>2, <4>3 DEF l, c, m, z
    <3> QED  BY <3>5, <3>6
  <2> QED  BY <2>3, <2>4
<1> HIDE DEF t, sz, b, p
<1>12. CASE s.cut /\ t = s
  BY <1>5, <1>7, <1>9, <1>12 DEF PackInv, t
<1>13. CASE ~s.cut /\ Filtered(s, i) /\ Passed(s, t, i, sz)
  <2>1. /\ t.flags = s.flags /\ t.snapshot = s.snapshot /\ t.sent = s.sent /\ t.cut = s.cut
        /\ t.place = p[i]
    BY <1>4, <1>5, <1>13 DEF Passed
  <2>2. i \notin s.flags /\ Stored(s.snapshot, i) = b
    BY <1>5, <1>13 DEF Filtered, Stored, p, b, sz
  <2>3. i \notin flags /\ Stored(dl_snapshot, i) = Content(i)
    BY <1>2, <1>7, <1>9, <2>2 DEF b
  <2>4. \A j \in (1 .. i) \ t.sent : j \notin flags /\ Stored(dl_snapshot, j) = Content(j)
    BY <1>7, <1>9, <1>13, <2>1, <2>3
  <2>5. \A g \in s.buf[s.at] : g < ((i - 1) % setting.bits) + 1
    <3>1. s.buf[s.at] \in SUBSET Nat /\ (i - 1) % setting.bits \in Nat  BY <1>5, <1>10 DEF MaskOK
    <3>2. \A g \in s.buf[s.at] : g \in Nat /\ g < (i - 1) % setting.bits  BY <1>7, <1>13, <3>1
    <3> HIDE DEF Passed
    <3> QED  BY <3>1, <3>2
  <2>6. Len(t.buf) = t.cnt + t.masks + t.zeros /\ \A g \in t.buf[t.at] : g < i % setting.bits
    BY <1>5, <1>7, <1>11, <1>13, <2>5
  <2>7. t.sent \subseteq 1 .. i  BY <1>7, <1>9, <2>1
  <2> QED  BY <1>7, <1>8, <2>1, <2>4, <2>6, <2>7 DEF PackInv, t, p
<1>14. CASE ~s.cut /\ ~Filtered(s, i) /\ Ends(s, t, i)
  <2>1. /\ t.cut = TRUE /\ t.flags = s.flags \cup {i} /\ t.snapshot = s.snapshot /\ t.sent = s.sent
        /\ t.buf = s.buf /\ t.cnt = s.cnt /\ t.masks = s.masks /\ t.zeros = s.zeros
    BY <1>14 DEF Ends
  <2> QED  BY <1>7, <1>8, <1>9, <2>1 DEF PackInv, t
<1>15. ASSUME ~s.cut, NEW x \in Packs, MaskOK(x), Added(s, x, i, b), Passed(x, t, i, sz)
       PROVE  PackInv(t, flags, i)
  <2>1. /\ t.flags = s.flags \ {i} /\ t.sent = s.sent \cup {i} /\ t.cut = s.cut
        /\ t.snapshot = Store(s.snapshot, p[i - 1], b) /\ t.place = p[i]
    BY <1>4, <1>5, <1>15 DEF Added, Passed
  <2> DEFINE y == Store(s.snapshot, p[i - 1], b)
  <2>2. /\ Segment(y, p[i - 1], Len(b)) = b
        /\ \A q \in Nat, n \in Nat :
             /\ q + n <= SnapshotSize
             /\ q + n <= p[i - 1] \/ p[i - 1] + Len(b) <= q
             => Segment(y, q, n) = Segment(s.snapshot, q, n)
    <3> DEFINE a == p[i - 1]
               x0 == s.snapshot
    <3>1. /\ a \in Nat /\ SnapshotSize \in Nat /\ a + Len(b) <= SnapshotSize /\ b \in Seq(Wire)
          /\ x0 \in [1 .. SnapshotSize -> Wire] /\ y = Store(x0, a, b)
      BY <1>3, <1>4, <1>6
    <3> HIDE DEF a, x0, y
    <3> QED  BY <3>1, StoreIs DEF a, x0
  <2> HIDE DEF y
  <2>3. Stored(t.snapshot, i) = Content(i)  BY <1>3, <2>1, <2>2 DEF Stored, p, sz, b, y
  <2>4. \A j \in Indices : j # i => Stored(t.snapshot, j) = Stored(s.snapshot, j)
    <3> SUFFICES ASSUME NEW j \in Indices, j # i PROVE Stored(y, j) = Stored(s.snapshot, j)
      BY <2>1 DEF y
    <3> DEFINE q == p[j - 1]
               n == Size(j)
               a == p[i - 1]
    <3>1. j \in 1 .. Count /\ i \in 1 .. Count  BY <1>2
    <3>2. q \in Nat /\ n \in Nat /\ q + n <= SnapshotSize
      BY <1>1, <3>1, PlaceIs DEF Size, p
    <3>3. j < i => q + n <= a
      <4> SUFFICES ASSUME j < i PROVE q + n <= a  OBVIOUS
      <4>1. i \in j + 1 .. Count  BY <1>2, <3>1
      <4> QED  BY <1>1, <3>1, <4>1, PlaceIs DEF Size, p
    <3>4. i < j => a + sz <= q
      <4> SUFFICES ASSUME i < j PROVE a + sz <= q  OBVIOUS
      <4>1. j \in i + 1 .. Count  BY <1>2, <3>1
      <4> QED  BY <1>1, <3>1, <4>1, PlaceIs DEF Size, p, sz
    <3>5. j < i \/ i < j  BY <3>1
    <3>6. q + n <= a \/ a + Len(b) <= q  BY <1>3, <3>3, <3>4, <3>5
    <3> HIDE DEF q, n, a
    <3>7. Segment(y, q, n) = Segment(s.snapshot, q, n)  BY <2>2, <3>2, <3>6 DEF a
    <3> QED  BY <3>7 DEF Stored, q, n, p
  <2>5. \A j \in t.sent : Stored(t.snapshot, j) = Content(j)
    BY <1>6, <1>7, <1>9, <2>1, <2>3, <2>4
  <2>6. \A j \in Indices \ t.sent : Stored(t.snapshot, j) = Stored(dl_snapshot, j)
    BY <1>7, <2>1, <2>4
  <2>7. t.sent \subseteq 1 .. i /\ flags \ t.sent \subseteq t.flags  BY <1>7, <1>9, <2>1
  <2>8. \A j \in (1 .. i) \ t.sent : j \notin flags /\ Stored(dl_snapshot, j) = Content(j)
    BY <1>7, <1>9, <1>15, <2>1
  <2>9. \A g \in x.buf[x.at] : g < ((i - 1) % setting.bits) + 1
    <3> DEFINE r == (i - 1) % setting.bits
    <3>1. s.buf[s.at] \in SUBSET Nat /\ r \in Nat  BY <1>5, <1>10 DEF MaskOK
    <3>2. \A g \in s.buf[s.at] : g \in Nat /\ g < r  BY <1>7, <1>15, <3>1
    <3>3. x.buf[x.at] = s.buf[s.at] \cup {r}  BY <1>15 DEF Added
    <3> HIDE DEF r
    <3>4. \A g \in x.buf[x.at] : g < r + 1  BY <3>1, <3>2, <3>3
    <3> QED  BY <3>4 DEF r
  <2>10. Len(x.buf) = x.cnt + x.masks + x.zeros
    <3>1. /\ Len(x.buf) = Len(s.buf) + sz /\ x.cnt = s.cnt + sz /\ x.masks = s.masks + s.zeros
          /\ x.zeros = 0
      BY <1>3, <1>15 DEF Added
    <3> QED  BY <1>3, <1>6, <1>7, <3>1
  <2>11. Len(t.buf) = t.cnt + t.masks + t.zeros /\ \A g \in t.buf[t.at] : g < i % setting.bits
    BY <1>11, <1>15, <2>9, <2>10
  <2> QED  BY <1>8, <1>15, <2>1, <2>5, <2>6, <2>7, <2>8, <2>11 DEF PackInv, t, p
<1> QED  BY <1>8, <1>12, <1>13, <1>14, <1>15 DEF t

\* It holds after every turn.
LEMMA PackHolds ==
  ASSUME Typed, NEW flags \in SUBSET Indices, NEW m \in 0 .. Count
  PROVE  PackInv(Packing(flags)[m], flags, m)
<1> DEFINE s == Packing(flags)
           Bad == {n \in Nat : n <= Count /\ ~PackInv(s[n], flags, n)}
<1>1. setting \in Settings /\ Count \in Nat  BY SettingIs DEF Typed
<1>2. s[0] = PackStart(flags) /\ \A i \in 1 .. Count : s[i] = PackTurn(s[i - 1], i)
  BY <1>1, PackingIs
<1> HIDE DEF s
<1>3. CASE Bad # {}
  <2>1. PICK n \in Bad : \A j \in Bad : n <= j  BY <1>3, LeastNat
  <2>2. n # 0  BY <1>2, <2>1, PackStarts
  <2>3. n - 1 \in Nat /\ n - 1 <= Count /\ n - 1 \notin Bad /\ n \in 1 .. Count  BY <1>1, <2>1, <2>2
  <2>4. PackInv(s[n - 1], flags, n - 1)  BY <2>3
  <2>5. PackInv(PackTurn(s[n - 1], n), flags, n)  BY <2>3, <2>4, PackKeeps
  <2> QED  BY <1>2, <2>1, <2>3, <2>5
<1>4. CASE Bad = {}
  <2>1. m \in Nat /\ m <= Count /\ m \notin Bad  BY <1>1, <1>4
  <2> QED  BY <2>1 DEF s
<1> QED  BY <1>3, <1>4

\* t, after m turns, is ahead of s after i turns: the bytes in front are the same, the mask
\* of the group of variable i may have got bits of later variables of the group, and if
\* anything else was written, it is behind.
Ahead(s, i, t, m) ==
    /\ Len(s.buf) <= Len(t.buf)
    /\ \A k \in 1 .. Len(s.buf) : k # s.at => t.buf[k] = s.buf[k]
    /\ \A g \in Nat : g < i % setting.bits => (g \in t.buf[s.at] <=> g \in s.buf[s.at])
    /\ s.sent \subseteq t.sent /\ \A j \in t.sent : j \in s.sent \/ i < j
    /\ \/ t.cut
       \/ t.at = s.at /\ i % setting.bits <= m % setting.bits
       \/ Len(s.buf) < t.at
    /\ \/ t.sent = s.sent /\ t.cnt + t.masks = s.cnt + s.masks
       \/ Len(s.buf) < t.cnt + t.masks
    /\ s.cut => t = s

\* It remains so.
LEMMA AheadTurn ==
  ASSUME Typed, NEW flags \in SUBSET Indices, NEW i \in 0 .. Count, NEW j \in i + 1 .. Count,
         NEW s, PackInv(s, flags, i), NEW t, PackInv(t, flags, j - 1), Ahead(s, i, t, j - 1)
  PROVE  Ahead(s, i, PackTurn(t, j), j)
<1> DEFINE u == PackTurn(t, j)
           sz == Size(j)
           b == Content(j)
           l == Len(s.buf)
           r == i % setting.bits
           q == (j - 1) % setting.bits
           n == j % setting.bits
<1>1. setting \in Settings /\ value \in [Indices -> Held] /\ hd \in BOOLEAN  BY DEF Typed
<1>2. /\ Count \in Nat /\ Indices = 1 .. Count /\ j \in Nat \ {0} /\ j \in 1 .. Count /\ i \in Nat /\ i < j
      /\ setting.bits \in Nat \ {0}
  BY <1>1, SettingIs
<1>3. b \in Seq(Wire) /\ Len(b) = sz /\ sz \in Nat \ {0}  BY <1>1, PackedIs
<1>4. Places(hd)[j - 1] + sz <= SnapshotSize  BY <1>1, <1>2, PlaceIs DEF Size
<1>5. /\ t \in Packs /\ MaskOK(t) /\ (~t.cut => t.place = Places(hd)[j - 1])
      /\ Len(t.buf) = t.cnt + t.masks + t.zeros
      /\ s \in Packs /\ MaskOK(s)
  BY DEF PackInv
<1>6. /\ \/ t.cut /\ u = t
         \/ ~t.cut /\ Filtered(t, j) /\ Passed(t, u, j, sz)
         \/ ~t.cut /\ ~Filtered(t, j) /\ Ends(t, u, j)
         \/ /\ ~t.cut /\ ~Filtered(t, j)
            /\ \E x \in Packs : MaskOK(x) /\ Added(t, x, j, b) /\ Passed(x, u, j, sz)
  BY <1>1, <1>2, <1>4, <1>5, PackTurnIs
<1>7. r \in Nat /\ n \in Nat /\ q \in Nat /\ (n = 0 \/ n = q + 1)
  <2>1. n \in 0 .. setting.bits - 1 /\ q \in 0 .. setting.bits - 1 /\ (n = 0 \/ n = q + 1)
    BY <1>2, NextRemainder
  <2>2. r \in 0 .. setting.bits - 1  BY <1>2, Division
  <2> QED  BY <1>2, <2>1, <2>2
<1>8. l \in Nat /\ s.at \in 1 .. l
  <2>1. s.buf \in Seq(Wire)  BY <1>5 DEF Packs
  <2> QED  BY <1>5, <2>1 DEF MaskOK
<1>9. /\ l <= Len(t.buf)
      /\ \A k \in 1 .. l : k # s.at => t.buf[k] = s.buf[k]
      /\ \A g \in Nat : g < r => (g \in t.buf[s.at] <=> g \in s.buf[s.at])
      /\ s.sent \subseteq t.sent /\ \A k \in t.sent : k \in s.sent \/ i < k
      /\ t.cut \/ (t.at = s.at /\ r <= q) \/ l < t.at
      /\ (t.sent = s.sent /\ t.cnt + t.masks = s.cnt + s.masks) \/ l < t.cnt + t.masks
      /\ s.cut => t = s
  BY DEF Ahead
<1>10. ~t.cut => ~s.cut  BY <1>9
<1> HIDE DEF u, sz, b, l, r, q, n
\* What is ahead of s but for the place of the mask is so behind the variable as well.
<1>11. ASSUME NEW x \in Packs, MaskOK(x), Passed(x, u, j, sz), ~s.cut,
              l <= Len(x.buf),
              \A k \in 1 .. l : k # s.at => x.buf[k] = s.buf[k],
              \A g \in Nat : g < r => (g \in x.buf[s.at] <=> g \in s.buf[s.at]),
              s.sent \subseteq x.sent, \A k \in x.sent : k \in s.sent \/ i < k,
              (x.at = s.at /\ r <= q) \/ l < x.at,
              (x.sent = s.sent /\ x.cnt + x.masks = s.cnt + s.masks) \/ l < x.cnt + x.masks
       PROVE  Ahead(s, i, u, j)
  <2>1. x.buf \in Seq(Wire) /\ Len(x.buf) \in Nat /\ x.at \in Nat  BY <1>11 DEF Packs
  <2>2. u.sent = x.sent /\ u.cnt = x.cnt /\ u.masks = x.masks  BY <1>11 DEF Passed
  <2>3. CASE n # 0
    <3>1. u.buf = x.buf /\ u.at = x.at  BY <1>11, <2>3 DEF Passed, n
    <3>2. (u.at = s.at /\ r <= n) \/ l < u.at  BY <1>7, <1>11, <2>3, <3>1
    <3> QED  BY <1>11, <2>2, <3>1, <3>2 DEF Ahead, l, r, n
  <2>4. CASE n = 0
    <3>1. u.buf = Append(x.buf, {}) /\ u.at = Len(x.buf) + 1  BY <1>11, <2>4 DEF Passed, n
    <3>2. Len(u.buf) = Len(x.buf) + 1 /\ \A k \in 1 .. Len(x.buf) : u.buf[k] = x.buf[k]  BY <2>1, <3>1
    <3>3. l <= Len(u.buf) /\ l < u.at /\ \A k \in 1 .. l : k \in 1 .. Len(x.buf)
      BY <1>8, <1>11, <2>1, <3>1, <3>2
    <3>4. \A k \in 1 .. l : u.buf[k] = x.buf[k]  BY <3>2, <3>3
    <3>5. u.buf[s.at] = x.buf[s.at]  BY <1>8, <3>4
    <3>6. \A k \in 1 .. l : k # s.at => u.buf[k] = s.buf[k]  BY <1>11, <3>4
    <3> QED  BY <1>11, <2>2, <3>3, <3>5, <3>6 DEF Ahead, l, r
  <2> QED  BY <2>3, <2>4
<1>12. CASE t.cut /\ u = t
  <2>1. Ahead(s, i, t, j)
    <3>1. t.cut  BY <1>12
    <3> QED  BY <1>9, <3>1 DEF Ahead, l, r
  <2> QED  BY <1>12, <2>1 DEF u
<1>13. CASE ~t.cut /\ Filtered(t, j) /\ Passed(t, u, j, sz)
  BY <1>5, <1>9, <1>10, <1>11, <1>13 DEF u
<1>14. CASE ~t.cut /\ ~Filtered(t, j) /\ Ends(t, u, j)
  <2>1. /\ u.buf = t.buf /\ u.cnt = t.cnt /\ u.masks = t.masks /\ u.sent = t.sent /\ u.cut = TRUE
        /\ ~s.cut
    BY <1>10, <1>14 DEF Ends
  <2>2. Ahead(s, i, u, j)  BY <1>9, <2>1 DEF Ahead, l, r
  <2> QED  BY <2>2 DEF u
<1>15. ASSUME ~t.cut, NEW x \in Packs, MaskOK(x), Added(t, x, j, b), Passed(x, u, j, sz)
       PROVE  Ahead(s, i, u, j)
  <2> DEFINE y == t.buf
             z == x.buf
  <2>1. y \in Seq(Wire) /\ Len(y) \in Nat /\ t.at \in 1 .. Len(y) /\ t.cnt \in Nat /\ t.masks \in Nat
        /\ t.zeros \in Nat
    BY <1>5 DEF Packs, MaskOK
  <2>2. /\ x.at = t.at /\ x.sent = t.sent \cup {j}
        /\ x.cnt = t.cnt + sz /\ x.masks = t.masks + t.zeros
        /\ Len(z) = Len(y) + sz /\ z[t.at] = y[t.at] \cup {q}
        /\ \A k \in 1 .. Len(y) : k # t.at => z[k] = y[k]
    BY <1>3, <1>15 DEF Added, q
  <2>3. l <= Len(y)  BY <1>9
  <2> HIDE DEF y, z
  <2>4. l <= Len(z) /\ l < x.cnt + x.masks
    <3> DEFINE ny == Len(y)
               c == t.cnt
               m == t.masks
               zs == t.zeros
    <3>1. ny = c + m + zs /\ c \in Nat /\ m \in Nat /\ zs \in Nat /\ ny \in Nat /\ l <= ny
      BY <1>5, <2>1, <2>3 DEF y
    <3>2. Len(z) = ny + sz /\ x.cnt = c + sz /\ x.masks = m + zs  BY <2>2
    <3> HIDE DEF ny, c, m, zs
    <3>3. l <= ny + sz /\ l < (c + sz) + (m + zs)  BY <1>3, <1>8, <3>1
    <3> QED  BY <3>2, <3>3
  <2>5. \A k \in 1 .. l : k \in 1 .. Len(y)  BY <1>8, <2>1, <2>3
  <2>6. /\ \A k \in 1 .. l : k # s.at => z[k] = s.buf[k]
        /\ \A g \in Nat : g < r => (g \in z[s.at] <=> g \in s.buf[s.at])
    <3>1. CASE t.at = s.at /\ r <= q
      <4>1. \A k \in 1 .. l : k # s.at => z[k] = y[k]  BY <2>2, <2>5, <3>1
      <4>2. \A g \in Nat : g < r => g # q  BY <1>7, <3>1
      <4>3. \A g \in Nat : g < r => (g \in z[s.at] <=> g \in y[s.at])  BY <2>2, <3>1, <4>2
      <4> QED  BY <1>9, <4>1, <4>3 DEF y
    <3>2. CASE l < t.at
      <4>1. \A k \in 1 .. l : k # t.at  BY <1>8, <2>1, <3>2
      <4>2. \A k \in 1 .. l : z[k] = y[k]  BY <2>2, <2>5, <4>1
      <4>3. z[s.at] = y[s.at]  BY <1>8, <4>2
      <4> QED  BY <1>9, <4>2, <4>3 DEF y
    <3> QED  BY <1>9, <1>15, <3>1, <3>2
  <2>7. s.sent \subseteq x.sent /\ \A k \in x.sent : k \in s.sent \/ i < k  BY <1>2, <1>9, <2>2
  <2>8. (x.at = s.at /\ r <= q) \/ l < x.at  BY <1>9, <1>15, <2>2
  <2> QED  BY <1>10, <1>11, <1>15, <2>4, <2>6, <2>7, <2>8 DEF z
<1> QED  BY <1>6, <1>12, <1>13, <1>14, <1>15 DEF u

\* Every turn is ahead of those in front of it.
LEMMA AheadHolds ==
  ASSUME Typed, NEW flags \in SUBSET Indices, NEW i \in 0 .. Count, NEW m \in i .. Count
  PROVE  Ahead(Packing(flags)[i], i, Packing(flags)[m], m)
<1> DEFINE s == Packing(flags)
           Bad == {n \in Nat : i <= n /\ n <= Count /\ ~Ahead(s[i], i, s[n], n)}
<1>1. setting \in Settings /\ Count \in Nat /\ setting.bits \in Nat \ {0}  BY SettingIs DEF Typed
<1>2. \A n \in 1 .. Count : s[n] = PackTurn(s[n - 1], n)  BY <1>1, PackingIs
<1>3. \A n \in 0 .. Count : PackInv(s[n], flags, n)  BY PackHolds
<1> HIDE DEF s
<1>4. Ahead(s[i], i, s[i], i)
  <2>1. s[i] \in Packs  BY <1>3 DEF PackInv
  <2>2. s[i].buf \in Seq(Wire)  BY <2>1 DEF Packs
  <2>3. Len(s[i].buf) \in Nat  BY <2>2
  <2>4. i % setting.bits \in 0 .. setting.bits - 1  BY <1>1, Division
  <2>5. i % setting.bits <= i % setting.bits  BY <1>1, <2>4
  <2> QED  BY <2>3, <2>5 DEF Ahead
<1>5. CASE Bad # {}
  <2>1. PICK n \in Bad : \A j \in Bad : n <= j  BY <1>5, LeastNat
  <2>2. n # i  BY <1>4, <2>1
  <2>3. /\ n - 1 \in Nat /\ i <= n - 1 /\ n - 1 <= Count /\ n - 1 \notin Bad /\ n \in 1 .. Count
        /\ n \in i + 1 .. Count /\ n - 1 \in 0 .. Count
    BY <1>1, <2>1, <2>2
  <2>4. Ahead(s[i], i, s[n - 1], n - 1)  BY <2>3
  <2>5. PackInv(s[i], flags, i) /\ PackInv(s[n - 1], flags, n - 1)  BY <1>3, <2>3
  <2>6. Ahead(s[i], i, PackTurn(s[n - 1], n), n)  BY <2>3, <2>4, <2>5, AheadTurn
  <2> QED  BY <1>2, <2>1, <2>3, <2>6
<1>6. CASE Bad = {}
  <2>1. m \in Nat /\ i <= m /\ m <= Count /\ m \notin Bad  BY <1>1, <1>6
  <2> QED  BY <2>1 DEF s
<1> QED  BY <1>5, <1>6

-----------------------------------------------------------------------------
(* The loop of unpack_stream                                               *)

\* The turns of the loop, m of them.
AreUnpacks(s, start, m) == s = [n \in 0 .. m |-> IF n = 0 THEN start ELSE UnpackTurn(s[n - 1], n)]

\* There are such turns.
LEMMA UnpacksExist ==
  ASSUME NEW start, NEW n \in Nat
  PROVE  \E s : AreUnpacks(s, start, n)
<1> DEFINE Bad == {m \in Nat : ~\E s : AreUnpacks(s, start, m)}
<1>1. CASE Bad # {}
  <2>1. PICK m \in Bad : \A j \in Bad : m <= j  BY <1>1, LeastNat
  <2>2. CASE m = 0
    <3> DEFINE f == [i \in 0 .. 0 |-> start]
    <3>1. f = [i \in 0 .. 0 |-> IF i = 0 THEN start ELSE UnpackTurn(f[i - 1], i)]  OBVIOUS
    <3>2. AreUnpacks(f, start, 0)  BY <3>1 DEF AreUnpacks
    <3> QED  BY <2>2, <3>2
  <2>3. CASE m # 0
    <3>1. m - 1 \in Nat /\ m - 1 \notin Bad  BY <2>1, <2>3
    <3>2. PICK f : AreUnpacks(f, start, m - 1)  BY <3>1
    <3> DEFINE x == UnpackTurn(f[m - 1], m)
               g == [i \in 0 .. m |-> IF i = m THEN x ELSE f[i]]
    <3>3. \A i \in 0 .. m - 1 : f[i] = IF i = 0 THEN start ELSE UnpackTurn(f[i - 1], i)
      BY <3>2 DEF AreUnpacks
    <3>4. \A i \in 0 .. m : g[i] = IF i = 0 THEN start ELSE UnpackTurn(g[i - 1], i)
      <4> SUFFICES ASSUME NEW i \in 0 .. m
                   PROVE  g[i] = IF i = 0 THEN start ELSE UnpackTurn(g[i - 1], i)
        OBVIOUS
      <4>1. i # 0 => g[i - 1] = f[i - 1]  OBVIOUS
      <4>2. CASE i = m  BY <2>3, <4>1, <4>2
      <4>3. CASE i # m  BY <3>3, <4>1, <4>3
      <4> QED  BY <4>2, <4>3
    <3>5. g = [i \in 0 .. m |-> IF i = 0 THEN start ELSE UnpackTurn(g[i - 1], i)]
      <4>1. g = [i \in 0 .. m |-> g[i]]  OBVIOUS
      <4> HIDE DEF g
      <4> QED  BY <3>4, <4>1
    <3>6. AreUnpacks(g, start, m)  BY <3>5 DEF AreUnpacks
    <3> QED  BY <2>1, <3>6
  <2> QED  BY <2>2, <2>3
<1>2. CASE Bad = {}  BY <1>2
<1> QED  BY <1>1, <1>2

\* Unpacking are such turns.
LEMMA UnpackingIs ==
  ASSUME setting \in Settings, NEW got, NEW mode, NEW buf
  PROVE  /\ Unpacking(got, mode, buf)[0] = UnpackStart(got, mode, buf)
         /\ \A i \in 1 .. Count :
              Unpacking(got, mode, buf)[i] = UnpackTurn(Unpacking(got, mode, buf)[i - 1], i)
<1> DEFINE start == UnpackStart(got, mode, buf)
           s == CHOOSE s : AreUnpacks(s, start, Count)
<1>1. Unpacking(got, mode, buf) = s  BY DEF Unpacking, AreUnpacks, Count
<1>2. Count \in Nat  BY SettingIs
<1> HIDE DEF start
<1>3. AreUnpacks(s, start, Count)  BY <1>2, UnpacksExist
<1> HIDE DEF s
<1>4. \A n \in 0 .. Count : s[n] = IF n = 0 THEN start ELSE UnpackTurn(s[n - 1], n)
  BY <1>3 DEF AreUnpacks
<1> QED  BY <1>1, <1>2, <1>4 DEF start

UnpackFields == {"got", "mode", "at", "ptr", "left", "buf", "ended"}

\* The loop has come to the end of the bytes: what is left to do changes no variable.
Spent(u) == u.ended \/ u.left <= 0

\* It stays there.
LEMMA SpentTurn ==
  ASSUME NEW u, DOMAIN u = UnpackFields, u.left \in Int, u.ended \in BOOLEAN, Spent(u), NEW i \in Nat
  PROVE  LET v == UnpackTurn(u, i)
         IN  /\ DOMAIN v = UnpackFields /\ v.left \in Int /\ v.ended \in BOOLEAN /\ Spent(v)
             /\ v.got = u.got /\ v.mode = u.mode /\ v.buf = u.buf
<1> DEFINE v == UnpackTurn(u, i)
           marked == (i - 1) % setting.bits \in u.buf[u.at]
           a == [u EXCEPT !.ended = TRUE]
           b == [u EXCEPT !.at = u.ptr, !.ptr = @ + 1, !.left = @ - 1, !.ended = u.left <= 1]
<1>1. CASE u.ended  BY <1>1 DEF UnpackTurn, Spent
<1>2. CASE ~u.ended
  <2>1. u.left <= 0  BY <1>2 DEF Spent
  <2>2. v = IF marked THEN a ELSE IF i % setting.bits # 0 THEN u ELSE b
    BY <1>2, <2>1 DEF UnpackTurn
  <2>3. /\ DOMAIN a = UnpackFields /\ a.ended = TRUE /\ a.left = u.left /\ a.got = u.got
        /\ a.mode = u.mode /\ a.buf = u.buf
    BY DEF UnpackFields
  <2>4. /\ DOMAIN b = UnpackFields /\ b.left = u.left - 1 /\ b.got = u.got
        /\ b.mode = u.mode /\ b.buf = u.buf /\ b.ended = (u.left <= 1)
    BY DEF UnpackFields
  <2> HIDE DEF v, marked, a, b
  <2>5. u.left <= 1 /\ u.left - 1 \in Int  BY <2>1
  <2>6. b.ended = TRUE /\ b.left \in Int  BY <2>4, <2>5
  <2>7. CASE v = a  BY <2>3, <2>7 DEF Spent, v
  <2>8. CASE v = b  BY <2>4, <2>6, <2>8 DEF Spent, v
  <2>9. CASE v = u  BY <2>9 DEF v
  <2> QED  BY <2>2, <2>7, <2>8, <2>9
<1> QED  BY <1>1, <1>2

\* The bit of variable i, in the end, is what it was behind that variable.
LEMMA MarkStays ==
  ASSUME setting \in Settings, NEW i \in 1 .. Count, NEW x \in Packs, MaskOK(x), NEW t, NEW f, NEW m,
         Passed(x, t, i, Size(i)), Ahead(t, i, f, m)
  PROVE  (i - 1) % setting.bits \in f.buf[x.at] <=> (i - 1) % setting.bits \in x.buf[x.at]
<1> DEFINE g == (i - 1) % setting.bits
           n == i % setting.bits
<1>1. Count \in Nat /\ i \in Nat \ {0} /\ setting.bits \in Nat \ {0}  BY SettingIs
<1>2. g \in Nat /\ (n = 0 \/ n = g + 1)
  <2>1. g \in 0 .. setting.bits - 1 /\ (n = 0 \/ n = g + 1)  BY <1>1, NextRemainder
  <2> QED  BY <1>1, <2>1
<1>3. x.buf \in Seq(Wire) /\ Len(x.buf) \in Nat /\ x.at \in 1 .. Len(x.buf)  BY DEF Packs, MaskOK
<1>4. /\ \A k \in 1 .. Len(t.buf) : k # t.at => f.buf[k] = t.buf[k]
      /\ \A h \in Nat : h < n => (h \in f.buf[t.at] <=> h \in t.buf[t.at])
  BY DEF Ahead
<1> HIDE DEF g, n
<1>5. CASE n # 0
  <2>1. t.buf = x.buf /\ t.at = x.at  BY <1>5 DEF Passed, n
  <2>2. g < n  BY <1>2, <1>5
  <2>3. g \in f.buf[t.at] <=> g \in t.buf[t.at]  BY <1>2, <1>4, <2>2
  <2> QED  BY <2>1, <2>3 DEF g
<1>6. CASE n = 0
  <2>1. t.buf = Append(x.buf, {}) /\ t.at = Len(x.buf) + 1  BY <1>6 DEF Passed, n
  <2>2. Len(t.buf) = Len(x.buf) + 1 /\ \A k \in 1 .. Len(x.buf) : t.buf[k] = x.buf[k]  BY <1>3, <2>1
  <2>3. x.at \in 1 .. Len(t.buf) /\ x.at # t.at  BY <1>3, <2>1, <2>2
  <2>4. f.buf[x.at] = x.buf[x.at]  BY <1>3, <1>4, <2>2, <2>3
  <2> QED  BY <2>4
<1> QED  BY <1>5, <1>6

\* The receiver, in step with the loop that made the packet of l bytes.
InStep(u, s, l) ==
    /\ ~u.ended /\ ~s.cut
    /\ u.at = s.at /\ u.at <= l
    /\ u.ptr = Len(s.buf) + 1 /\ u.left = l - Len(s.buf)

\* What remains of a turn when a variable was read, or was not there.
Onwards(u, i) ==
    IF i % setting.bits # 0 THEN u
    ELSE [u EXCEPT !.at = u.ptr, !.ptr = @ + 1, !.left = @ - 1, !.ended = u.left <= 1]

\* It stays in step behind the variable, unless the packet ends there.
LEMMA StepOn ==
  ASSUME setting \in Settings, NEW i \in 1 .. Count, NEW x \in Packs, MaskOK(x), NEW t, NEW f, NEW m,
         Passed(x, t, i, Size(i)), Ahead(t, i, f, m), t.sent \subseteq 1 .. i,
         NEW l \in Nat, l = f.cnt + f.masks,
         NEW u, DOMAIN u = UnpackFields, InStep(u, x, l), u.ended \in BOOLEAN
  PROVE  LET v == Onwards(u, i)
         IN  /\ DOMAIN v = UnpackFields /\ v.left \in Int /\ v.ended \in BOOLEAN
             /\ v.got = u.got /\ v.mode = u.mode /\ v.buf = u.buf
             /\ InStep(v, t, l) \/ (Spent(v) /\ \A k \in f.sent : k <= i)
<1> DEFINE v == Onwards(u, i)
           n == i % setting.bits
           y == Len(x.buf)
<1>1. x.buf \in Seq(Wire) /\ y \in Nat  BY DEF Packs
<1>2. ~u.ended /\ ~x.cut /\ u.at = x.at /\ u.at <= l /\ u.ptr = y + 1 /\ u.left = l - y
  BY DEF InStep
<1>3. ~t.cut  BY <1>2 DEF Passed
<1>4. i \in Nat  OBVIOUS
<1>5. (t.sent = f.sent \/ Len(t.buf) < l)  BY DEF Ahead
<1> HIDE DEF n
<1>6. CASE n # 0
  <2>1. v = u  BY <1>6 DEF Onwards, n
  <2>2. t.buf = x.buf /\ t.at = x.at  BY <1>6 DEF Passed, n
  <2>3. InStep(u, t, l)  BY <1>2, <1>3, <2>2 DEF InStep
  <2> QED  BY <1>1, <1>2, <2>1, <2>3
<1>7. CASE n = 0
  <2> DEFINE w == [u EXCEPT !.at = u.ptr, !.ptr = @ + 1, !.left = @ - 1, !.ended = u.left <= 1]
  <2>1. v = w  BY <1>7 DEF Onwards, n
  <2>2. /\ DOMAIN w = UnpackFields /\ w.at = u.ptr /\ w.ptr = u.ptr + 1 /\ w.left = u.left - 1
        /\ w.ended = (u.left <= 1) /\ w.got = u.got /\ w.mode = u.mode /\ w.buf = u.buf
    BY DEF UnpackFields
  <2>3. t.buf = Append(x.buf, {}) /\ t.at = y + 1  BY <1>7 DEF Passed, n
  <2>4. Len(t.buf) = y + 1  BY <1>1, <2>3
  <2> HIDE DEF v, w, y
  <2>5. w.at = t.at /\ w.ptr = Len(t.buf) + 1 /\ w.left = l - Len(t.buf) /\ w.left \in Int
    BY <1>1, <1>2, <2>2, <2>3, <2>4
  <2>6. w.ended \in BOOLEAN  BY <2>2
  <2>7. CASE w.ended
    <3>1. u.left <= 1  BY <2>2, <2>7
    <3>2. ~(Len(t.buf) < l)  BY <1>1, <1>2, <2>4, <3>1
    <3>3. t.sent = f.sent  BY <1>5, <3>2
    <3>4. \A k \in f.sent : k <= i  BY <1>4, <3>3
    <3> QED  BY <2>1, <2>2, <2>5, <2>6, <2>7, <3>4 DEF Spent, v
  <2>8. CASE ~w.ended
    <3>1. ~(u.left <= 1)  BY <2>2, <2>8
    <3>2. w.at <= l  BY <1>1, <1>2, <2>2, <3>1
    <3>3. InStep(w, t, l)  BY <1>3, <2>5, <2>8, <3>2 DEF InStep
    <3> QED  BY <2>1, <2>2, <2>5, <2>6, <3>3 DEF v
  <2> QED  BY <2>7, <2>8
<1> QED  BY <1>6, <1>7

\* The bytes of a packet, and their number.
Sum(f) == f.cnt + f.masks
Wired(f) == SubSeq(f.buf, 1, Sum(f))

\* Of what was written only the masks that are zero and last are not sent.
LEMMA WiredIs ==
  ASSUME NEW f \in Packs, Len(f.buf) = f.cnt + f.masks + f.zeros
  PROVE  /\ Sum(f) \in Nat /\ Sum(f) <= Len(f.buf) /\ Wired(f) \in Seq(Wire) /\ Len(Wired(f)) = Sum(f)
         /\ \A k \in 1 .. Sum(f) : Wired(f)[k] = f.buf[k]
<1> DEFINE d == f.buf
           m == Sum(f)
<1>1. d \in Seq(Wire) /\ f.cnt \in Nat /\ f.masks \in Nat /\ f.zeros \in Nat  BY DEF Packs
<1>2. m \in Nat /\ m <= Len(d) /\ Len(d) \in Nat  BY <1>1 DEF Sum
<1>3. Wired(f) = Part(d, 0, m)  BY DEF Wired, Part
<1> HIDE DEF d, m
<1>4. 0 \in 0 .. Len(d) /\ m \in 0 .. Len(d)  BY <1>2
<1>5. /\ Part(d, 0, m) \in Seq(Wire) /\ Len(Part(d, 0, m)) = m - 0
      /\ \A k \in 1 .. m - 0 : Part(d, 0, m)[k] = d[0 + k]
  BY <1>1, <1>4, PartIs DEF d
<1>6. m - 0 = m /\ \A k \in 1 .. m : 0 + k = k  BY <1>2
<1>7. Len(Wired(f)) = m /\ \A k \in 1 .. m : Wired(f)[k] = d[k]  BY <1>3, <1>5, <1>6
<1> QED  BY <1>2, <1>3, <1>5, <1>7 DEF d, m

\* What the receiver has when it has read what f sent of the first i variables.
ReadTo(f, i) == [k \in Indices |-> IF k \in f.sent /\ k <= i THEN Content(k) ELSE heard[k]]

\* The receiver behind variable i: in step with s, the loop of the vehicle there, or at the
\* end of the bytes.
UnpackInv(u, f, s, i) ==
    /\ DOMAIN u = UnpackFields /\ u.mode = hd /\ u.buf = Wired(f) /\ u.got = ReadTo(f, i)
    /\ u.left \in Int /\ u.ended \in BOOLEAN
    /\ InStep(u, s, Sum(f)) \/ (Spent(u) /\ \A k \in f.sent : k <= i)

\* A variable that was not sent changes nothing.
LEMMA NotRead ==
  ASSUME setting \in Settings, NEW i \in 1 .. Count, NEW f, f.sent \subseteq Indices, i \notin f.sent
  PROVE  ReadTo(f, i) = ReadTo(f, i - 1)
<1>1. Count \in Nat /\ Indices = 1 .. Count  BY SettingIs
<1>2. \A k \in Indices : k \in f.sent /\ k <= i <=> k \in f.sent /\ k <= i - 1  BY <1>1
<1> QED  BY <1>2 DEF ReadTo

\* A variable that was sent is read.
LEMMA IsRead ==
  ASSUME setting \in Settings, NEW i \in 1 .. Count, NEW f, f.sent \subseteq Indices, i \in f.sent
  PROVE  ReadTo(f, i) = [ReadTo(f, i - 1) EXCEPT ![i] = Content(i)]
<1> DEFINE b == Content(i)
<1>1. Count \in Nat /\ Indices = 1 .. Count  BY SettingIs
<1>2. \A k \in Indices : k # i => (k \in f.sent /\ k <= i <=> k \in f.sent /\ k <= i - 1)  BY <1>1
<1>3. i <= i  BY <1>1
<1>4. ReadTo(f, i) = [k \in Indices |-> IF k = i THEN b ELSE ReadTo(f, i - 1)[k]]
  BY <1>2, <1>3 DEF ReadTo
<1>5. DOMAIN ReadTo(f, i - 1) = Indices  BY DEF ReadTo
<1> HIDE DEF b
<1>6. [ReadTo(f, i - 1) EXCEPT ![i] = b] = [k \in Indices |-> IF k = i THEN b ELSE ReadTo(f, i - 1)[k]]
  BY <1>5
<1> QED  BY <1>4, <1>6 DEF b

\* Where a variable was not sent, its bit is not there.
LEMMA NoMark ==
  ASSUME NEW u, ~u.ended, NEW i, (i - 1) % setting.bits \notin u.buf[u.at]
  PROVE  UnpackTurn(u, i) = Onwards(u, i)
BY DEF UnpackTurn, Onwards

\* The bytes that are read where a variable was sent.
Fetched(u, i) == SubSeq(u.buf, u.ptr, u.ptr + PackedSize(i, u.mode) - 1)
Fetching(u, i, b) ==
    [u EXCEPT !.got = [u.got EXCEPT ![i] = b], !.ptr = @ + PackedSize(i, u.mode), !.left = @ - PackedSize(i, u.mode)]

\* Where a variable was sent, it is read.
LEMMA Marked ==
  ASSUME NEW u, ~u.ended, NEW i, (i - 1) % setting.bits \in u.buf[u.at], ~(u.left <= 0),
         DOMAIN u = UnpackFields
  PROVE  UnpackTurn(u, i) = Onwards(Fetching(u, i, Fetched(u, i)), i)
<1> DEFINE sz == PackedSize(i, u.mode)
           b == SubSeq(u.buf, u.ptr, u.ptr + sz - 1)
           r == [u EXCEPT !.got[i] = b, !.ptr = @ + sz, !.left = @ - sz]
<1>1. r = Fetching(u, i, Fetched(u, i))  BY DEF Fetching, Fetched, UnpackFields
<1>2. UnpackTurn(u, i) = Onwards(r, i)
  <2>1. UnpackTurn(u, i) = IF i % setting.bits # 0 THEN r
                           ELSE [r EXCEPT !.at = r.ptr, !.ptr = @ + 1, !.left = @ - 1, !.ended = r.left <= 1]
    BY DEF UnpackTurn
  <2> HIDE DEF r
  <2> QED  BY <2>1 DEF Onwards
<1> QED  BY <1>1, <1>2

\* One turn: the receiver stays in step, or it is at the end of the bytes.
LEMMA ReadTurn ==
  ASSUME Typed, NEW flags, NEW i \in 1 .. Count,
         NEW s, PackInv(s, flags, i - 1), NEW t, t = PackTurn(s, i), PackInv(t, flags, i),
         NEW f, PackInv(f, flags, Count), Ahead(t, i, f, Count),
         NEW u, UnpackInv(u, f, s, i - 1)
  PROVE  UnpackInv(UnpackTurn(u, i), f, t, i)
<1> DEFINE sz == Size(i)
           b == Content(i)
           l == Sum(f)
           w == Wired(f)
           g == (i - 1) % setting.bits
           v == UnpackTurn(u, i)
<1>1. setting \in Settings /\ value \in [Indices -> Held] /\ hd \in BOOLEAN  BY DEF Typed
<1>2. /\ Count \in Nat /\ Indices = 1 .. Count /\ i \in Nat \ {0} /\ i \in Indices
      /\ setting.bits \in Nat \ {0}
  BY <1>1, SettingIs
<1>3. b \in Seq(Wire) /\ Len(b) = sz /\ sz \in Nat \ {0}  BY <1>1, PackedIs
<1>4. Places(hd)[i - 1] + sz <= SnapshotSize  BY <1>1, PlaceIs DEF Size
<1>5. /\ s \in Packs /\ MaskOK(s) /\ (~s.cut => s.place = Places(hd)[i - 1])
      /\ Len(s.buf) = s.cnt + s.masks + s.zeros /\ s.sent \subseteq 1 .. i - 1
      /\ ~s.cut => \A h \in s.buf[s.at] : h < g
      /\ t \in Packs /\ MaskOK(t) /\ t.sent \subseteq 1 .. i
      /\ f \in Packs /\ Len(f.buf) = f.cnt + f.masks + f.zeros
  BY DEF PackInv
<1>6. /\ \/ s.cut /\ t = s
         \/ ~s.cut /\ Filtered(s, i) /\ Passed(s, t, i, sz)
         \/ ~s.cut /\ ~Filtered(s, i) /\ Ends(s, t, i)
         \/ /\ ~s.cut /\ ~Filtered(s, i)
            /\ \E x \in Packs : MaskOK(x) /\ Added(s, x, i, b) /\ Passed(x, t, i, sz)
  BY <1>1, <1>4, <1>5, PackTurnIs
<1>7. /\ l \in Nat /\ l <= Len(f.buf) /\ w \in Seq(Wire) /\ Len(w) = l
      /\ \A k \in 1 .. l : w[k] = f.buf[k]
  BY <1>5, WiredIs
<1>8. /\ s.buf \in Seq(Wire) /\ Len(s.buf) \in Nat /\ s.cnt \in Nat /\ s.masks \in Nat /\ s.zeros \in Nat
      /\ s.at \in 1 .. Len(s.buf) /\ s.buf[s.at] \in SUBSET Nat /\ f.sent \subseteq Indices
  <2>1. s.buf \in Seq(Wire) /\ s.cnt \in Nat /\ s.masks \in Nat /\ s.zeros \in Nat  BY <1>5 DEF Packs
  <2>2. f.sent \subseteq Indices  BY <1>5 DEF Packs
  <2>3. Len(s.buf) \in Nat  BY <2>1
  <2> QED  BY <1>5, <2>1, <2>2, <2>3 DEF MaskOK
<1>9. g \in Nat
  <2>1. g \in 0 .. setting.bits - 1  BY <1>2, NextRemainder
  <2> QED  BY <1>2, <2>1
<1>10. /\ DOMAIN u = UnpackFields /\ u.mode = hd /\ u.buf = w /\ u.got = ReadTo(f, i - 1)
       /\ u.left \in Int /\ u.ended \in BOOLEAN
       /\ InStep(u, s, l) \/ (Spent(u) /\ \A k \in f.sent : k <= i - 1)
  BY DEF UnpackInv
<1>11. t.sent \subseteq f.sent /\ \A k \in f.sent : k \in t.sent \/ i < k  BY DEF Ahead
<1>12. \A k \in 1 .. i - 1 : k \in Nat /\ k <= i - 1 /\ k <= i /\ k # i  BY <1>2
<1> HIDE DEF sz, b, l, w, v
\* At the end of the bytes.
<1>13. ASSUME Spent(u), \A k \in f.sent : k <= i - 1
       PROVE  UnpackInv(v, f, t, i)
  <2>1. /\ DOMAIN v = UnpackFields /\ v.left \in Int /\ v.ended \in BOOLEAN /\ Spent(v)
        /\ v.got = u.got /\ v.mode = u.mode /\ v.buf = u.buf
    BY <1>2, <1>10, <1>13, SpentTurn DEF v
  <2>2. i \notin f.sent /\ \A k \in f.sent : k <= i
    <3>1. \A k \in Indices : k <= i - 1 => k <= i /\ k # i  BY <1>2
    <3> QED  BY <1>8, <1>13, <3>1
  <2>3. ReadTo(f, i) = ReadTo(f, i - 1)  BY <1>1, <1>8, <2>2, NotRead
  <2> QED  BY <1>10, <2>1, <2>2, <2>3 DEF UnpackInv, w
\* In step.
<1>14. ASSUME InStep(u, s, l)
       PROVE  /\ ~u.ended /\ ~s.cut /\ u.at = s.at /\ u.at \in 1 .. l /\ u.ptr = Len(s.buf) + 1
              /\ u.left = l - Len(s.buf) /\ u.buf[u.at] = f.buf[s.at]
  <2>1. ~u.ended /\ ~s.cut /\ u.at = s.at /\ u.at <= l /\ u.ptr = Len(s.buf) + 1 /\ u.left = l - Len(s.buf)
    BY <1>14 DEF InStep
  <2>2. u.at \in 1 .. l  BY <1>7, <1>8, <2>1
  <2> QED  BY <1>7, <1>10, <2>1, <2>2
\* What StepOn says.
<1>15. ASSUME NEW y, DOMAIN y = UnpackFields, y.ended \in BOOLEAN, y.mode = hd, y.buf = w,
              y.got = ReadTo(f, i), v = Onwards(y, i),
              NEW x \in Packs, MaskOK(x), Passed(x, t, i, sz), InStep(y, x, l)
       PROVE  UnpackInv(v, f, t, i)
  <2>1. l = f.cnt + f.masks  BY DEF l, Sum
  <2>2. /\ DOMAIN v = UnpackFields /\ v.left \in Int /\ v.ended \in BOOLEAN
        /\ v.got = y.got /\ v.mode = y.mode /\ v.buf = y.buf
        /\ InStep(v, t, l) \/ (Spent(v) /\ \A k \in f.sent : k <= i)
    BY <1>1, <1>5, <1>7, <1>15, <2>1, StepOn DEF sz
  <2> QED  BY <1>15, <2>2 DEF UnpackInv, w, l
<1>16. ASSUME InStep(u, s, l), ~s.cut, Filtered(s, i), Passed(s, t, i, sz)
       PROVE  UnpackInv(v, f, t, i)
  <2>1. g \in f.buf[s.at] <=> g \in s.buf[s.at]  BY <1>1, <1>5, <1>16, MarkStays DEF sz
  <2>2. g \notin s.buf[s.at]
    <3> SUFFICES ASSUME g \in s.buf[s.at] PROVE FALSE  OBVIOUS
    <3>1. g < g  BY <1>5, <1>16
    <3> QED  BY <1>9, <3>1
  <2>3. g \notin u.buf[u.at] /\ ~u.ended  BY <1>14, <1>16, <2>1, <2>2
  <2>4. v = Onwards(u, i)  BY <2>3, NoMark DEF v
  <2>5. t.sent = s.sent  BY <1>16 DEF Passed
  <2>6. i \notin f.sent  BY <1>2, <1>5, <1>11, <1>12, <2>5
  <2>7. ReadTo(f, i) = ReadTo(f, i - 1)  BY <1>1, <1>8, <2>6, NotRead
  <2> QED  BY <1>5, <1>10, <1>15, <1>16, <2>4, <2>7
<1>17. ASSUME InStep(u, s, l), Ends(s, t, i)
       PROVE  UnpackInv(v, f, t, i)
  <2>1. /\ t.cut = TRUE /\ t.buf = s.buf /\ t.cnt = s.cnt /\ t.masks = s.masks /\ t.sent = s.sent
    BY <1>17 DEF Ends
  <2>2. f = t  BY <2>1 DEF Ahead
  <2>3. l = s.cnt + s.masks  BY <2>1, <2>2 DEF l, Sum
  <2>4. u.left <= 0  BY <1>5, <1>8, <1>14, <1>17, <2>3
  <2>5. \A k \in f.sent : k <= i - 1  BY <1>5, <1>12, <2>1, <2>2
  <2> QED  BY <1>13, <2>4, <2>5 DEF Spent
<1>18. ASSUME InStep(u, s, l), ~s.cut, NEW x \in Packs, MaskOK(x), Added(s, x, i, b), Passed(x, t, i, sz)
       PROVE  UnpackInv(v, f, t, i)
  <2> DEFINE n == Len(s.buf)
             m == Len(x.buf)
             r == Fetching(u, i, b)
  <2>1. /\ x.at = s.at /\ x.cnt = s.cnt + sz /\ x.masks = s.masks + s.zeros /\ x.zeros = 0
        /\ x.sent = s.sent \cup {i} /\ m = n + sz /\ x.buf[s.at] = s.buf[s.at] \cup {g}
        /\ x.cut = s.cut
        /\ \A k \in 1 .. sz : x.buf[n + k] = b[k]
    BY <1>3, <1>18 DEF Added
  <2>2. g \in f.buf[s.at]
    <3>1. g \in f.buf[x.at] <=> g \in x.buf[x.at]  BY <1>1, <1>18, MarkStays DEF sz
    <3> QED  BY <2>1, <3>1
  <2>3. /\ n \in Nat /\ m \in Nat /\ m <= Len(t.buf) /\ t.cnt = x.cnt /\ t.masks = x.masks
        /\ t.sent = x.sent /\ \A k \in 1 .. m : t.buf[k] = x.buf[k]
        /\ t.at \notin n + 1 .. m
    <3>1. x.buf \in Seq(Wire) /\ m \in Nat /\ n \in Nat  BY <1>8, <1>18 DEF Packs
    <3>2. t.cnt = x.cnt /\ t.masks = x.masks /\ t.sent = x.sent  BY <1>18 DEF Passed
    <3>3. CASE i % setting.bits # 0
      <4>1. t.buf = x.buf /\ t.at = x.at  BY <1>18, <3>3 DEF Passed
      <4> QED  BY <1>8, <2>1, <3>1, <3>2, <4>1
    <3>4. CASE i % setting.bits = 0
      <4>1. t.buf = Append(x.buf, {}) /\ t.at = m + 1  BY <1>18, <3>4 DEF Passed
      <4>2. Len(t.buf) = m + 1 /\ \A k \in 1 .. m : t.buf[k] = x.buf[k]  BY <3>1, <4>1
      <4> QED  BY <3>1, <3>2, <4>1, <4>2
    <3> QED  BY <3>3, <3>4
  <2> HIDE DEF n, m
  <2>4. m <= l
    <3>1. m = x.cnt + x.masks  BY <1>3, <1>5, <1>8, <2>1, <2>3 DEF n
    <3>2. (f.sent = t.sent /\ f.cnt + f.masks = t.cnt + t.masks) \/ Len(t.buf) < f.cnt + f.masks
      BY DEF Ahead
    <3>3. l = f.cnt + f.masks  BY DEF l, Sum
    <3>4. CASE f.cnt + f.masks = t.cnt + t.masks
      <4>1. l = m  BY <2>3, <3>1, <3>3, <3>4
      <4> QED  BY <2>3, <4>1
    <3>5. CASE Len(t.buf) < f.cnt + f.masks
      <4>1. Len(t.buf) < l  BY <3>3, <3>5
      <4>2. t.buf \in Seq(Wire)  BY <1>5 DEF Packs
      <4>3. Len(t.buf) \in Nat  BY <4>2
      <4> QED  BY <1>7, <2>3, <4>1, <4>3
    <3> QED  BY <3>2, <3>4, <3>5
  <2>5. ~u.ended /\ g \in u.buf[u.at] /\ ~(u.left <= 0) /\ u.ptr = n + 1 /\ u.left = l - n
    <3>1. ~u.ended /\ g \in u.buf[u.at] /\ u.ptr = n + 1 /\ u.left = l - n  BY <1>14, <1>18, <2>2 DEF n
    <3>2. ~(u.left <= 0)  BY <1>3, <1>7, <2>1, <2>3, <2>4, <3>1
    <3> QED  BY <3>1, <3>2
  <2>6. Fetched(u, i) = b
    <3>1. PackedSize(i, u.mode) = sz  BY <1>10 DEF sz, Size
    <3>2. u.ptr + sz - 1 = m  BY <1>3, <2>1, <2>3, <2>5
    <3>3. Fetched(u, i) = SubSeq(w, n + 1, m)  BY <1>10, <2>5, <3>1, <3>2 DEF Fetched
    <3>4. n \in 0 .. Len(w) /\ m \in n .. Len(w) /\ Len(b) = m - n  BY <1>3, <1>7, <2>1, <2>3, <2>4
    <3>5. \A k \in 1 .. m - n : w[n + k] = b[k]
      <4> SUFFICES ASSUME NEW k \in 1 .. m - n PROVE w[n + k] = b[k]  OBVIOUS
      <4>1. k \in 1 .. sz /\ n + k \in 1 .. m /\ n + k \in 1 .. l /\ n + k \in n + 1 .. m
        BY <1>3, <1>7, <2>1, <2>3, <2>4
      <4>2. t.buf \in Seq(Wire)  BY <1>5 DEF Packs
      <4>3. n + k \in 1 .. Len(t.buf)  BY <2>3, <4>1, <4>2
      <4>4. f.buf[n + k] = t.buf[n + k]  BY <2>3, <4>1, <4>3 DEF Ahead
      <4> QED  BY <1>7, <2>1, <2>3, <4>1, <4>4
    <3>6. SubSeq(w, n + 1, m) = b  BY <1>3, <1>7, <3>4, <3>5, PartEquals
    <3> QED  BY <3>3, <3>6
  <2>7. v = Onwards(r, i)  BY <1>10, <2>5, <2>6, Marked DEF v
  <2>8. /\ DOMAIN r = UnpackFields /\ r.got = [u.got EXCEPT ![i] = b] /\ r.ptr = u.ptr + sz
        /\ r.left = u.left - sz /\ r.at = u.at /\ r.mode = u.mode /\ r.buf = u.buf /\ r.ended = u.ended
    <3>1. PackedSize(i, u.mode) = sz  BY <1>10 DEF sz, Size
    <3> QED  BY <1>10, <3>1 DEF Fetching, UnpackFields
  <2> HIDE DEF r
  <2>9. i \in f.sent  BY <1>11, <2>1, <2>3
  <2>10. r.got = ReadTo(f, i)  BY <1>1, <1>8, <1>10, <2>8, <2>9, IsRead DEF b
  <2>11. InStep(r, x, l)
    <3>1. r.ptr = m + 1 /\ r.left = l - m  BY <1>3, <1>7, <2>1, <2>3, <2>5, <2>8
    <3>2. ~r.ended /\ ~x.cut /\ r.at = x.at /\ r.at <= l  BY <1>14, <1>18, <2>1, <2>8
    <3> QED  BY <3>1, <3>2 DEF InStep, m
  <2>12. r.ended \in BOOLEAN /\ r.mode = hd /\ r.buf = w  BY <1>10, <2>8
  <2> QED  BY <1>15, <1>18, <2>7, <2>8, <2>10, <2>11, <2>12
<1>19. CASE InStep(u, s, l)
  <2>1. ~s.cut  BY <1>14, <1>19
  <2> QED  BY <1>6, <1>16, <1>17, <1>18, <1>19, <2>1 DEF v
<1> QED  BY <1>10, <1>13, <1>19 DEF v

\* The receiver reads what was sent, and nothing else.
LEMMA StreamRead ==
  ASSUME Typed, heard \in [Indices -> Seq(Wire)], NEW flags \in SUBSET Indices
  PROVE  Unpacked(heard, hd, Wired(Packing(flags)[Count])) = ReadTo(Packing(flags)[Count], Count)
<1> DEFINE s == Packing(flags)
           f == s[Count]
           w == Wired(f)
           u == Unpacking(heard, hd, w)
           l == Sum(f)
<1>1. setting \in Settings /\ Count \in Nat /\ Indices = 1 .. Count /\ hd \in BOOLEAN
  BY SettingIs DEF Typed
<1>2. s[0] = PackStart(flags) /\ \A i \in 1 .. Count : s[i] = PackTurn(s[i - 1], i)
  BY <1>1, PackingIs
<1>3. \A n \in 0 .. Count : PackInv(s[n], flags, n) /\ Ahead(s[n], n, f, Count)
  BY <1>1, PackHolds, AheadHolds
<1> HIDE DEF s
<1>4. Count \in 0 .. Count /\ 0 \in 0 .. Count  BY <1>1
<1>5. PackInv(f, flags, Count) /\ Ahead(s[0], 0, f, Count)  BY <1>3, <1>4
<1> HIDE DEF f
<1>6. f \in Packs /\ Len(f.buf) = f.cnt + f.masks + f.zeros /\ f.sent \subseteq 1 .. Count
  BY <1>5 DEF PackInv
<1>7. l \in Nat /\ w \in Seq(Wire) /\ Len(w) = l  BY <1>6, WiredIs
<1>8. s[0].buf = <<{}>> /\ s[0].at = 1 /\ s[0].sent = {} /\ s[0].cut = FALSE  BY <1>2 DEF PackStart
<1>9. Len(<<{}>>) = 1  OBVIOUS
<1>10. ReadTo(f, 0) = heard
  <2>1. \A k \in Indices : ~(k \in f.sent /\ k <= 0)  BY <1>1
  <2> QED  BY <1>1, <2>1 DEF ReadTo
<1>11. \A i \in 1 .. Count : u[i] = UnpackTurn(u[i - 1], i)  BY <1>1, UnpackingIs
<1>12. u[0] = UnpackStart(heard, hd, w)  BY <1>1, UnpackingIs
<1>13. Unpacked(heard, hd, w) = IF w = <<>> THEN heard ELSE u[Count].got  BY DEF Unpacked, Count
<1> HIDE DEF u
<1>14. CASE w = <<>>
  <2>1. l = 0  BY <1>7, <1>14
  <2>2. f.sent = s[0].sent \/ Len(s[0].buf) < f.cnt + f.masks  BY <1>5 DEF Ahead
  <2>3. f.sent = {}  BY <1>8, <1>9, <2>1, <2>2 DEF l, Sum
  <2>4. ReadTo(f, Count) = heard
    <3>1. \A k \in Indices : ~(k \in f.sent /\ k <= Count)  BY <2>3
    <3> QED  BY <3>1 DEF ReadTo
  <2> QED  BY <1>13, <1>14, <2>4 DEF w, f, s
<1>15. CASE w # <<>>
  <2>1. 1 <= l  BY <1>7, <1>15
  <2>2. UnpackInv(u[0], f, s[0], 0)
    <3> DEFINE x == u[0]
    <3>1. /\ DOMAIN x = UnpackFields /\ x.mode = hd /\ x.buf = w /\ x.got = heard /\ x.left = l - 1
          /\ x.ended = FALSE /\ x.at = 1 /\ x.ptr = 2
      BY <1>7, <1>12 DEF UnpackStart, UnpackFields
    <3> HIDE DEF x
    <3>2. InStep(x, s[0], l)  BY <1>8, <1>9, <2>1, <3>1 DEF InStep
    <3>3. x.left \in Int  BY <1>7, <3>1
    <3> QED  BY <1>10, <3>1, <3>2, <3>3 DEF UnpackInv, x, w, l
  <2> DEFINE Good(n) == UnpackInv(u[n], f, s[n], n)
             Bad == {n \in Nat : n <= Count /\ ~Good(n)}
  <2>3. CASE Bad # {}
    <3>1. PICK n \in Bad : \A j \in Bad : n <= j  BY <2>3, LeastNat
    <3>2. n # 0  BY <2>2, <3>1
    <3>3. /\ n - 1 \in Nat /\ n - 1 <= Count /\ n - 1 \notin Bad /\ n \in 1 .. Count
          /\ n - 1 \in 0 .. Count /\ n \in 0 .. Count
      BY <1>1, <3>1, <3>2
    <3>4. UnpackInv(u[n - 1], f, s[n - 1], n - 1)  BY <3>3
    <3>5. s[n] = PackTurn(s[n - 1], n) /\ u[n] = UnpackTurn(u[n - 1], n)  BY <1>2, <1>11, <3>3
    <3>6. PackInv(s[n - 1], flags, n - 1) /\ PackInv(s[n], flags, n) /\ Ahead(s[n], n, f, Count)
      BY <1>3, <3>3
    <3>7. UnpackInv(UnpackTurn(u[n - 1], n), f, s[n], n)
      BY <1>5, <3>3, <3>4, <3>5, <3>6, ReadTurn
    <3> QED  BY <3>1, <3>5, <3>7
  <2>4. CASE Bad = {}
    <3>1. Good(Count)  BY <1>1, <2>4
    <3>2. u[Count].got = ReadTo(f, Count)  BY <3>1 DEF UnpackInv
    <3> QED  BY <1>13, <1>15, <3>2 DEF w, f, s
  <2> QED  BY <2>3, <2>4
<1> QED  BY <1>14, <1>15

-----------------------------------------------------------------------------
(* Vehicle and receiver                                                    *)

\* The sizes and places as functions of the setting alone.
SizeIn(s, i, mode) == IF mode THEN s.vars[i].full ELSE s.vars[i].ext
PlacesIn(s, mode) ==
    LET at[n \in 0 .. Len(s.vars)] == IF n = 0 THEN 0 ELSE at[n - 1] + SizeIn(s, n, mode)
    IN  at

\* The setting never changes, and what depends on it alone does not either.
LEMMA SettingStays ==
  ASSUME setting' = setting
  PROVE  /\ Indices' = Indices /\ SnapshotSize' = SnapshotSize
         /\ \A i, mode : PackedSize(i, mode)' = PackedSize(i, mode)
         /\ \A mode : Places(mode)' = Places(mode)
<1>1. Indices' = Indices  BY DEF Indices
<1>2. \A i, mode : PackedSize(i, mode)' = PackedSize(i, mode)  BY DEF PackedSize
<1>3. \A mode : Places(mode) = PlacesIn(setting, mode)  BY DEF Places, PlacesIn, PackedSize, SizeIn
<1>4. \A mode : Places(mode)' = PlacesIn(setting', mode)  BY DEF Places, PlacesIn, PackedSize, SizeIn
<1>5. \A mode : Places(mode)' = Places(mode)  BY <1>3, <1>4
<1>6. SnapshotSize' = SnapshotSize  BY <1>5 DEF SnapshotSize
<1> QED  BY <1>1, <1>2, <1>5, <1>6

\* The bytes of variable i that the vehicle sent last.
Sent(i) == Segment(dl_snapshot, Places(dl_hd_save)[i - 1], PackedSize(i, dl_hd_save))

\* What the receiver has of a variable whose last copy has arrived is in the snapshot, where
\* the mode of the last packet has put it, unless the variable is flagged.
LinkInv ==
    /\ Typed /\ dl_hd_save \in BOOLEAN /\ dl_reset_mask \subseteq Indices
    /\ heard \in [Indices -> Seq(Wire)] /\ fresh \subseteq Indices
    /\ \A i \in fresh \ dl_reset_mask : Sent(i) = heard[i]
    /\ DownlinkInSync

\* It holds at the start.
LEMMA LinkStarts == DownlinkInit => LinkInv
<1> SUFFICES ASSUME DownlinkInit PROVE LinkInv  OBVIOUS
<1>1. setting \in Settings /\ hd \in BOOLEAN /\ dl_hd_save \in BOOLEAN /\ fresh = {}  BY DEF DownlinkInit
<1>2. value \in [Indices -> Held]
  <2>1. 0 \in Held  BY DEF Held
  <2> QED  BY <2>1 DEF DownlinkInit
<1>3. dl_snapshot \in [1 .. SnapshotSize -> Wire]
  <2>1. PICK v \in Values : dl_snapshot = [k \in 1 .. SnapshotSize |-> v]  BY DEF DownlinkInit
  <2>2. v \in Wire  BY DEF Wire, Held
  <2> QED  BY <2>1, <2>2
<1>4. dl_reset_mask \subseteq Indices  BY DEF DownlinkInit
<1>5. heard \in [Indices -> Seq(Wire)]
  <2>1. <<>> \in Seq(Wire)  OBVIOUS
  <2> QED  BY <2>1 DEF DownlinkInit
<1> QED  BY <1>1, <1>2, <1>3, <1>4, <1>5 DEF LinkInv, Typed, DownlinkInSync

\* One call of pack_downstream keeps it.
LEMMA LinkSends ==
  ASSUME LinkInv, NEW arrives \in BOOLEAN, Downstream(arrives)
  PROVE  LinkInv'
<1> DEFINE flags == Flags(hd)
           f == Packing(flags)[Count]
<1>1. /\ Typed /\ dl_hd_save \in BOOLEAN /\ dl_reset_mask \subseteq Indices
      /\ heard \in [Indices -> Seq(Wire)] /\ fresh \subseteq Indices
      /\ \A i \in fresh \ dl_reset_mask : Sent(i) = heard[i]
      /\ setting \in Settings /\ value \in [Indices -> Held] /\ hd \in BOOLEAN
  BY DEF LinkInv, Typed
<1>2. flags \in SUBSET Indices /\ (flags = Indices \/ (flags = dl_reset_mask /\ dl_hd_save = hd))
  BY <1>1 DEF Flags
<1>3. Count \in Nat /\ Indices = 1 .. Count /\ Count \in 0 .. Count  BY <1>1, SettingIs
<1>4. /\ dl_hd_save' = hd /\ dl_reset_mask' = f.flags /\ dl_snapshot' = f.snapshot
      /\ heard' = IF arrives THEN Unpacked(heard, hd, Wired(f)) ELSE heard
      /\ fresh' = IF arrives THEN fresh \cup f.sent ELSE fresh \ f.sent
      /\ whole' = ~f.cut
      /\ setting' = setting /\ value' = value /\ hd' = hd
  BY DEF Downstream, Wired, Sum, Count
<1> HIDE DEF flags
<1>5. PackInv(f, flags, Count)  BY <1>1, <1>2, <1>3, PackHolds
<1>6. Unpacked(heard, hd, Wired(f)) = ReadTo(f, Count)  BY <1>1, <1>2, StreamRead
<1> HIDE DEF f
<1>7. /\ Indices' = Indices /\ SnapshotSize' = SnapshotSize
      /\ \A i, mode : PackedSize(i, mode)' = PackedSize(i, mode)
      /\ \A mode : Places(mode)' = Places(mode)
  BY <1>4, SettingStays
<1>8. /\ f \in Packs /\ f.sent \subseteq 1 .. Count /\ flags \ f.sent \subseteq f.flags
      /\ \A i \in f.sent : Stored(f.snapshot, i) = Content(i)
      /\ \A i \in Indices \ f.sent : Stored(f.snapshot, i) = Stored(dl_snapshot, i)
      /\ ~f.cut => \A i \in (1 .. Count) \ f.sent : i \notin flags /\ Stored(dl_snapshot, i) = Content(i)
  BY <1>5 DEF PackInv
<1>9. f.flags \in SUBSET Indices /\ f.snapshot \in [1 .. SnapshotSize -> Wire]  BY <1>8 DEF Packs
<1>10. Typed'  BY <1>1, <1>4, <1>7, <1>9 DEF Typed
<1>11. dl_hd_save' \in BOOLEAN /\ dl_reset_mask' \subseteq Indices'  BY <1>1, <1>4, <1>7, <1>9
<1>12. fresh' \subseteq Indices'  BY <1>1, <1>3, <1>4, <1>7, <1>8
<1>13. /\ heard' \in [Indices -> Seq(Wire)]
       /\ \A i \in Indices : heard'[i] = IF arrives /\ i \in f.sent THEN Content(i) ELSE heard[i]
  <2>1. CASE ~arrives  BY <1>1, <1>4, <2>1
  <2>2. CASE arrives
    <3>1. heard' = ReadTo(f, Count)  BY <1>4, <1>6, <2>2
    <3>2. \A i \in Indices : Content(i) \in Seq(Wire)  BY <1>1, <1>3, PackedIs
    <3>3. \A i \in Indices : i <= Count  BY <1>3
    <3>4. heard' = [i \in Indices |-> IF i \in f.sent THEN Content(i) ELSE heard[i]]
      BY <3>1, <3>3 DEF ReadTo
    <3> QED  BY <1>1, <2>2, <3>2, <3>4
  <2> QED  BY <2>1, <2>2
<1>14. \A i : Sent(i)' = Stored(f.snapshot, i)
  <2> SUFFICES ASSUME NEW i PROVE Sent(i)' = Stored(f.snapshot, i)  OBVIOUS
  <2>1. Sent(i)' = Segment(dl_snapshot', Places(hd)'[i - 1], PackedSize(i, hd)')  BY <1>4 DEF Sent, Segment
  <2>2. Places(hd)' = Places(hd) /\ PackedSize(i, hd)' = PackedSize(i, hd)  BY <1>4, <1>7
  <2> QED  BY <1>4, <2>1, <2>2 DEF Stored, Size
\* What was not sent and was not to be: the vehicle holds it for what the receiver has.
<1>15. ASSUME NEW i \in Indices, i \in fresh', i \notin f.sent, i \notin flags
       PROVE  /\ heard'[i] = heard[i] /\ Stored(dl_snapshot, i) = heard[i]
  <2>1. flags = dl_reset_mask /\ dl_hd_save = hd  BY <1>2, <1>15
  <2>2. i \in fresh \ dl_reset_mask  BY <1>4, <1>15, <2>1
  <2>3. Sent(i) = heard[i]  BY <1>1, <2>2
  <2>4. Sent(i) = Stored(dl_snapshot, i)  BY <2>1 DEF Sent, Stored, Size
  <2> QED  BY <1>13, <1>15, <2>3, <2>4
<1>16. \A i \in fresh' \ dl_reset_mask' : Sent(i)' = heard'[i]
  <2> SUFFICES ASSUME NEW i \in fresh' \ dl_reset_mask' PROVE Stored(f.snapshot, i) = heard'[i]
    BY <1>14
  <2>1. i \in Indices  BY <1>7, <1>12
  <2>2. CASE i \in f.sent
    <3>1. arrives  BY <1>4, <2>2
    <3> QED  BY <1>8, <1>13, <2>1, <2>2, <3>1
  <2>3. CASE i \notin f.sent
    <3>1. i \notin flags  BY <1>4, <1>8, <2>3
    <3> QED  BY <1>8, <1>15, <2>1, <2>3, <3>1
  <2> QED  BY <2>2, <2>3
<1>17. DownlinkInSync'
  <2> SUFFICES ASSUME whole', NEW i \in fresh' PROVE Shown(i)'  BY DEF DownlinkInSync
  <2>1. i \in Indices /\ ~f.cut  BY <1>4, <1>7, <1>12
  <2>2. Content(i)' = Content(i)  BY <1>4, <1>7 DEF Content, Packed, PackedSize
  <2>3. heard'[i] = Content(i)
    <3>1. CASE i \in f.sent
      <4>1. arrives  BY <1>4, <3>1
      <4> QED  BY <1>13, <2>1, <3>1, <4>1
    <3>2. CASE i \notin f.sent
      <4>1. i \notin flags /\ Stored(dl_snapshot, i) = Content(i)  BY <1>3, <1>8, <2>1, <3>2
      <4> QED  BY <1>15, <2>1, <3>2, <4>1
    <3> QED  BY <3>1, <3>2
  <2> QED  BY <2>2, <2>3 DEF Shown, Content
<1> QED  BY <1>7, <1>10, <1>11, <1>12, <1>13, <1>16, <1>17 DEF LinkInv

\* The vehicle may change what it likes.
LEMMA LinkChanges == LinkInv /\ Changed => LinkInv'
<1> SUFFICES ASSUME LinkInv, Changed PROVE LinkInv'  OBVIOUS
<1>1. /\ Typed /\ dl_hd_save \in BOOLEAN /\ dl_reset_mask \subseteq Indices
      /\ heard \in [Indices -> Seq(Wire)] /\ fresh \subseteq Indices
      /\ \A i \in fresh \ dl_reset_mask : Sent(i) = heard[i]
  BY DEF LinkInv
<1>2. /\ setting' = setting /\ dl_hd_save' = dl_hd_save /\ dl_reset_mask' = dl_reset_mask
      /\ dl_snapshot' = dl_snapshot /\ heard' = heard /\ fresh' = fresh /\ whole' = FALSE
  BY DEF Changed
<1>3. /\ Indices' = Indices /\ SnapshotSize' = SnapshotSize
      /\ \A i, mode : PackedSize(i, mode)' = PackedSize(i, mode)
      /\ \A mode : Places(mode)' = Places(mode)
  BY <1>2, SettingStays
<1>4. hd' \in BOOLEAN /\ value' \in [Indices -> Held]
  <2>1. hd \in BOOLEAN /\ value \in [Indices -> Held]  BY <1>1 DEF Typed
  <2>2. CASE hd' = ~hd /\ UNCHANGED value  BY <2>1, <2>2
  <2>3. ASSUME NEW i \in Indices, NEW v \in Values, value' = [value EXCEPT ![i] = v], UNCHANGED hd
        PROVE  hd' \in BOOLEAN /\ value' \in [Indices -> Held]
    <3>1. v \in Held  BY DEF Held
    <3> QED  BY <2>1, <2>3, <3>1
  <2> QED  BY <2>2, <2>3 DEF Changed
<1>5. Typed'  BY <1>1, <1>2, <1>3, <1>4 DEF Typed
<1>6. \A i : Sent(i)' = Sent(i)
  <2> SUFFICES ASSUME NEW i PROVE Sent(i)' = Sent(i)  OBVIOUS
  <2> DEFINE m == dl_hd_save
  <2>1. Sent(i)' = Segment(dl_snapshot', Places(m)'[i - 1], PackedSize(i, m)')  BY <1>2 DEF Sent, Segment
  <2>2. Places(m)' = Places(m) /\ PackedSize(i, m)' = PackedSize(i, m)  BY <1>2, <1>3
  <2> QED  BY <1>2, <2>1, <2>2 DEF Sent
<1>7. DownlinkInSync'  BY <1>2 DEF DownlinkInSync
<1> QED  BY <1>1, <1>2, <1>3, <1>5, <1>6, <1>7 DEF LinkInv

\* A step that changes nothing.
LEMMA LinkStutters == LinkInv /\ UNCHANGED downvars => LinkInv'
<1> SUFFICES ASSUME LinkInv, UNCHANGED downvars PROVE LinkInv'  OBVIOUS
<1>1. /\ setting' = setting /\ value' = value /\ hd' = hd /\ dl_hd_save' = dl_hd_save
      /\ dl_reset_mask' = dl_reset_mask /\ dl_snapshot' = dl_snapshot /\ heard' = heard
      /\ fresh' = fresh /\ whole' = whole
  BY DEF downvars
<1>2. /\ Indices' = Indices /\ SnapshotSize' = SnapshotSize
      /\ \A i, mode : PackedSize(i, mode)' = PackedSize(i, mode)
      /\ \A mode : Places(mode)' = Places(mode)
  BY <1>1, SettingStays
<1>3. Typed'  BY <1>1, <1>2 DEF LinkInv, Typed
<1>4. \A i : Sent(i)' = Sent(i)
  <2> SUFFICES ASSUME NEW i PROVE Sent(i)' = Sent(i)  OBVIOUS
  <2> DEFINE m == dl_hd_save
  <2>1. Sent(i)' = Segment(dl_snapshot', Places(m)'[i - 1], PackedSize(i, m)')  BY <1>1 DEF Sent, Segment
  <2>2. Places(m)' = Places(m) /\ PackedSize(i, m)' = PackedSize(i, m)  BY <1>1, <1>2
  <2> QED  BY <1>1, <2>1, <2>2 DEF Sent
<1>5. DownlinkInSync'  BY <1>1 DEF LinkInv, DownlinkInSync, Shown, Packed, PackedSize
<1> QED  BY <1>1, <1>2, <1>3, <1>4, <1>5 DEF LinkInv

\* After a packet with room for everything the receiver shows the variables of the vehicle,
\* but for those whose last copy was lost: for every table of variables, every group of a
\* mask, every size of a packet and every snapshot at the start, in either mode.
\* pack_downstream and unpack_stream agree on the masks and the places of the variables.
THEOREM DownlinkSynced == DownlinkSpec => []DownlinkInSync
<1>1. DownlinkInit => LinkInv  BY LinkStarts
<1>2. LinkInv /\ [DownlinkNext]_downvars => LinkInv'
  BY LinkChanges, LinkSends, LinkStutters DEF DownlinkNext
<1>3. LinkInv => DownlinkInSync  BY DEF LinkInv
<1> QED  BY <1>1, <1>2, <1>3, PTL DEF DownlinkSpec

=============================================================================
