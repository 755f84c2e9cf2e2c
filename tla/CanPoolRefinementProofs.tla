----------------------- MODULE CanPoolRefinementProofs -----------------------
(***************************************************************************)
(* CanPool implements PacketPool, for all sizes of its arrays.              *)
(*                                                                          *)
(* What a step does to the packets is said by PushCases and ReadCall of      *)
(* CanPoolProofs.  Two promises of PacketPool are about numbers that the pool *)
(* does not keep: a frame is refused for want of memory if and only if the   *)
(* packets hold as many blocks as there are items (BlocksHeld), and a first  *)
(* frame if and only if the packets are as many as the trees (PlacesTaken).  *)
(* A third is about a number that it keeps: the frame number that a tree      *)
(* expects is the number of its blocks, counted in turn (Numbered).          *)
(*                                                                          *)
(* Then come packets in progress and their countdowns, with the history of   *)
(* CanPoolHistory: HInv relates each countdown to the timeout()s since the    *)
(* last frame.                                                              *)
(*                                                                          *)
(* The last part is about the loops of CanPoolLoops.  Each proof guesses what *)
(* the loop has after every turn, in terms of the path through the list       *)
(* (Moved for remove(Tree &)), shows that a turn leads from one value to the  *)
(* next (SameTurns, ...Is), and that the last value is what the operator of   *)
(* CanPool says.  ReleaseOneMore joins the trees of one call.               *)
(***************************************************************************)
EXTENDS CanPoolRefinement, CanPoolHistory, CanPoolLoops, CanPoolProofs, FiniteSetTheorems

-----------------------------------------------------------------------------
(* The invariant                                                           *)

\* The number of frames in a turn.
Turns == FrmSeqMax + 1

\* The tree expects the frame that its blocks call for; a packet without bytes has
\* one frame.
Numbered(p, t) ==
    /\ p.trees[t].key \in Keys
    /\ p.trees[t].dlc = 0 => p.trees[t].frm = (Len(Body(p, t)) - 1) % Turns
    /\ p.trees[t].dlc = ZeroLength => Len(Body(p, t)) = 1

AllNumbered(p) == \A t \in Used(p) : Numbered(p, t)

RInv == IInv /\ AllNumbered(Pool)

\* The frame number after n frames of the middle, and the ones next to it.
LEMMA NumbersInTurn ==
  ASSUME NEW n \in Nat, NEW f, f = n % Turns
  PROVE  f \in SeqFrames /\ (n + 1) % Turns = SeqAfter(f) /\ (n - 1) % Turns = SeqBefore(f)
<1>1. FrmSeqMax \in Nat \ {0} /\ Turns \in Nat \ {0}  BY SizesAssumption DEF Turns
<1>2. PICK q \in Nat : n = Turns * q + f /\ f \in 0 .. Turns - 1
  BY <1>1, Division
<1>3. f \in 0 .. FrmSeqMax  BY <1>1, <1>2 DEF Turns
<1>4. (n + 1) % Turns = SeqAfter(f)
  <2>1. CASE f = FrmSeqMax
    <3>1. n + 1 = Turns * (q + 1) + 0
      <4>1. Turns * (q + 1) = Turns * q + Turns  BY <1>1
      <4>2. Turns * q \in Nat  BY <1>1
      <4> QED  BY <1>1, <1>2, <2>1, <4>1, <4>2 DEF Turns
    <3>2. 0 \in 0 .. Turns - 1 /\ q + 1 \in Int /\ n + 1 \in Int  BY <1>1, <1>2
    <3>3. (n + 1) % Turns = 0  BY <1>1, <3>1, <3>2, RemainderIs
    <3> QED  BY <2>1, <3>3, Zenon DEF SeqAfter
  <2>2. CASE f # FrmSeqMax
    <3>1. f + 1 \in 0 .. Turns - 1  BY <1>1, <1>3, <2>2 DEF Turns
    <3>2. n + 1 = Turns * q + (f + 1)
      <4>1. Turns * q \in Nat  BY <1>1
      <4> QED  BY <1>2, <1>3, <4>1
    <3>3. (n + 1) % Turns = f + 1
      <4>1. q \in Int /\ n + 1 \in Int  BY <1>2
      <4> QED  BY <1>1, <3>1, <3>2, <4>1, RemainderIs
    <3> QED  BY <2>2, <3>3, Zenon DEF SeqAfter
  <2> QED  BY <2>1, <2>2
<1>5. (n - 1) % Turns = SeqBefore(f)
  <2>1. CASE f = 0
    <3>1. n - 1 = Turns * (q - 1) + FrmSeqMax
      <4>1. Turns * (q - 1) = Turns * q - Turns  BY <1>1
      <4>2. Turns * q \in Nat  BY <1>1
      <4> QED  BY <1>1, <1>2, <2>1, <4>1, <4>2 DEF Turns
    <3>2. FrmSeqMax \in 0 .. Turns - 1 /\ q - 1 \in Int /\ n - 1 \in Int  BY <1>1 DEF Turns
    <3>3. (n - 1) % Turns = FrmSeqMax  BY <1>1, <3>1, <3>2, RemainderIs
    <3> QED  BY <2>1, <3>3, Zenon DEF SeqBefore
  <2>2. CASE f # 0
    <3>1. f - 1 \in 0 .. Turns - 1 /\ n - 1 \in Int  BY <1>1, <1>3, <2>2 DEF Turns
    <3>2. n - 1 = Turns * q + (f - 1)
      <4>1. Turns * q \in Nat  BY <1>1
      <4> QED  BY <1>2, <1>3, <4>1
    <3>3. (n - 1) % Turns = f - 1
      <4>1. q \in Int /\ n - 1 \in Int  BY <1>2
      <4> QED  BY <1>1, <3>1, <3>2, <4>1, RemainderIs
    <3> QED  BY <2>2, <3>3, Zenon DEF SeqBefore
  <2> QED  BY <2>1, <2>2
<1> QED  BY <1>3, <1>4, <1>5 DEF SeqFrames

\* The packets of before are numbered.
LEMMA SameNumbered ==
  ASSUME NEW p, NEW q, NEW t, Same(p, q, t), Numbered(p, t)
  PROVE  Numbered(q, t)
BY DEF Same, Numbered

\* A pool that takes no frame has no other ones.
LEMMA FewerNumbered ==
  ASSUME NEW p, NEW q, AllNumbered(p), \A t \in Used(q) : Same(p, q, t)
  PROVE  AllNumbered(q)
<1>1. \A t \in Used(q) : t \in Used(p)  BY DEF Same
<1> QED  BY <1>1, SameNumbered DEF AllNumbered

\* A packet that begins is numbered.
LEMMA BegunNumbered ==
  ASSUME NEW p, NEW q, NEW t, NEW k \in Keys, NEW d, NEW last, Begun(p, q, t, k, d, last),
         AllNumbered(p)
  PROVE  AllNumbered(q)
<1>1. Len(Body(q, t)) = 1  BY DEF Begun
<1>2. 0 % Turns = 0
  <2>1. Turns \in Nat \ {0}  BY SizesAssumption DEF Turns
  <2>2. 0 = Turns * 0 + 0 /\ 0 \in 0 .. Turns - 1  BY <2>1
  <2> QED  BY <2>1, <2>2, RemainderIs
<1>3. Numbered(q, t)  BY <1>1, <1>2 DEF Begun, Numbered
<1>4. \A u \in Used(q) : u = t \/ (u \in Used(p) /\ Same(p, q, u))  BY DEF Begun
<1> QED  BY <1>3, <1>4, SameNumbered DEF AllNumbered

\* So is one that is continued.
LEMMA ExtendedNumbered ==
  ASSUME NEW p, WellFormed(p), NEW q, NEW t, NEW k \in Keys, NEW d \in Blocks, NEW last \in 0 .. 8,
         Extended(p, q, t, k, d, last), AllNumbered(p)
  PROVE  AllNumbered(q)
<1>1. t \in Used(p) /\ p.trees[t].dlc = 0  BY DEF Extended, Working, Partial
<1>2. Body(p, t) \in Seq(Blocks) /\ Len(Body(p, t)) \in Nat \ {0}  BY <1>1, BodyType
<1>3. Body(q, t) = Append(Body(p, t), d)  BY DEF Extended
<1>4. Len(Body(q, t)) = Len(Body(p, t)) + 1  BY <1>2, <1>3, AppendProperties
<1>5. PICK n \in Nat : n = Len(Body(p, t)) - 1  BY <1>2
<1>6. p.trees[t].frm = n % Turns  BY <1>1, <1>5 DEF AllNumbered, Numbered
<1>7. Len(Body(q, t)) - 1 = n + 1  BY <1>2, <1>4, <1>5
<1>8. Numbered(q, t)
  <2>1. last = 0 => q.trees[t].frm = (Len(Body(q, t)) - 1) % Turns
    BY <1>6, <1>7, NumbersInTurn DEF Extended
  <2> QED  BY <2>1 DEF Extended, Numbered, ZeroLength
<1>9. \A u \in Used(q) : u = t \/ (u \in Used(p) /\ Same(p, q, u))  BY DEF Extended
<1> QED  BY <1>8, <1>9, SameNumbered DEF AllNumbered

-----------------------------------------------------------------------------
(* The packets of a pool                                                   *)

\* A key has a packet in progress if and only if a tree collects its frames, and the
\* packet is what this tree holds.
LEMMA CollectedIs ==
  ASSUME NEW p, Good(p), NEW k
  PROVE  /\ Collected(p, k) # <<>> <=> Working(p, k) # {}
         /\ Working(p, k) = {} => Collected(p, k) = <<>>
         /\ \A t \in Working(p, k) : /\ Working(p, k) = {t} /\ t \in Used(p) /\ Min(Working(p, k)) = t
                                     /\ Collected(p, k) = Body(p, t)
                                     /\ Len(Body(p, t)) \in Nat \ {0} /\ Body(p, t) \in Seq(Blocks)
<1>1. ASSUME NEW t \in Working(p, k)
      PROVE  /\ Working(p, k) = {t} /\ t \in Used(p) /\ Min(Working(p, k)) = t
             /\ Collected(p, k) = Body(p, t)
             /\ Len(Body(p, t)) \in Nat \ {0} /\ Body(p, t) \in Seq(Blocks)
  <2>1. \A u \in Working(p, k) : u \in Partial(p) /\ u \in Used(p) /\ p.trees[u].key = k
    BY DEF Working, Partial
  <2>2. Working(p, k) = {t}  BY <2>1 DEF Good
  <2>3. Min(Working(p, k)) = t  BY <2>2, WorkingTree
  <2>4. Body(p, t) \in Seq(Blocks) /\ Len(Body(p, t)) \in Nat \ {0}  BY <2>1, BodyType DEF Good
  <2> QED  BY <2>1, <2>2, <2>3, <2>4 DEF Collected
<1>2. Working(p, k) = {} => Collected(p, k) = <<>>  BY DEF Collected
<1>3. Len(<<>>) = 0  OBVIOUS
<1> QED  BY <1>1, <1>2, <1>3

\* A place is taken if and only if its tree is complete.
LEMMA CompleteIs ==
  ASSUME NEW p, Good(p), NEW t \in Trees
  PROVE  /\ Complete(p, t) # Abstract!NoPacket <=> t \in Finished(p)
         /\ t \notin Finished(p) => Complete(p, t) = Abstract!NoPacket
         /\ t \in Finished(p) => Complete(p, t).blocks = Body(p, t) /\ Len(Body(p, t)) \in Nat \ {0}
<1>1. t \notin Finished(p) => Complete(p, t) = Abstract!NoPacket  BY DEF Complete, Abstract!NoPacket
<1>2. ASSUME t \in Finished(p)
      PROVE  /\ Complete(p, t).blocks = Body(p, t) /\ Len(Body(p, t)) \in Nat \ {0}
             /\ Complete(p, t) # Abstract!NoPacket
  <2>1. t \in Used(p)  BY <1>2 DEF Finished
  <2>2. Len(Body(p, t)) \in Nat \ {0}  BY <2>1, BodyType DEF Good
  <2>3. Complete(p, t).blocks = Body(p, t)  BY <1>2 DEF Complete
  <2>4. Abstract!NoPacket.blocks = <<>> /\ Len(<<>>) = 0  BY DEF Abstract!NoPacket
  <2> QED  BY <2>2, <2>3, <2>4
<1> QED  BY <1>1, <1>2

\* The abstract sets.
LEMMA AbstractSets ==
  ASSUME IInv
  PROVE  /\ Abstract!Collecting = {k \in Keys : Working(Pool, k) # {}}
         /\ Abstract!Waiting = Finished(Pool)
<1>1. Good(Pool)  BY DEF IInv
<1>2. \A k \in Keys : Collected(Pool, k) # <<>> <=> Working(Pool, k) # {}  BY <1>1, CollectedIs
<1>3. \A t \in Trees : Complete(Pool, t) # Abstract!NoPacket <=> t \in Finished(Pool)
  BY <1>1, CompleteIs
<1>4. Finished(Pool) \subseteq Trees  BY DEF Finished, Used
<1> QED  BY <1>2, <1>3, <1>4 DEF Abstract!Collecting, Abstract!Waiting

-----------------------------------------------------------------------------
(* Blocks and items                                                        *)

\* There are NumItems items.
LEMMA ItemsFinite == IsFiniteSet(Items) /\ Cardinality(Items) = NumItems /\ NumItems \in Nat \ {0}
<1>1. NumItems \in 1 .. 255 /\ 0 \in Int /\ NumItems - 1 \in Int  BY SizesAssumption
<1>2. IsFiniteSet(0 .. NumItems - 1)
      /\ Cardinality(0 .. NumItems - 1) = IF 0 > NumItems - 1 THEN 0 ELSE (NumItems - 1) - 0 + 1
  BY <1>1, FS_Interval
<1> QED  BY <1>1, <1>2 DEF Items

\* A path from the head of a list leads through every item of the list, and through
\* none twice; it ends with the last item.
LEMMA PathIsList ==
  ASSUME NEW p, WellFormed(p), NEW o \in Owners, HeadOf(p, o) # max_idx,
         NEW s, Path(p, HeadOf(p, o), s)
  PROVE  /\ Len(s) \in Nat \ {0} /\ Len(s) <= NumItems /\ Cardinality(Chain(p, HeadOf(p, o))) = Len(s)
         /\ \A j \in 1 .. Len(s) : s[j] \in Chain(p, HeadOf(p, o)) /\ s[j] \in Items
         /\ \A i \in Chain(p, HeadOf(p, o)) : \E j \in 1 .. Len(s) : s[j] = i
         /\ \A i, j \in 1 .. Len(s) : s[i] = s[j] => i = j
         /\ s[Len(s)] = LastOf(p, HeadOf(p, o))
<1> DEFINE h == HeadOf(p, o)
<1>1. p \in PoolType  BY DEF WellFormed
<1>2. PICK own, rank : \E B \in Nat : Linked(p, own, rank, B)  BY DEF WellFormed
<1>3. PICK B \in Nat : Linked(p, own, rank, B)  BY <1>2
<1>4. Len(s) \in Nat \ {0} /\ \A j \in 1 .. Len(s) : s[j] \in Items  BY PathLength
<1>5. h \in Items /\ own[h] = o /\ Chain(p, h) = {i \in Items : own[i] = o}
  BY <1>1, <1>3, PointerTypes, ChainIsOwned DEF Linked
<1>6. \A j \in 1 .. Len(s) : own[s[j]] = o
  <2>1. PICK r : Path(p, h, r) /\ \A j \in 1 .. Len(r) : own[r[j]] = own[h]
    BY <1>1, <1>3, <1>5, PathExists
  <2>2. r = s  BY <2>1, PathUnique
  <2> QED  BY <1>5, <2>1, <2>2
<1>7. \A j \in 1 .. Len(s) : s[j] \in Chain(p, h)  BY <1>4, <1>5, <1>6
<1>8. \A i \in Chain(p, h) : \E j \in 1 .. Len(s) : s[j] = i
  <2> DEFINE S == {s[j] : j \in 1 .. Len(s)}
  <2>1. S \in SUBSET Items  BY <1>4
  <2>2. h \in S  BY <1>4 DEF Path
  <2>3. ClosedUnderNext(p, S)
    <3> SUFFICES ASSUME NEW j \in 1 .. Len(s), NextOf(p, s[j]) # max_idx PROVE NextOf(p, s[j]) \in S
      BY DEF ClosedUnderNext
    <3>1. j # Len(s)  BY DEF Path
    <3>2. j \in 1 .. Len(s) - 1 /\ j + 1 \in 1 .. Len(s)  BY <1>4, <3>1
    <3>3. NextOf(p, s[j]) = s[j + 1]  BY <3>2 DEF Path
    <3> QED  BY <3>2, <3>3
  <2> HIDE DEF S
  <2>4. Chain(p, h) \subseteq S  BY <2>1, <2>2, <2>3 DEF Chain
  <2> QED  BY <2>4 DEF S
<1>9. \A j \in 1 .. Len(s) - 1 : rank[s[j]] < rank[s[j + 1]]
  <2> SUFFICES ASSUME NEW j \in 1 .. Len(s) - 1 PROVE rank[s[j]] < rank[s[j + 1]]  OBVIOUS
  <2>1. j \in 1 .. Len(s) /\ j + 1 \in 1 .. Len(s)  BY <1>4
  <2>2. NextOf(p, s[j]) = s[j + 1] /\ s[j] \in Items /\ s[j + 1] \in Items  BY <1>4, <2>1 DEF Path
  <2> QED  BY <1>3, <2>2, NilIsNoItem DEF Linked
<1>10. \A j \in 1 .. Len(s) : rank[s[j]] \in Nat  BY <1>3, <1>4 DEF Linked
<1>11. \A j \in 1 .. Len(s) : \A i \in 1 .. Len(s) : i < j => rank[s[i]] < rank[s[j]]
  <2> DEFINE Bad == {j \in Nat : j \in 1 .. Len(s) /\ \E i \in 1 .. Len(s) : i < j /\ ~(rank[s[i]] < rank[s[j]])}
  <2> SUFFICES ASSUME Bad # {} PROVE FALSE  OBVIOUS
  <2>1. PICK j \in Bad : \A n \in Bad : j <= n  BY LeastNat
  <2>2. PICK i \in 1 .. Len(s) : i < j /\ ~(rank[s[i]] < rank[s[j]])  BY <2>1
  <2>3. j - 1 \in 1 .. Len(s) - 1 /\ j - 1 \in 1 .. Len(s) /\ j - 1 \notin Bad /\ (j - 1) + 1 = j
    BY <1>4, <2>1, <2>2
  <2>4. rank[s[j - 1]] < rank[s[j]]  BY <1>9, <2>3
  <2>5. i # j - 1  BY <2>2, <2>4
  <2>6. rank[s[i]] < rank[s[j - 1]]  BY <1>4, <2>1, <2>2, <2>3, <2>5
  <2>7. rank[s[i]] \in Nat /\ rank[s[j - 1]] \in Nat /\ rank[s[j]] \in Nat  BY <1>10, <2>1, <2>2, <2>3
  <2> QED  BY <2>2, <2>4, <2>6, <2>7
<1>12. ASSUME NEW i \in 1 .. Len(s), NEW j \in 1 .. Len(s), s[i] = s[j]
       PROVE  i = j
  <2>1. ~(i < j) /\ ~(j < i)  BY <1>10, <1>11, <1>12
  <2> QED  BY <1>4, <2>1
<1>13. IsFiniteSet(1 .. Len(s)) /\ Cardinality(1 .. Len(s)) = Len(s)
  <2>1. 1 \in Int /\ Len(s) \in Int  BY <1>4
  <2>2. Cardinality(1 .. Len(s)) = IF 1 > Len(s) THEN 0 ELSE Len(s) - 1 + 1  BY <2>1, FS_Interval
  <2> QED  BY <1>4, <2>1, <2>2, FS_Interval
<1>14. Cardinality(Chain(p, h)) = Len(s)
  <2> DEFINE f == [j \in 1 .. Len(s) |-> s[j]]
  <2>1. f \in Bijection(1 .. Len(s), Chain(p, h))
    <3>1. f \in [1 .. Len(s) -> Chain(p, h)]  BY <1>7
    <3>2. \A i \in Chain(p, h) : \E j \in 1 .. Len(s) : f[j] = i  BY <1>8
    <3>3. \A i, j \in 1 .. Len(s) : f[i] = f[j] => i = j  BY <1>12
    <3> HIDE DEF f
    <3> QED  BY <3>1, <3>2, <3>3 DEF Bijection, Injection, IsInjective, Surjection
  <2> HIDE DEF f
  <2> QED  BY <1>13, <2>1, FS_Bijection DEF ExistsBijection
<1>15. Len(s) <= NumItems
  <2>1. Chain(p, h) \in SUBSET Items  BY <1>5
  <2>2. Cardinality(Chain(p, h)) <= Cardinality(Items)  BY <2>1, ItemsFinite, FS_Subset
  <2> QED  BY <1>14, <2>2, ItemsFinite
<1>16. s[Len(s)] = LastOf(p, h)
  <2>1. s[Len(s)] \in Items /\ own[s[Len(s)]] = o /\ NextOf(p, s[Len(s)]) = max_idx
    BY <1>4, <1>6 DEF Path
  <2>2. LastOf(p, h) \in Items /\ own[LastOf(p, h)] = o /\ NextOf(p, LastOf(p, h)) = max_idx
    BY <1>1, <1>3, LastIsTail
  <2> QED  BY <1>3, <2>1, <2>2 DEF Linked
<1> QED  BY <1>4, <1>7, <1>8, <1>12, <1>14, <1>15, <1>16

\* The same for a tree, whose body is the data along the path.
LEMMA PathIsChain ==
  ASSUME NEW p, WellFormed(p), NEW t \in Used(p), NEW s, Path(p, p.trees[t].head, s)
  PROVE  /\ Len(s) \in Nat /\ Len(Body(p, t)) = Len(s)
         /\ \A j \in 1 .. Len(s) : s[j] \in Chain(p, p.trees[t].head)
         /\ \A i \in Chain(p, p.trees[t].head) : \E j \in 1 .. Len(s) : s[j] = i
         /\ \A i, j \in 1 .. Len(s) : s[i] = s[j] => i = j
<1>1. t \in Owners /\ HeadOf(p, t) = p.trees[t].head /\ HeadOf(p, t) # max_idx
  BY SizesAssumption DEF Used, Owners, Trees, HeadOf
<1> QED  BY <1>1, PathIsList, BodyType

\* The blocks of all packets, and how they fill the items.
CellsOf(p, T) == UNION {{t} \X (1 .. Len(Body(p, t))) : t \in T}

\* A cell is a tree with a number.
LEMMA CellOf ==
  ASSUME NEW p, NEW T, NEW c
  PROVE  c \in CellsOf(p, T) <=> \E t \in T : \E i \in 1 .. Len(Body(p, t)) : c = <<t, i>>
BY DEF CellsOf

\* The packets hold as many blocks as there are items if and only if none is free.
LEMMA CellsAreItems ==
  ASSUME NEW p, WellFormed(p)
  PROVE  /\ IsFiniteSet(CellsOf(p, Used(p)))
         /\ Cardinality(CellsOf(p, Used(p))) <= NumItems
         /\ Cardinality(CellsOf(p, Used(p))) = NumItems <=> p.free = max_idx
<1> DEFINE C == CellsOf(p, Used(p))
           way(t) == CHOOSE s : Path(p, p.trees[t].head, s)
           f == [c \in C |-> way(c[1])[c[2]]]
<1>1. p \in PoolType  BY DEF WellFormed
<1>2. PICK own, rank : \E B \in Nat : Linked(p, own, rank, B)  BY DEF WellFormed
<1>3. PICK B \in Nat : Linked(p, own, rank, B)  BY <1>2
<1>4. IsFiniteSet(Items) /\ Cardinality(Items) = NumItems  BY ItemsFinite
<1>5. \A t \in Used(p) : Path(p, p.trees[t].head, way(t))
  BY BodyIsPath
<1> HIDE DEF way
<1>6. \A t \in Used(p) : t \in Owners /\ t # 0 /\ HeadOf(p, t) = p.trees[t].head
  BY SizesAssumption DEF Used, Trees, Owners, HeadOf
<1>7. \A t \in Used(p) : Chain(p, p.trees[t].head) = {i \in Items : own[i] = t}
  BY <1>1, <1>3, <1>6, ChainIsOwned
<1>8. ASSUME NEW t \in Used(p)
      PROVE  /\ Len(Body(p, t)) = Len(way(t))
             /\ \A j \in 1 .. Len(way(t)) : way(t)[j] \in Items /\ own[way(t)[j]] = t
             /\ \A i \in Items : own[i] = t => \E j \in 1 .. Len(way(t)) : way(t)[j] = i
             /\ \A i, j \in 1 .. Len(way(t)) : way(t)[i] = way(t)[j] => i = j
  <2>1. Path(p, p.trees[t].head, way(t))  BY <1>5
  <2>2. PICK s : s = way(t)  OBVIOUS
  <2>3. Path(p, p.trees[t].head, s)  BY <2>1, <2>2
  <2>4. /\ Len(s) \in Nat /\ Len(Body(p, t)) = Len(s)
        /\ \A j \in 1 .. Len(s) : s[j] \in Chain(p, p.trees[t].head)
        /\ \A i \in Chain(p, p.trees[t].head) : \E j \in 1 .. Len(s) : s[j] = i
        /\ \A i, j \in 1 .. Len(s) : s[i] = s[j] => i = j
    BY <2>3, PathIsChain
  <2>5. Chain(p, p.trees[t].head) = {i \in Items : own[i] = t}  BY <1>7
  <2> QED  BY <2>2, <2>4, <2>5
<1>9. \A c \in C : \E t \in Used(p) : \E i \in 1 .. Len(way(t)) : c = <<t, i>>  BY <1>8, CellOf
<1>10. \A t \in Used(p) : \A i \in 1 .. Len(way(t)) : <<t, i>> \in C  BY <1>8, CellOf
<1> HIDE DEF C
<1>11. \A t \in Used(p) : \A i \in 1 .. Len(way(t)) : f[<<t, i>>] = way(t)[i]  BY <1>10
<1>12. f \in [C -> Items]
  <2>1. \A c \in C : way(c[1])[c[2]] \in Items  BY <1>8, <1>9
  <2> QED  BY <2>1
<1> HIDE DEF f
<1>13. ASSUME NEW c \in C, NEW d \in C, f[c] = f[d]
       PROVE  c = d
  <2>1. PICK t \in Used(p) : \E i \in 1 .. Len(way(t)) : c = <<t, i>>  BY <1>9
  <2>2. PICK u \in Used(p) : \E j \in 1 .. Len(way(u)) : d = <<u, j>>  BY <1>9
  <2>3. PICK i \in 1 .. Len(way(t)) : c = <<t, i>>  BY <2>1
  <2>4. PICK j \in 1 .. Len(way(u)) : d = <<u, j>>  BY <2>2
  <2>5. way(t)[i] = way(u)[j]  BY <1>11, <1>13, <2>3, <2>4
  <2>6. t = u  BY <1>8, <2>5
  <2>7. i = j  BY <1>8, <2>5, <2>6
  <2> QED  BY <2>3, <2>4, <2>6, <2>7
<1>14. f \in Injection(C, Items)  BY <1>12, <1>13 DEF Injection, IsInjective
<1>15. CASE p.free = max_idx
  <2>1. 0 \in Owners /\ HeadOf(p, 0) = max_idx  BY <1>15, SizesAssumption DEF Owners, HeadOf
  <2>2. ASSUME NEW i \in Items PROVE \E c \in C : f[c] = i
    <3>1. own[i] \in Owners /\ own[i] # 0 /\ HeadOf(p, own[i]) # max_idx
      BY <1>1, <1>3, <2>1, NoHeadNoItems DEF Linked
    <3>2. own[i] \in Used(p)  BY <3>1, SizesAssumption DEF Used, Trees, Owners, HeadOf
    <3>3. PICK j \in 1 .. Len(way(own[i])) : way(own[i])[j] = i  BY <1>8, <3>2
    <3> QED  BY <1>10, <1>11, <3>2, <3>3
  <2>3. f \in Surjection(C, Items)  BY <1>12, <2>2 DEF Surjection
  <2> QED  BY <1>4, <1>14, <1>15, <2>3, FS_Injection DEF C
<1>16. CASE p.free # max_idx
  <2>1. 0 \in Owners /\ HeadOf(p, 0) = p.free  BY SizesAssumption DEF Owners, HeadOf
  <2>2. p.free \in Items /\ own[p.free] = 0  BY <1>1, <1>3, <1>16, <2>1, PointerTypes DEF Linked
  <2>3. \A c \in C : f[c] # p.free
    <3> SUFFICES ASSUME NEW c \in C PROVE f[c] # p.free  OBVIOUS
    <3>1. PICK t \in Used(p) : \E i \in 1 .. Len(way(t)) : c = <<t, i>>  BY <1>9
    <3>2. PICK i \in 1 .. Len(way(t)) : c = <<t, i>>  BY <3>1
    <3> QED  BY <1>6, <1>8, <1>11, <2>2, <3>2
  <2>4. f \notin Surjection(C, Items)  BY <2>2, <2>3 DEF Surjection
  <2> QED  BY <1>4, <1>14, <1>16, <2>4, FS_Injection DEF C
<1> QED  BY <1>15, <1>16

\* The keys that have a packet in progress, and the blocks of these packets.
KeysOf(p) == {k \in Keys : Working(p, k) # {}}
KeyCells(p) == UNION {{k} \X (1 .. Len(Collected(p, k))) : k \in KeysOf(p)}

\* A key has as many blocks as its tree.
LEMMA KeyCellsCount ==
  ASSUME NEW p, Good(p), AllNumbered(p)
  PROVE  IsFiniteSet(CellsOf(p, Partial(p))) => Cardinality(KeyCells(p)) = Cardinality(CellsOf(p, Partial(p)))
<1> DEFINE A == KeyCells(p)
           C == CellsOf(p, Partial(p))
           tree(k) == Min(Working(p, k))
           f == [c \in A |-> <<tree(c[1]), c[2]>>]
<1>1. \A c : c \in A <=> \E k \in KeysOf(p) : \E i \in 1 .. Len(Collected(p, k)) : c = <<k, i>>
  BY DEF KeyCells
<1>2. \A c : c \in C <=> \E t \in Partial(p) : \E i \in 1 .. Len(Body(p, t)) : c = <<t, i>>  BY CellOf
<1>3. ASSUME NEW k \in KeysOf(p)
      PROVE  /\ tree(k) \in Partial(p) /\ p.trees[tree(k)].key = k
             /\ Collected(p, k) = Body(p, tree(k))
  <2>1. PICK t \in Working(p, k) : TRUE  BY DEF KeysOf
  <2>2. tree(k) = t /\ Collected(p, k) = Body(p, t)  BY <2>1, CollectedIs
  <2> QED  BY <2>1, <2>2 DEF Working
<1>4. ASSUME NEW t \in Partial(p)
      PROVE  p.trees[t].key \in KeysOf(p) /\ tree(p.trees[t].key) = t
  <2>1. t \in Used(p) /\ t \in Working(p, p.trees[t].key)  BY DEF Partial, Working
  <2>2. p.trees[t].key \in Keys  BY <2>1 DEF AllNumbered, Numbered
  <2>3. tree(p.trees[t].key) = t  BY <2>1, CollectedIs
  <2> QED  BY <2>1, <2>2, <2>3 DEF KeysOf
<1> HIDE DEF tree, A, C
<1>5. \A c \in A : \E k \in KeysOf(p) : \E i \in 1 .. Len(Body(p, tree(k))) :
          c = <<k, i>> /\ f[c] = <<tree(k), i>>
  BY <1>1, <1>3
<1>6. f \in [A -> C]
  <2>1. \A c \in A : f[c] \in C  BY <1>2, <1>3, <1>5
  <2> QED  BY <2>1
<1>7. ASSUME NEW c \in C PROVE \E a \in A : f[a] = c
  <2>1. PICK t \in Partial(p) : \E i \in 1 .. Len(Body(p, t)) : c = <<t, i>>  BY <1>2
  <2>2. PICK i \in 1 .. Len(Body(p, t)) : c = <<t, i>>  BY <2>1
  <2>3. PICK k \in KeysOf(p) : tree(k) = t  BY <1>4
  <2>4. i \in 1 .. Len(Collected(p, k))  BY <1>3, <2>2, <2>3
  <2>5. <<k, i>> \in A  BY <1>1, <2>4
  <2>6. f[<<k, i>>] = <<t, i>>  BY <2>3, <2>5
  <2> QED  BY <2>2, <2>5, <2>6
<1> HIDE DEF f
<1>8. ASSUME NEW a \in A, NEW b \in A, f[a] = f[b]
      PROVE  a = b
  <2>1. PICK k \in KeysOf(p) : \E i \in 1 .. Len(Body(p, tree(k))) : a = <<k, i>> /\ f[a] = <<tree(k), i>>
    BY <1>5
  <2>2. PICK i \in 1 .. Len(Body(p, tree(k))) : a = <<k, i>> /\ f[a] = <<tree(k), i>>  BY <2>1
  <2>3. PICK l \in KeysOf(p) : \E j \in 1 .. Len(Body(p, tree(l))) : b = <<l, j>> /\ f[b] = <<tree(l), j>>
    BY <1>5
  <2>4. PICK j \in 1 .. Len(Body(p, tree(l))) : b = <<l, j>> /\ f[b] = <<tree(l), j>>  BY <2>3
  <2>5. tree(k) = tree(l) /\ i = j  BY <1>8, <2>2, <2>4
  <2>6. k = l  BY <1>3, <2>5
  <2> QED  BY <2>2, <2>4, <2>5, <2>6
<1>9. f \in Injection(A, C) /\ f \in Surjection(A, C)
  BY <1>6, <1>7, <1>8 DEF Injection, IsInjective, Surjection
<1> QED  BY <1>9, FS_Injection DEF A, C

\* The instance counts as FiniteSets does.
LEMMA SameCardinality == \A S : Abstract!Cardinality(S) = Cardinality(S)
BY DEF Abstract!Cardinality, Cardinality

\* PacketPool's count of the blocks tells whether an item is free.
LEMMA BlocksHeld ==
  ASSUME RInv
  PROVE  /\ Abstract!Held = NumItems <=> free = max_idx
         /\ Abstract!Held < NumItems <=> free # max_idx
<1> DEFINE p == Pool
           C == CellsOf(p, Partial(p))
           D == CellsOf(p, Finished(p))
           E == CellsOf(p, Used(p))
<1>1. Good(p) /\ AllNumbered(p) /\ WellFormed(p) /\ p.free = free  BY DEF RInv, IInv, Good, Pool
<1>2. IsFiniteSet(E) /\ Cardinality(E) <= NumItems /\ (Cardinality(E) = NumItems <=> p.free = max_idx)
  BY <1>1, CellsAreItems
<1>3. \A T : \A c : c \in CellsOf(p, T) <=> \E t \in T : \E i \in 1 .. Len(Body(p, t)) : c = <<t, i>>
  BY CellOf
<1>4. Used(p) = Partial(p) \cup Finished(p) /\ Partial(p) \cap Finished(p) = {}  BY DEF Partial, Finished
<1>5. UNION {{k} \X (1 .. Len([l \in Keys |-> Collected(p, l)][k])) : k \in Abstract!Collecting} = KeyCells(p)
  <2>1. Abstract!Collecting = KeysOf(p) /\ KeysOf(p) \subseteq Keys  BY AbstractSets DEF RInv, KeysOf
  <2>2. \A k \in KeysOf(p) : [l \in Keys |-> Collected(p, l)][k] = Collected(p, k)  BY <2>1
  <2> QED  BY <2>1, <2>2 DEF KeyCells
<1>6. UNION {{s} \X (1 .. Len([t \in Trees |-> Complete(p, t)][s].blocks)) : s \in Abstract!Waiting} = D
  <2>1. Abstract!Waiting = Finished(p) /\ Finished(p) \subseteq Trees
    BY AbstractSets DEF RInv, Finished, Used
  <2>2. \A t \in Finished(p) : [s \in Trees |-> Complete(p, s)][t].blocks = Body(p, t)
    BY <1>1, <2>1, CompleteIs
  <2> QED  BY <2>1, <2>2 DEF CellsOf
<1>7. Abstract!Held = Cardinality(KeyCells(p)) + Cardinality(D)
  BY <1>5, <1>6, SameCardinality DEF Abstract!Held
<1> HIDE DEF p
<1>8. C \cup D = E /\ C \cap D = {}
  <2>1. C \cup D = E  BY <1>3, <1>4
  <2>2. ASSUME NEW c \in C, c \in D PROVE FALSE
    <3>1. PICK t \in Partial(p) : \E i \in 1 .. Len(Body(p, t)) : c = <<t, i>>  BY <1>3
    <3>2. PICK u \in Finished(p) : \E i \in 1 .. Len(Body(p, u)) : c = <<u, i>>  BY <1>3, <2>2
    <3>3. t = u  BY <3>1, <3>2
    <3> QED  BY <1>4, <3>3
  <2> QED  BY <2>1, <2>2
<1> HIDE DEF C, D, E
<1>9. IsFiniteSet(C) /\ IsFiniteSet(D)  BY <1>2, <1>8, FS_Subset
<1>10. Cardinality(E) = Cardinality(C) + Cardinality(D) - Cardinality({})
  <2>1. Cardinality(C \cup D) = Cardinality(C) + Cardinality(D) - Cardinality(C \cap D)
    BY <1>9, FS_Union
  <2> QED  BY <1>8, <2>1
<1>11. Cardinality({}) = 0  BY FS_EmptySet
<1>12. /\ Cardinality(C) \in Nat /\ Cardinality(D) \in Nat /\ Cardinality(E) \in Nat /\ NumItems \in Nat
  BY <1>2, <1>9, FS_CardinalityType, SizesAssumption
<1>13. Cardinality(KeyCells(p)) = Cardinality(C)  BY <1>1, <1>9, KeyCellsCount DEF C
<1>14. Abstract!Held = Cardinality(E)  BY <1>7, <1>10, <1>11, <1>12, <1>13
<1> QED  BY <1>1, <1>2, <1>12, <1>14

\* PacketPool's count of the packets tells whether push_new finds a tree.
LEMMA PlacesTaken ==
  ASSUME RInv, NEW k \in Keys
  PROVE  Abstract!PlaceLeft(k) <=> Unused(Remove(Pool, k)) # {}
<1> DEFINE p == Pool
           P == Partial(p) \ Working(p, k)
           F == Finished(p)
           U == Used(Remove(p, k))
           K == KeysOf(p) \ {k}
           f == [t \in P |-> p.trees[t].key]
<1>1. Good(p) /\ AllNumbered(p)  BY DEF RInv, IInv
<1>2. U = Used(p) \ Working(p, k) /\ U \subseteq Trees  BY <1>1, RemoveSame DEF Used
<1>3. U = P \cup F /\ P \cap F = {}
  <2>1. Working(p, k) \subseteq Partial(p) /\ Used(p) = Partial(p) \cup F /\ Partial(p) \cap F = {}
    BY DEF Working, Partial, Finished
  <2> QED  BY <1>2, <2>1
<1>4. IsFiniteSet(Trees) /\ Cardinality(Trees) = NumTrees /\ NumTrees \in Nat
  <2>1. NumTrees \in Nat \ {0} /\ 1 \in Int /\ NumTrees \in Int  BY SizesAssumption
  <2>2. IsFiniteSet(1 .. NumTrees) /\ Cardinality(1 .. NumTrees) = IF 1 > NumTrees THEN 0 ELSE NumTrees - 1 + 1
    BY <2>1, FS_Interval
  <2> QED  BY <2>1, <2>2 DEF Trees
<1>5. Abstract!PlaceLeft(k) <=> Cardinality(K) + Cardinality(F) < NumTrees
  <2>1. Abstract!Collecting = KeysOf(p) /\ Abstract!Waiting = F  BY AbstractSets DEF RInv, KeysOf
  <2> QED  BY <1>4, <2>1, SameCardinality DEF Abstract!PlaceLeft
<1>6. ASSUME NEW t \in P
      PROVE  f[t] \in K /\ \A u \in P : f[u] = f[t] => u = t
  <2>1. t \in Used(p) /\ t \in Partial(p) /\ t \in Working(p, p.trees[t].key) /\ t \notin Working(p, k)
    BY DEF Partial, Working
  <2>2. p.trees[t].key \in Keys /\ p.trees[t].key # k  BY <1>1, <2>1 DEF AllNumbered, Numbered
  <2> QED  BY <1>1, <2>1, <2>2 DEF KeysOf, Good
<1>7. ASSUME NEW l \in K
      PROVE  \E t \in P : f[t] = l
  <2>1. PICK t \in Working(p, l) : TRUE  BY DEF KeysOf
  <2>2. t \in Partial(p) /\ p.trees[t].key = l  BY <2>1 DEF Working
  <2>3. t \notin Working(p, k)  BY <2>2 DEF Working
  <2> QED  BY <2>2, <2>3
<1>8. f \in [P -> K]  BY <1>6
<1> HIDE DEF p, f, K, F, U, P
<1>9. f \in Surjection(P, K) /\ f \in Injection(P, K)
  BY <1>6, <1>7, <1>8 DEF Surjection, Injection, IsInjective
<1>10. IsFiniteSet(U) /\ Cardinality(U) <= NumTrees /\ (NumTrees = Cardinality(U) => U = Trees)
  BY <1>2, <1>4, FS_Subset
<1>11. IsFiniteSet(P) /\ IsFiniteSet(F)  BY <1>3, <1>10, FS_Subset
<1>12. Cardinality(K) = Cardinality(P)  BY <1>9, <1>11, FS_Surjection
<1>13. Cardinality(U) = Cardinality(P) + Cardinality(F) - 0
  <2>1. Cardinality(P \cup F) = Cardinality(P) + Cardinality(F) - Cardinality(P \cap F)
    BY <1>11, FS_Union
  <2> QED  BY <1>3, <2>1, FS_EmptySet
<1>14. Cardinality(P) \in Nat /\ Cardinality(F) \in Nat /\ Cardinality(U) \in Nat
  BY <1>10, <1>11, FS_CardinalityType
<1>15. Abstract!PlaceLeft(k) <=> Cardinality(U) < NumTrees  BY <1>5, <1>12, <1>13, <1>14
<1>16. Cardinality(U) < NumTrees <=> U # Trees  BY <1>4, <1>10, <1>14
<1>17. U # Trees <=> Unused(Remove(Pool, k)) # {}  BY <1>2 DEF Unused, U, p
<1> QED  BY <1>15, <1>16, <1>17

-----------------------------------------------------------------------------
(* What calls do to the packets                                            *)

\* The packets of the keys in L, and no others, are given up; complete ones stay.
GivesUp(p, q, L) == \A l \in Keys : Collected(q, l) = IF l \in L THEN <<>> ELSE Collected(p, l)
Stays(p, q) == \A t \in Trees : Complete(q, t) = Complete(p, t)

\* The packet in progress, or the complete one, of a tree that stays the same.
LEMMA SamePacket ==
  ASSUME NEW p, NEW q, Good(p), Good(q), NEW t, Same(p, q, t)
  PROVE  /\ Complete(q, t) = Complete(p, t)
         /\ \A k : t \in Working(p, k) => Collected(q, k) = Collected(p, k)
<1>1. Complete(q, t) = Complete(p, t)  BY SameKind DEF Complete, Same
<1>2. ASSUME NEW k, t \in Working(p, k) PROVE Collected(q, k) = Collected(p, k)
  <2>1. t \in Working(q, k)  BY <1>2, SameKind
  <2>2. Collected(p, k) = Body(p, t) /\ Collected(q, k) = Body(q, t)  BY <1>2, <2>1, CollectedIs
  <2> QED  BY <2>2 DEF Same
<1> QED  BY <1>1, <1>2

\* A call that takes no frame gives up the packets of some keys.
LEMMA Fewer ==
  ASSUME NEW p, NEW q, Good(p), Good(q),
         \A t \in Used(q) : Same(p, q, t), \A t \in Finished(p) : Same(p, q, t)
  PROVE  Stays(p, q) /\ \E L \in SUBSET KeysOf(p) : GivesUp(p, q, L)
<1>1. \A t \in Trees : Complete(q, t) = Complete(p, t)
  <2> SUFFICES ASSUME NEW t \in Trees PROVE Complete(q, t) = Complete(p, t)  OBVIOUS
  <2>1. CASE t \in Finished(p)  BY <2>1, SamePacket
  <2>2. CASE t \notin Finished(p)
    <3>1. t \notin Finished(q)
      <4>1. SUFFICES ASSUME t \in Finished(q) PROVE FALSE  OBVIOUS
      <4>2. Same(p, q, t)  BY <4>1 DEF Finished
      <4> QED  BY <2>2, <4>1, <4>2, SameKind
    <3> QED  BY <2>2, <3>1 DEF Complete
  <2> QED  BY <2>1, <2>2
<1> DEFINE L == KeysOf(p) \ KeysOf(q)
<1>2. ASSUME NEW l \in Keys PROVE Collected(q, l) = IF l \in L THEN <<>> ELSE Collected(p, l)
  <2>1. CASE Working(q, l) = {}
    <3>1. Collected(q, l) = <<>>  BY <2>1, CollectedIs
    <3>2. l \notin KeysOf(p) => Collected(p, l) = <<>>  BY CollectedIs DEF KeysOf
    <3> QED  BY <2>1, <3>1, <3>2 DEF KeysOf
  <2>2. CASE Working(q, l) # {}
    <3>1. PICK t \in Working(q, l) : TRUE  BY <2>2
    <3>2. Same(p, q, t)  BY <3>1 DEF Working, Partial
    <3>3. t \in Working(p, l)  BY <3>1, <3>2, SameKind
    <3>4. Collected(q, l) = Collected(p, l)  BY <3>2, <3>3, SamePacket
    <3> QED  BY <2>2, <3>4 DEF KeysOf
  <2> QED  BY <2>1, <2>2
<1>3. GivesUp(p, q, L)  BY <1>2 DEF GivesUp
<1>4. L \in SUBSET KeysOf(p)  OBVIOUS
<1> QED  BY <1>1, <1>3, <1>4 DEF Stays

\* A frame is taken: tree t holds b of key k, and the rest stays.
Placed(p, q, t, k, b, last) ==
    /\ t \in Trees \ Finished(p) /\ t \in Used(q)
    /\ q.trees[t].key = k /\ q.trees[t].dlc = last /\ Body(q, t) = b
    /\ \A u \in Used(q) \ {t} : u \in Used(p) \ Working(p, k)
    /\ \A u \in Used(p) \ Working(p, k) : u # t /\ Same(p, q, u)

\* push_new places one block,
LEMMA BegunPlaced ==
  ASSUME NEW p, NEW q, NEW t, NEW k, NEW d, NEW last, Begun(p, q, t, k, d, last)
  PROVE  Placed(p, q, t, k, <<d>>, last)
BY DEF Begun, Placed

\* and push_next one more than there were.
LEMMA ExtendedPlaced ==
  ASSUME NEW p, NEW q, NEW t, NEW k, NEW d, NEW last, Extended(p, q, t, k, d, last), Good(p)
  PROVE  Placed(p, q, t, k, Append(Collected(p, k), d), last)
<1>1. t \in Working(p, k) /\ Working(p, k) = {t} /\ Collected(p, k) = Body(p, t)
  BY CollectedIs DEF Extended
<1>2. t \in Trees \ Finished(p) /\ t \in Used(p)  BY <1>1 DEF Working, Partial, Finished, Used
<1> QED  BY <1>1, <1>2 DEF Extended, Placed

\* What that means for the packets in progress and the complete ones.
LEMMA PlacedPackets ==
  ASSUME NEW p, NEW q, Good(p), Good(q), NEW t, NEW k \in Keys, NEW b, NEW last,
         Placed(p, q, t, k, b, last)
  PROVE  /\ \A l \in Keys : Collected(q, l) = IF l = k THEN IF last = 0 THEN b ELSE <<>>
                                              ELSE Collected(p, l)
         /\ \A u \in Trees : Complete(q, u) = IF u = t /\ last # 0
                                              THEN [key |-> k, blocks |-> b, last |-> last]
                                              ELSE Complete(p, u)
<1>1. t \in Used(q) /\ q.trees[t].key = k /\ q.trees[t].dlc = last /\ Body(q, t) = b  BY DEF Placed
<1>2. ASSUME NEW l \in Keys, l # k PROVE Collected(q, l) = Collected(p, l)
  <2>1. CASE Working(q, l) = {}
    <3>1. Working(p, l) = {}
      <4>1. SUFFICES ASSUME NEW u \in Working(p, l) PROVE FALSE  OBVIOUS
      <4>2. u \in Used(p) \ Working(p, k)  BY <1>2 DEF Working, Partial
      <4>3. Same(p, q, u)  BY <4>2 DEF Placed
      <4> QED  BY <2>1, <4>3, SameKind
    <3> QED  BY <2>1, <3>1, CollectedIs
  <2>2. CASE Working(q, l) # {}
    <3>1. PICK u \in Working(q, l) : TRUE  BY <2>2
    <3>2. u \in Used(q) \ {t}  BY <1>1, <1>2, <3>1 DEF Working, Partial
    <3>3. Same(p, q, u)  BY <3>2 DEF Placed
    <3>4. u \in Working(p, l)  BY <3>1, <3>3, SameKind
    <3> QED  BY <3>3, <3>4, SamePacket
  <2> QED  BY <2>1, <2>2
<1>3. Collected(q, k) = IF last = 0 THEN b ELSE <<>>
  <2>1. CASE last = 0
    <3>1. t \in Working(q, k)  BY <1>1, <2>1 DEF Working, Partial
    <3> QED  BY <1>1, <2>1, <3>1, CollectedIs
  <2>2. CASE last # 0
    <3>1. Working(q, k) = {}
      <4>1. SUFFICES ASSUME NEW u \in Working(q, k) PROVE FALSE  OBVIOUS
      <4>2. u \in Used(q) \ {t}  BY <1>1, <2>2 DEF Working, Partial
      <4>3. u \in Used(p) \ Working(p, k) /\ Same(p, q, u)  BY <4>2 DEF Placed
      <4> QED  BY <4>3, SameKind
    <3> QED  BY <2>2, <3>1, CollectedIs
  <2> QED  BY <2>1, <2>2
<1>4. ASSUME NEW u \in Trees, u # t PROVE Complete(q, u) = Complete(p, u)
  <2>1. CASE u \in Finished(p)
    <3>1. u \in Used(p) \ Working(p, k)  BY <2>1 DEF Finished, Working
    <3>2. Same(p, q, u)  BY <3>1 DEF Placed
    <3> QED  BY <3>2, SamePacket
  <2>2. CASE u \notin Finished(p)
    <3>1. u \notin Finished(q)
      <4>1. SUFFICES ASSUME u \in Finished(q) PROVE FALSE  OBVIOUS
      <4>2. u \in Used(q) \ {t}  BY <1>4, <4>1 DEF Finished
      <4>3. Same(p, q, u)  BY <4>2 DEF Placed
      <4> QED  BY <2>2, <4>1, <4>3, SameKind
    <3> QED  BY <2>2, <3>1 DEF Complete
  <2> QED  BY <2>1, <2>2
<1>5. Complete(q, t) = IF last # 0 THEN [key |-> k, blocks |-> b, last |-> last] ELSE Complete(p, t)
  <2>1. t \in Finished(q) <=> last # 0  BY <1>1 DEF Finished, Partial
  <2>2. t \notin Finished(p)  BY DEF Placed
  <2> QED  BY <1>1, <2>1, <2>2 DEF Complete
<1> QED  BY <1>2, <1>3, <1>4, <1>5

-----------------------------------------------------------------------------
(* The calls                                                               *)

\* What PacketPool calls giving up, and leaving the complete packets alone.
LEMMA AbstractGiveUp ==
  ASSUME NEW L, GivesUp(Pool, Pool', L)
  PROVE  Abstract!GiveUp(L)
<1>1. [k \in Keys |-> Collected(Pool, k)]' = [k \in Keys |-> Collected(Pool', k)]  OBVIOUS
<1>2. \A k \in Keys : Collected(Pool', k) = IF k \in L THEN <<>> ELSE Collected(Pool, k)
  BY DEF GivesUp
<1> QED  BY <1>1, <1>2 DEF Abstract!GiveUp

\* The complete packets stay.
LEMMA AbstractStays ==
  ASSUME Stays(Pool, Pool')
  PROVE  UNCHANGED [t \in Trees |-> Complete(Pool, t)]
BY DEF Stays

\* A frame is refused and packets are given up.
LEMMA AbstractRefuse ==
  ASSUME IInv, IInv', NEW k \in Keys, Refused(Pool, Pool', k)
  PROVE  Abstract!Refuse(k, rv')
<1> DEFINE p == Pool
           q == Pool'
<1>1. Good(p) /\ Good(q)  BY DEF IInv
<1>2. Stays(p, q) /\ \E L \in SUBSET KeysOf(p) : GivesUp(p, q, L)  BY <1>1, Fewer DEF Refused
<1>3. PICK L \in SUBSET KeysOf(p) : GivesUp(p, q, L)  BY <1>2
<1>4. Collected(q, k) = <<>>  BY <1>1, CollectedIs DEF Refused
<1>5. GivesUp(p, q, L \cup {k})  BY <1>3, <1>4 DEF GivesUp
<1>6. Abstract!GiveUp(L \cup {k})  BY <1>5, AbstractGiveUp
<1>7. UNCHANGED [t \in Trees |-> Complete(Pool, t)]  BY <1>2, AbstractStays
<1>8. Abstract!Collecting = KeysOf(p)  BY AbstractSets DEF KeysOf
<1> QED  BY <1>3, <1>6, <1>7, <1>8 DEF Abstract!Refuse

\* The number that the tree of k expects, and the one before, are those that
\* PacketPool counts.
LEMMA ExpectedIs ==
  ASSUME RInv, NEW k \in Keys, Working(Pool, k) # {}
  PROVE  /\ k \in Abstract!Collecting
         /\ trees[Min(Working(Pool, k))].frm = Abstract!Expected(k)
         /\ SeqBefore(trees[Min(Working(Pool, k))].frm) = Abstract!Previous(k)
<1> DEFINE p == Pool
<1>1. Good(p) /\ AllNumbered(p) /\ p.trees = trees  BY DEF RInv, IInv, Pool
<1>2. k \in Abstract!Collecting  BY AbstractSets DEF RInv
<1>3. PICK t \in Working(p, k) : TRUE  OBVIOUS
<1>4. /\ Min(Working(p, k)) = t /\ t \in Used(p)
      /\ Collected(p, k) = Body(p, t) /\ Len(Body(p, t)) \in Nat \ {0}
  BY <1>1, <1>3, CollectedIs
<1>5. p.trees[t].dlc = 0  BY <1>3 DEF Working, Partial
<1>6. trees[t].frm = (Len(Body(p, t)) - 1) % Turns  BY <1>1, <1>4, <1>5 DEF AllNumbered, Numbered
<1>7. PICK n \in Nat : n = Len(Body(p, t)) - 1  BY <1>4
<1>8. SeqBefore(trees[t].frm) = (n - 1) % Turns  BY <1>6, <1>7, NumbersInTurn
<1>9. n - 1 = Len(Body(p, t)) - 2  BY <1>4, <1>7
<1>10. [l \in Keys |-> Collected(Pool, l)][k] = Body(p, t)  BY <1>4
<1> HIDE DEF p
<1>11. Abstract!Expected(k) = (Len(Body(p, t)) - 1) % Turns  BY <1>10 DEF Abstract!Expected, Turns
<1>12. Abstract!Previous(k) = (Len(Body(p, t)) - 2) % Turns  BY <1>10 DEF Abstract!Previous, Turns
<1> QED  BY <1>2, <1>4, <1>6, <1>8, <1>9, <1>11, <1>12 DEF p

\* The numbers of the kinds of frames are the same in both specifications.
LEMMA SameFrames ==
  /\ Abstract!SeqFrames = SeqFrames /\ Abstract!frm_end = frm_end
  /\ Abstract!frm_start = frm_start /\ Abstract!frm_single = frm_single
  /\ Abstract!Frames = Frames /\ Abstract!ZeroLength = ZeroLength
  /\ \A f, n : Abstract!WrongLength(f, n) <=> BadLength(f, n)
  /\ frm_end \notin SeqFrames /\ frm_start \notin SeqFrames /\ frm_single \notin SeqFrames
  /\ frm_start # frm_end /\ frm_single # frm_end /\ frm_single # frm_start
<1>1. /\ Abstract!SeqFrames = SeqFrames /\ Abstract!frm_end = frm_end
      /\ Abstract!frm_start = frm_start /\ Abstract!frm_single = frm_single
      /\ Abstract!ZeroLength = ZeroLength
  BY DEF Abstract!SeqFrames, SeqFrames, Abstract!frm_end, frm_end, Abstract!frm_start, frm_start,
         Abstract!frm_single, frm_single, Abstract!ZeroLength, ZeroLength
<1>2. Abstract!Frames = Frames  BY <1>1 DEF Abstract!Frames, Frames
<1>3. \A f, n : Abstract!WrongLength(f, n) <=> BadLength(f, n)  BY <1>1 DEF Abstract!WrongLength, BadLength
<1>4. /\ frm_end \notin SeqFrames /\ frm_start \notin SeqFrames /\ frm_single \notin SeqFrames
      /\ frm_start # frm_end /\ frm_single # frm_end /\ frm_single # frm_start
  BY SizesAssumption DEF frm_end, frm_start, frm_single, SeqFrames
<1> QED  BY <1>1, <1>2, <1>3, <1>4

\* push without a free item.
LEMMA OverflowImplements ==
  ASSUME RInv, NEW k \in Keys, NEW f \in Frames, NEW d \in Blocks, NEW n \in Dlcs,
         PushOverflow(k), call' = <<"push", k, f, d, n>>
  PROVE  RInv' /\ Abstract!Push(k, f, d, n)
<1>1. IInv /\ AllNumbered(Pool)  BY DEF RInv
<1>2. free = max_idx /\ Become(Remove(TimeoutAll(Pool), k)) /\ Return("ErrorSlotsOverflow")
  BY DEF PushOverflow
<1>3. "ErrorSlotsOverflow" \in Results  BY DEF Results
<1>4. IInv' /\ Refused(Pool, Pool', k)  BY <1>1, <1>2, <1>3, RefusedCall
<1>5. rv' = "ErrorSlotsOverflow"/\ got' = <<>>  BY <1>2 DEF Return
<1>6. Abstract!Refuse(k, "ErrorSlotsOverflow")  BY <1>1, <1>4, <1>5, AbstractRefuse
<1>7. Abstract!Held = NumItems  BY <1>2, BlocksHeld
<1>8. AllNumbered(Pool')  BY <1>1, <1>4, FewerNumbered DEF Refused
<1> QED  BY <1>4, <1>5, <1>6, <1>7, <1>8 DEF Abstract!Push, RInv

\* A frame of a wrong length, or a repeated one, changes nothing.
LEMMA NothingImplements ==
  ASSUME RInv, NEW k \in Keys, NEW f \in Frames, NEW d \in Blocks, NEW n \in Dlcs,
         PushBadLength(f, n) \/ PushRepeated(k, f, n), call' = <<"push", k, f, d, n>>
  PROVE  RInv' /\ Abstract!Push(k, f, d, n)
<1>1. free # max_idx /\ UNCHANGED <<trees, items, free>> /\ got' = <<>>
  BY DEF PushBadLength, PushRepeated, Return
<1>2. Pool' = Pool  BY <1>1 DEF Pool
<1>3. rv' \in Results  BY DEF PushBadLength, PushRepeated, Return, Results
<1>4. RInv'  BY <1>2, <1>3 DEF RInv, IInv
<1>5. UNCHANGED <<[l \in Keys |-> Collected(Pool, l)], [t \in Trees |-> Complete(Pool, t)]>>  BY <1>2
<1>6. Abstract!Held < NumItems  BY <1>1, BlocksHeld
<1>7. CASE PushBadLength(f, n)
  <2>1. rv' = "ErrorDLC" /\ Abstract!WrongLength(f, n)  BY <1>7, SameFrames DEF PushBadLength, Return
  <2> QED  BY <1>1, <1>4, <1>5, <1>6, <2>1 DEF Abstract!Push
<1>8. CASE PushRepeated(k, f, n)
  <2>1. /\ rv' = "MsgDropped" /\ ~Abstract!WrongLength(f, n) /\ f \in Abstract!SeqFrames
        /\ Working(Pool, k) # {} /\ f = SeqBefore(trees[Min(Working(Pool, k))].frm)
    BY <1>8, SameFrames DEF PushRepeated, Return
  <2>2. k \in Abstract!Collecting /\ f = Abstract!Previous(k)  BY <2>1, ExpectedIs
  <2>3. Abstract!Repeat(k, f)  BY <1>5, <2>1, <2>2 DEF Abstract!Repeat
  <2>4. Abstract!Accept(k, f, d, n)  BY <2>1, <2>3 DEF Abstract!Accept
  <2>5. rv' \notin {"ErrorSlotsOverflow", "ErrorDLC"}  BY <2>1
  <2> QED  BY <1>1, <1>4, <1>6, <2>1, <2>4, <2>5 DEF Abstract!Push
<1> QED  BY <1>7, <1>8

\* A frame that continues no packet.
LEMMA OrphanImplements ==
  ASSUME RInv, NEW k \in Keys, NEW f \in Frames, NEW d \in Blocks, NEW n \in Dlcs,
         PushOrphan(k, f, n), call' = <<"push", k, f, d, n>>
  PROVE  RInv' /\ Abstract!Push(k, f, d, n)
<1>1. IInv /\ AllNumbered(Pool)  BY DEF RInv
<1>2. /\ free # max_idx /\ f \in SeqFrames \cup {frm_end} /\ ~BadLength(f, n) /\ Orphan(k, f)
      /\ Become(TimeoutAll(Remove(Pool, k))) /\ Return("ErrorOrphan")
  BY DEF PushOrphan
<1>3. "ErrorOrphan" \in Results  BY DEF Results
<1>4. IInv' /\ Refused(Pool, Pool', k)  BY <1>1, <1>2, <1>3, RefusedCall
<1>5. rv' = "ErrorOrphan" /\ got' = <<>>  BY <1>2 DEF Return
<1>6. Abstract!Refuse(k, "ErrorOrphan")  BY <1>1, <1>4, <1>5, AbstractRefuse
<1>7. Abstract!Held < NumItems  BY <1>2, BlocksHeld
<1>8. Abstract!IsOrphan(k, f)
  <2>1. CASE Working(Pool, k) = {}
    <3>1. k \notin Abstract!Collecting  BY <1>1, <2>1, AbstractSets
    <3> QED  BY <3>1 DEF Abstract!IsOrphan
  <2>2. CASE Working(Pool, k) # {}
    <3>1. f \in SeqFrames /\ f \notin {trees[Min(Working(Pool, k))].frm, SeqBefore(trees[Min(Working(Pool, k))].frm)}
      BY <1>2, <2>2 DEF Orphan
    <3>2. f # Abstract!frm_end /\ f \notin {Abstract!Expected(k), Abstract!Previous(k)}
      BY <2>2, <3>1, ExpectedIs, SameFrames
    <3> QED  BY <3>2 DEF Abstract!IsOrphan
  <2> QED  BY <2>1, <2>2
<1>9. Abstract!Accept(k, f, d, n)
  <2>1. f \in Abstract!SeqFrames \cup {Abstract!frm_end}  BY <1>2, SameFrames
  <2> QED  BY <1>6, <1>8, <2>1 DEF Abstract!Accept
<1>10. ~Abstract!WrongLength(f, n)  BY <1>2, SameFrames
<1>11. AllNumbered(Pool')  BY <1>1, <1>4, FewerNumbered DEF Refused
<1>12. rv' \notin {"ErrorSlotsOverflow", "ErrorDLC"}  BY <1>5
<1> QED  BY <1>4, <1>5, <1>7, <1>9, <1>10, <1>11, <1>12 DEF Abstract!Push, RInv

\* A frame that a packet in progress takes.
LEMMA AbstractTaken ==
  ASSUME IInv, IInv', NEW k \in Keys, NEW t, NEW b, Placed(Pool, Pool', t, k, b, 0)
  PROVE  /\ [l \in Keys |-> Collected(Pool, l)]' = [[l \in Keys |-> Collected(Pool, l)] EXCEPT ![k] = b]
         /\ UNCHANGED [u \in Trees |-> Complete(Pool, u)]
<1> DEFINE p == Pool
           q == Pool'
<1>1. Good(p) /\ Good(q)  BY DEF IInv
<1>2. /\ \A l \in Keys : Collected(q, l) = IF l = k THEN b ELSE Collected(p, l)
      /\ \A u \in Trees : Complete(q, u) = Complete(p, u)
  BY <1>1, PlacedPackets
<1>3. [l \in Keys |-> Collected(Pool, l)]' = [l \in Keys |-> Collected(q, l)]  OBVIOUS
<1>4. [u \in Trees |-> Complete(Pool, u)]' = [u \in Trees |-> Complete(q, u)]  OBVIOUS
<1>5. [l \in Keys |-> Collected(q, l)] = [[l \in Keys |-> Collected(p, l)] EXCEPT ![k] = b]  BY <1>2
<1>6. [u \in Trees |-> Complete(q, u)] = [u \in Trees |-> Complete(p, u)]  BY <1>2
<1> QED  BY <1>3, <1>4, <1>5, <1>6

\* A frame that makes a packet complete.
LEMMA AbstractDelivered ==
  ASSUME IInv, IInv', NEW k \in Keys, NEW t, NEW b, NEW last, last # 0, Placed(Pool, Pool', t, k, b, last),
         rv' = "PacketAvailable"
  PROVE  Abstract!Deliver(k, [key |-> k, blocks |-> b, last |-> last])
<1> DEFINE p == Pool
           q == Pool'
           c == [key |-> k, blocks |-> b, last |-> last]
<1>1. Good(p) /\ Good(q)  BY DEF IInv
<1>2. \A l \in Keys : Collected(q, l) = IF l = k THEN <<>> ELSE Collected(p, l)
  BY <1>1, PlacedPackets
<1>3. \A u \in Trees : Complete(q, u) = IF u = t THEN c ELSE Complete(p, u)
  BY <1>1, PlacedPackets
<1>4. t \in Trees \ Abstract!Waiting  BY AbstractSets DEF Placed
<1>5. [u \in Trees |-> Complete(Pool, u)]' = [u \in Trees |-> Complete(q, u)]  OBVIOUS
<1>6. [u \in Trees |-> Complete(q, u)] = [[u \in Trees |-> Complete(p, u)] EXCEPT ![t] = c]
  BY <1>3, <1>4
<1>7. GivesUp(p, q, {k})  BY <1>2 DEF GivesUp
<1>8. Abstract!GiveUp({k})  BY <1>7, AbstractGiveUp
<1> HIDE DEF c
<1> QED  BY <1>4, <1>5, <1>6, <1>8 DEF Abstract!Deliver, c

\* A first frame.
LEMMA NewImplements ==
  ASSUME RInv, NEW k \in Keys, NEW f \in Frames, NEW d \in Blocks, NEW n \in Dlcs,
         PushNew(k, f, d, n), call' = <<"push", k, f, d, n>>
  PROVE  RInv' /\ Abstract!Push(k, f, d, n)
<1> DEFINE last == IF f = frm_start THEN 0 ELSE IF n > 0 THEN n ELSE ZeroLength
<1>1. IInv /\ AllNumbered(Pool) /\ Good(Pool)  BY DEF RInv, IInv
<1>2. /\ free # max_idx /\ f \in {frm_start, frm_single} /\ ~BadLength(f, n) /\ got' = <<>>
      /\ \/ Unused(Remove(Pool, k)) = {} /\ rv' = "ErrorTreeOverflow"
         \/ /\ Unused(Remove(Pool, k)) # {}
            /\ rv' = IF last = 0 THEN "MsgAccepted" ELSE "PacketAvailable"
  BY DEF PushNew, Return
<1>3. Abstract!Held < NumItems /\ ~Abstract!WrongLength(f, n)  BY <1>2, BlocksHeld, SameFrames
<1>4. n \in 0 .. 8 /\ (last = 0 <=> f = frm_start)  BY DataAssumption DEF ZeroLength
<1> HIDE DEF last
<1>5. /\ IInv'
      /\ \/ rv' = "ErrorTreeOverflow" /\ Refused(Pool, Pool', k)
         \/ /\ rv' \in {"MsgAccepted", "PacketAvailable"}
            /\ \E t : Begun(Pool, Pool', t, k, d, last)
  BY <1>1, NewCall DEF last
<1>6. CASE rv' = "ErrorTreeOverflow" /\ Refused(Pool, Pool', k)
  <2>1. Unused(Remove(Pool, k)) = {}  BY <1>2, <1>6
  <2>2. ~Abstract!PlaceLeft(k)  BY <2>1, PlacesTaken
  <2>3. Abstract!Refuse(k, "ErrorTreeOverflow")  BY <1>1, <1>5, <1>6, AbstractRefuse
  <2>4. Abstract!Accept(k, f, d, n)  BY <1>2, <2>2, <2>3, SameFrames DEF Abstract!Accept
  <2>5. AllNumbered(Pool')  BY <1>1, <1>6, FewerNumbered DEF Refused
  <2>6. rv' \notin {"ErrorSlotsOverflow", "ErrorDLC"}  BY <1>6
  <2> QED  BY <1>2, <1>3, <1>5, <2>4, <2>5, <2>6 DEF Abstract!Push, RInv
<1>7. CASE rv' \in {"MsgAccepted", "PacketAvailable"} /\ \E t : Begun(Pool, Pool', t, k, d, last)
  <2>1. PICK t : Begun(Pool, Pool', t, k, d, last)  BY <1>7
  <2>2. Placed(Pool, Pool', t, k, <<d>>, last)  BY <2>1, BegunPlaced
  <2>3. AllNumbered(Pool')  BY <1>1, <2>1, BegunNumbered
  <2>4. Abstract!PlaceLeft(k) /\ rv' = IF last = 0 THEN "MsgAccepted" ELSE "PacketAvailable"
    BY <1>2, <1>7, PlacesTaken
  <2>5. ASSUME f = frm_start PROVE Abstract!Accept(k, f, d, n)
    <3>1. last = 0  BY <1>4, <2>5
    <3>2. /\ [l \in Keys |-> Collected(Pool, l)]' = [[l \in Keys |-> Collected(Pool, l)] EXCEPT ![k] = <<d>>]
          /\ UNCHANGED [u \in Trees |-> Complete(Pool, u)]
      BY <1>1, <1>5, <2>2, <3>1, AbstractTaken
    <3>3. Abstract!Start(k, d)  BY <2>4, <3>1, <3>2 DEF Abstract!Start
    <3> QED  BY <2>5, <3>3, SameFrames DEF Abstract!Accept
  <2>6. ASSUME f = frm_single PROVE Abstract!Accept(k, f, d, n)
    <3>1. last # 0 /\ last = IF n = 0 THEN ZeroLength ELSE n
      <4>1. f # frm_start  BY <2>6, SameFrames
      <4> QED  BY <1>4, <4>1 DEF last
    <3>2. rv' = "PacketAvailable"  BY <2>4, <3>1
    <3>3. Abstract!Deliver(k, [key |-> k, blocks |-> <<d>>, last |-> last])
      BY <1>1, <1>5, <2>2, <3>1, <3>2, AbstractDelivered
    <3>4. Abstract!Packet(k, <<d>>, IF n = 0 THEN Abstract!ZeroLength ELSE n)
              = [key |-> k, blocks |-> <<d>>, last |-> last]
      BY <3>1, SameFrames DEF Abstract!Packet
    <3>5. Abstract!Single(k, d, n)  BY <2>4, <3>3, <3>4 DEF Abstract!Single
    <3> QED  BY <2>6, <3>5, SameFrames DEF Abstract!Accept
  <2>7. Abstract!Accept(k, f, d, n)  BY <1>2, <2>5, <2>6
  <2>8. rv' \notin {"ErrorSlotsOverflow", "ErrorDLC"}  BY <1>7
  <2> QED  BY <1>2, <1>3, <1>5, <2>3, <2>7, <2>8 DEF Abstract!Push, RInv
<1> QED  BY <1>5, <1>6, <1>7

\* A frame that continues a packet, or ends it.
LEMMA NextImplements ==
  ASSUME RInv, NEW k \in Keys, NEW f \in Frames, NEW d \in Blocks, NEW n \in Dlcs,
         PushNext(k, f, d, n), call' = <<"push", k, f, d, n>>
  PROVE  RInv' /\ Abstract!Push(k, f, d, n)
<1> DEFINE last == IF f = frm_end THEN n ELSE 0
<1>1. IInv /\ AllNumbered(Pool) /\ Good(Pool)  BY DEF RInv, IInv
<1>2. /\ free # max_idx /\ f \in SeqFrames \cup {frm_end} /\ ~BadLength(f, n) /\ got' = <<>>
      /\ Working(Pool, k) # {}
      /\ \/ f = trees[Min(Working(Pool, k))].frm /\ rv' = "MsgAccepted"
         \/ f = frm_end /\ rv' = "PacketAvailable"
  BY DEF PushNext, Return
<1>3. Abstract!Held < NumItems /\ ~Abstract!WrongLength(f, n)  BY <1>2, BlocksHeld, SameFrames
<1>4. n \in 0 .. 8 /\ last \in 0 .. 8 /\ (f = frm_end => n # 0)  BY <1>2, DataAssumption DEF BadLength
<1>5. /\ IInv' /\ \E t : Extended(Pool, Pool', t, k, d, last)
  <2>1. /\ IInv'
        /\ \E t : Extended(Pool, Pool', t, k, d, last) /\ (f # frm_end => f = trees[t].frm)
    BY <1>1, NextCall
  <2> QED  BY <2>1
<1>6. trees[Min(Working(Pool, k))].frm \in SeqFrames
  <2>1. PICK t : t = Min(Working(Pool, k)) /\ t \in Working(Pool, k)  BY <1>2, WorkingTree
  <2>2. t \in Trees /\ Pool.trees[t].dlc = 0 /\ Pool.trees = trees  BY <2>1 DEF Working, Partial, Used, Pool
  <2> QED  BY <1>1, <2>1, <2>2 DEF Good
<1> HIDE DEF last
<1>7. PICK t : Extended(Pool, Pool', t, k, d, last)  BY <1>5
<1>8. Placed(Pool, Pool', t, k, Append(Collected(Pool, k), d), last)  BY <1>1, <1>7, ExtendedPlaced
<1>9. AllNumbered(Pool')
  <2>1. WellFormed(Pool)  BY <1>1 DEF Good
  <2> QED  BY <1>1, <1>4, <1>7, <2>1, ExtendedNumbered
<1>10. [l \in Keys |-> Collected(Pool, l)][k] = Collected(Pool, k)  OBVIOUS
<1>11. CASE f # frm_end
  <2>1. last = 0 /\ rv' = "MsgAccepted" /\ f = trees[Min(Working(Pool, k))].frm  BY <1>2, <1>11 DEF last
  <2>2. k \in Abstract!Collecting /\ f = Abstract!Expected(k)  BY <1>2, <2>1, ExpectedIs
  <2>3. /\ [l \in Keys |-> Collected(Pool, l)]' =
               [[l \in Keys |-> Collected(Pool, l)] EXCEPT ![k] = Append(Collected(Pool, k), d)]
        /\ UNCHANGED [u \in Trees |-> Complete(Pool, u)]
    BY <1>1, <1>5, <1>8, <2>1, AbstractTaken
  <2>4. Abstract!Continue(k, f, d)  BY <1>10, <2>1, <2>2, <2>3 DEF Abstract!Continue
  <2>5. f \in Abstract!SeqFrames  BY <1>2, <1>11, SameFrames
  <2>6. Abstract!Accept(k, f, d, n)  BY <2>4, <2>5 DEF Abstract!Accept
  <2>7. rv' \notin {"ErrorSlotsOverflow", "ErrorDLC"}  BY <2>1
  <2> QED  BY <1>2, <1>3, <1>5, <1>9, <2>6, <2>7 DEF Abstract!Push, RInv
<1>12. CASE f = frm_end
  <2>1. last = n /\ last # 0 /\ rv' = "PacketAvailable"  BY <1>2, <1>4, <1>6, <1>12, SameFrames DEF last
  <2>2. k \in Abstract!Collecting  BY <1>2, ExpectedIs
  <2>3. Abstract!Deliver(k, [key |-> k, blocks |-> Append(Collected(Pool, k), d), last |-> last])
    BY <1>1, <1>5, <1>8, <2>1, AbstractDelivered
  <2>4. Abstract!Packet(k, Append([l \in Keys |-> Collected(Pool, l)][k], d), n)
            = [key |-> k, blocks |-> Append(Collected(Pool, k), d), last |-> last]
    BY <1>10, <2>1 DEF Abstract!Packet
  <2>5. Abstract!Complete(k, d, n)  BY <2>2, <2>3, <2>4 DEF Abstract!Complete
  <2>6. Abstract!Accept(k, f, d, n)  BY <1>12, <2>5, SameFrames DEF Abstract!Accept
  <2>7. rv' \notin {"ErrorSlotsOverflow", "ErrorDLC"}  BY <2>1
  <2> QED  BY <1>2, <1>3, <1>5, <1>9, <2>6, <2>7 DEF Abstract!Push, RInv
<1> QED  BY <1>11, <1>12

\* read_packet copies a packet that fits the buffer whole, and the beginning of any
\* other one.
LEMMA CopyDelivered ==
  ASSUME NEW p, Good(p), AllNumbered(p), NEW t \in Finished(p), NEW sz \in Nat \ {0, 1}
  PROVE  Abstract!Delivered(Complete(p, t), sz, Copy(p, t, sz))
<1> DEFINE c    == Copy(p, t, sz)
           pkt  == Complete(p, t)
<1> SUFFICES Abstract!Delivered(pkt, sz, c)  OBVIOUS
<1>1. PICK body : body = Body(p, t)  OBVIOUS
<1>2. PICK last : last = p.trees[t].dlc  OBVIOUS
<1>3. /\ body \in Seq(Blocks) /\ Len(body) \in Nat \ {0} /\ last \in 1 .. 8 \cup {ZeroLength}
      /\ c.key = p.trees[t].key
      /\ \E full \in Nat, fits \in BOOLEAN : CopyOf(c, body, Len(body), last, sz, full, fits)
  BY <1>1, <1>2, CopyIs DEF Good
<1>4. pkt = [key |-> p.trees[t].key, blocks |-> body, last |-> last]  BY <1>1, <1>2 DEF Complete
<1>5. t \in Used(p)  BY DEF Finished
<1>6. last = ZeroLength => Len(body) = 1  BY <1>1, <1>2, <1>5 DEF AllNumbered, Numbered
<1> HIDE DEF c, pkt
<1>7. PICK n \in Nat : n = Len(body) /\ n > 0  BY <1>3
<1>8. PICK full \in Nat, fits \in BOOLEAN : CopyOf(c, body, n, last, sz, full, fits)  BY <1>3, <1>7
<1>9. /\ full \in 0 .. n - 1 /\ 8 * full + 2 <= sz /\ (full < n - 1 => sz < 8 * full + 10)
      /\ (fits <=> full = n - 1 /\ last \in 1 .. 8 /\ 2 + 8 * full + last <= sz)
      /\ c.size = 2 + 8 * full + (IF fits THEN last ELSE 0)
      /\ c.blocks = SubSeq(body, 1, IF fits THEN n ELSE full)
  BY <1>8 DEF CopyOf
<1>10. Abstract!Size(pkt) = 2 + 8 * (n - 1) + (IF last = ZeroLength THEN 0 ELSE last)
  BY <1>4, <1>7, SameFrames DEF Abstract!Size
<1>11. ZeroLength \notin 1 .. 8 /\ (IF last = ZeroLength THEN 0 ELSE last) \in 0 .. 8  BY <1>3 DEF ZeroLength
<1>12. c.key = pkt.key /\ pkt.last = last /\ pkt.blocks = body  BY <1>3, <1>4
<1>13. CASE fits
  <2>1. full = n - 1 /\ last \in 1 .. 8 /\ 2 + 8 * full + last <= sz /\ last # ZeroLength
    BY <1>9, <1>11, <1>13
  <2>2. Abstract!Size(pkt) = 2 + 8 * (n - 1) + last /\ c.size = 2 + 8 * (n - 1) + last
    BY <1>9, <1>10, <1>13, <2>1
  <2>3. c.size <= sz /\ Abstract!Size(pkt) <= sz /\ c.size = Abstract!Size(pkt)  BY <2>1, <2>2
  <2>4. c.blocks = body  BY <1>3, <1>7, <1>9, <1>13
  <2> QED  BY <1>12, <2>1, <2>3, <2>4, SameFrames DEF Abstract!Delivered
<1>14. CASE last = ZeroLength
  <2>1. n = 1 /\ ~fits /\ full = 0  BY <1>6, <1>7, <1>9, <1>11, <1>14
  <2>2. c.size = 2 /\ Abstract!Size(pkt) = 2 /\ c.blocks = SubSeq(body, 1, 0)
    BY <1>9, <1>10, <1>14, <2>1
  <2>3. c.blocks = <<>>  BY <1>3, <2>2
  <2>4. c.size <= sz /\ Abstract!Size(pkt) <= sz /\ c.size = Abstract!Size(pkt)  BY <2>2
  <2> QED  BY <1>12, <1>14, <2>3, <2>4, SameFrames DEF Abstract!Delivered
<1>15. CASE ~fits /\ last # ZeroLength
  <2>1. last \in 1 .. 8  BY <1>3, <1>15
  <2>2. c.size = 2 + 8 * full /\ c.blocks = SubSeq(body, 1, full)  BY <1>9, <1>15
  <2>3. Abstract!Size(pkt) = 2 + 8 * (n - 1) + last  BY <1>10, <1>15
  <2>4. sz < 2 + 8 * (n - 1) + last
    <3>1. CASE full < n - 1  BY <1>7, <1>9, <2>1, <3>1
    <3>2. CASE full = n - 1  BY <1>7, <1>9, <1>15, <2>1, <3>2
    <3> QED  BY <1>7, <1>9, <3>1, <3>2
  <2>5. c.size <= sz /\ ~(Abstract!Size(pkt) <= sz) /\ c.size < Abstract!Size(pkt)
    BY <1>7, <1>9, <2>1, <2>2, <2>3, <2>4
  <2>6. Len(c.blocks) = full  BY <1>3, <1>7, <1>9, <2>2, SubSeqProperties
  <2> QED  BY <1>12, <2>2, <2>5, <2>6 DEF Abstract!Delivered
<1> QED  BY <1>3, <1>9, <1>13, <1>14, <1>15

\* read_packet.
LEMMA ReadImplements ==
  ASSUME RInv, NEW sz \in DestSizes, ReadPacket(sz) \/ ReadNothing, call' = <<"read", sz>>
  PROVE  RInv' /\ Abstract!Read(sz)
<1>1. IInv /\ AllNumbered(Pool) /\ Good(Pool)  BY DEF RInv, IInv
<1>2. Abstract!Waiting = Finished(Pool)  BY <1>1, AbstractSets
<1>3. CASE ReadNothing
  <2>1. Pool' = Pool /\ rv' = "-" /\ got' = <<>> /\ Finished(Pool) = {}
    BY <1>3 DEF ReadNothing, Return, Pool
  <2>2. RInv'  BY <1>1, <2>1 DEF RInv, IInv, Results
  <2>3. UNCHANGED <<[l \in Keys |-> Collected(Pool, l)], [t \in Trees |-> Complete(Pool, t)]>>  BY <2>1
  <2> QED  BY <1>2, <2>1, <2>2, <2>3 DEF Abstract!Read
<1>4. CASE ReadPacket(sz)
  <2> DEFINE p == Pool
             q == Pool'
  <2>1. rv' = "-"  BY <1>4 DEF ReadPacket
  <2>2. PICK t \in Finished(p) : /\ IInv' /\ got' = <<Copy(p, t, sz)>>
                                 /\ Used(Pool)' = Used(p) \ {t}
                                 /\ \A u \in Used(p) \ {t} : Same(p, q, u)
    BY <1>1, <1>4, ReadCall
  <2>3. Used(q) = Used(p) \ {t} /\ Good(q)  BY <2>2 DEF IInv
  <2>4. AllNumbered(Pool')  BY <1>1, <2>2, <2>3, FewerNumbered
  <2>5. \A u \in Trees : Complete(q, u) = IF u = t THEN Abstract!NoPacket ELSE Complete(p, u)
    <3> SUFFICES ASSUME NEW u \in Trees
                 PROVE  Complete(q, u) = IF u = t THEN Abstract!NoPacket ELSE Complete(p, u)
      OBVIOUS
    <3>1. CASE u = t
      <4>1. t \notin Finished(q)  BY <2>3 DEF Finished
      <4> QED  BY <2>3, <3>1, <4>1, CompleteIs
    <3>2. CASE u # t /\ u \in Used(p)
      <4>1. Same(p, q, u)  BY <2>2, <3>2
      <4> QED  BY <1>1, <2>3, <3>2, <4>1, SamePacket
    <3>3. CASE u # t /\ u \notin Used(p)
      <4>1. u \notin Finished(p) /\ u \notin Finished(q)  BY <2>3, <3>3 DEF Finished
      <4> QED  BY <1>1, <2>3, <3>3, <4>1, CompleteIs
    <3> QED  BY <3>1, <3>2, <3>3
  <2>6. \A l \in Keys : Collected(q, l) = Collected(p, l)
    <3> SUFFICES ASSUME NEW l \in Keys PROVE Collected(q, l) = Collected(p, l)  OBVIOUS
    <3>1. CASE \E u : u \in Working(p, l)
      <4>1. PICK u : u \in Working(p, l)  BY <3>1
      <4>2. u \in Used(p) \ {t}  BY <2>2, <4>1 DEF Working, Partial, Finished
      <4>3. Same(p, q, u)  BY <2>2, <4>2
      <4> QED  BY <1>1, <2>3, <4>1, <4>3, SamePacket
    <3>2. CASE Working(p, l) = {}
      <4>1. Working(q, l) = {}
        <5>1. SUFFICES ASSUME NEW u \in Working(q, l) PROVE FALSE  OBVIOUS
        <5>2. u \in Used(p) \ {t}  BY <2>3, <5>1 DEF Working, Partial
        <5>3. Same(p, q, u)  BY <2>2, <5>2
        <5> QED  BY <3>2, <5>1, <5>3, SameKind
      <4> QED  BY <1>1, <2>3, <3>2, <4>1, CollectedIs
    <3> QED  BY <3>1, <3>2
  <2>7. t \in Trees  BY <2>2 DEF Finished, Used
  <2>8. [u \in Trees |-> Complete(Pool, u)]' =
            [[u \in Trees |-> Complete(Pool, u)] EXCEPT ![t] = Abstract!NoPacket]
    <3>1. [u \in Trees |-> Complete(Pool, u)]' = [u \in Trees |-> Complete(q, u)]  OBVIOUS
    <3>2. [u \in Trees |-> Complete(q, u)] = [[u \in Trees |-> Complete(p, u)] EXCEPT ![t] = Abstract!NoPacket]
      BY <2>5, <2>7
    <3> QED  BY <3>1, <3>2
  <2>9. UNCHANGED [l \in Keys |-> Collected(Pool, l)]
    <3>1. [l \in Keys |-> Collected(Pool, l)]' = [l \in Keys |-> Collected(q, l)]  OBVIOUS
    <3>2. [l \in Keys |-> Collected(q, l)] = [l \in Keys |-> Collected(p, l)]  BY <2>6
    <3> QED  BY <3>1, <3>2
  <2>10. Abstract!Delivered([u \in Trees |-> Complete(Pool, u)][t], sz, got'[1]) /\ Len(got') = 1
    <3>1. sz \in Nat \ {0, 1}  BY DataAssumption
    <3>2. Abstract!Delivered(Complete(p, t), sz, Copy(p, t, sz))  BY <1>1, <2>2, <3>1, CopyDelivered
    <3>3. got'[1] = Copy(p, t, sz) /\ Len(got') = 1  BY <2>2
    <3>4. [u \in Trees |-> Complete(Pool, u)][t] = Complete(p, t)  BY <2>7
    <3> QED  BY <3>2, <3>3, <3>4
  <2> HIDE DEF p, q
  <2>11. t \in Abstract!Waiting  BY <1>2, <2>2 DEF p
  <2>12. Abstract!Read(sz)  BY <2>1, <2>8, <2>9, <2>10, <2>11 DEF Abstract!Read
  <2> QED  BY <2>2, <2>4, <2>12 DEF RInv
<1> QED  BY <1>3, <1>4

\* timeout.
LEMMA TimeoutImplements ==
  ASSUME RInv, TimeoutCall, call' = <<"timeout">>
  PROVE  RInv' /\ Abstract!TimeoutCall
<1> DEFINE p == Pool
           q == TimeoutAll(p)
<1>1. IInv /\ AllNumbered(p) /\ Good(p)  BY DEF RInv, IInv
<1>2. Good(q)  BY <1>1, TimeoutGood
<1>3. Become(q) /\ rv' = "-" /\ got' = <<>>  BY DEF TimeoutCall, Return
<1>4. Pool' = q  BY <1>2, <1>3, BecomePool DEF Good, WellFormed
<1>5. Used(q) = Used(p) \ Expired(p) /\ \A t \in Used(p) \ Expired(p) : Same(p, q, t)
  BY <1>1, TimeoutSame
<1>6. \A t \in Used(q) : Same(p, q, t)  BY <1>5
<1>7. \A t \in Finished(p) : Same(p, q, t)  BY <1>5 DEF Finished, Expired
<1> HIDE DEF p, q
<1>8. Stays(p, q) /\ \E L \in SUBSET KeysOf(p) : GivesUp(p, q, L)  BY <1>1, <1>2, <1>6, <1>7, Fewer
<1>9. PICK L \in SUBSET KeysOf(p) : GivesUp(p, q, L)  BY <1>8
<1>10. Abstract!GiveUp(L)  BY <1>4, <1>9, AbstractGiveUp DEF p
<1>11. UNCHANGED [t \in Trees |-> Complete(Pool, t)]  BY <1>4, <1>8, AbstractStays DEF p
<1>12. L \in SUBSET Abstract!Collecting  BY <1>1, <1>9, AbstractSets DEF KeysOf, p
<1>13. RInv'
  <2>1. AllNumbered(q)  BY <1>1, <1>6, FewerNumbered
  <2> QED  BY <1>2, <1>3, <1>4, <2>1 DEF RInv, IInv, Results
<1> QED  BY <1>3, <1>10, <1>11, <1>12, <1>13 DEF Abstract!TimeoutCall

\* An empty pool.
LEMMA InitImplements ==
  ASSUME RInit
  PROVE  RInv /\ Abstract!Init
<1>1. Init /\ call = <<"init">>  BY DEF RInit
<1>2. IInv  BY <1>1, InitGood
<1>3. Used(Pool) = {}  BY <1>1 DEF Init, Used, Pool
<1>4. AllNumbered(Pool)  BY <1>3 DEF AllNumbered
<1>5. \A k \in Keys : Working(Pool, k) = {} /\ Collected(Pool, k) = <<>>
  BY <1>3 DEF Working, Partial, Collected
<1>6. Finished(Pool) = {}  BY <1>3 DEF Finished
<1>7. \A t \in Trees : Complete(Pool, t) = Abstract!NoPacket  BY <1>2, <1>6, CompleteIs DEF IInv
<1>8. rv = "-" /\ got = <<>>  BY <1>1 DEF Init
<1> QED  BY <1>1, <1>2, <1>4, <1>5, <1>7, <1>8 DEF RInv, Abstract!Init

\* Every call is the call of PacketPool with the same arguments and results.
LEMMA StepImplements ==
  ASSUME RInv, [RNext]_rvars
  PROVE  RInv' /\ [Abstract!Next]_(Abstract!vars)
<1>1. ASSUME NEW k \in Keys, NEW f \in Frames, NEW d \in Blocks, NEW n \in Dlcs, RPush(k, f, d, n)
      PROVE  RInv' /\ Abstract!Next
  <2>1. Push(k, f, d, n) /\ call' = <<"push", k, f, d, n>>  BY <1>1 DEF RPush
  <2>2. RInv' /\ Abstract!Push(k, f, d, n)
    BY <2>1, OverflowImplements, NothingImplements, NewImplements, OrphanImplements, NextImplements
       DEF Push
  <2> QED  BY <2>2, SameFrames DEF Abstract!Next
<1>2. ASSUME NEW sz \in DestSizes, RRead(sz)
      PROVE  RInv' /\ Abstract!Next
  <2>1. RInv' /\ Abstract!Read(sz)  BY <1>2, ReadImplements DEF RRead
  <2> QED  BY <2>1 DEF Abstract!Next
<1>3. ASSUME RTimeout
      PROVE  RInv' /\ Abstract!Next
  <2>1. RInv' /\ Abstract!TimeoutCall  BY <1>3, TimeoutImplements DEF RTimeout
  <2> QED  BY <2>1 DEF Abstract!Next
<1>4. CASE UNCHANGED rvars
  <2>1. UNCHANGED <<call, rv, got>> /\ Pool' = Pool  BY <1>4 DEF rvars, vars, Pool
  <2>2. RInv'  BY <2>1 DEF RInv, IInv
  <2>3. UNCHANGED Abstract!vars  BY <2>1 DEF Abstract!vars
  <2> QED  BY <2>2, <2>3
<1> QED  BY <1>1, <1>2, <1>3, <1>4 DEF RNext

\* CanPool implements PacketPool for all sizes of its arrays, all keys and contents of
\* frames and all buffers: push takes, repeats, refuses and orphans exactly the frames
\* that the packets collected so far call for, it refuses for want of memory only when
\* the packets fill all items or all trees, and read_packet returns what was collected.
THEOREM PoolImplements == RSpec => ImplementsPacketPool
<1>1. RInit => RInv /\ Abstract!Init  BY InitImplements
<1>2. RInv /\ [RNext]_rvars => RInv' /\ [Abstract!Next]_(Abstract!vars)  BY StepImplements
<1> QED  BY <1>1, <1>2, PTL DEF RSpec, ImplementsPacketPool, Abstract!Spec

-----------------------------------------------------------------------------
(* Packets in progress and their countdowns                                *)

\* What is gone of a countdown are the timeout()s since the last frame.
Counting(p, count) ==
    \A t \in Partial(p) : p.trees[t].key \in Keys => count[p.trees[t].key] + p.trees[t].to = Timeout

\* The inductive invariant.
HInv == IInv /\ idle \in [Keys -> Nat] /\ Counting(Pool, idle)

\* Of the partial trees of p those in R are removed; the others stay, and no other
\* tree becomes one.
Leaves(p, q, R) ==
    /\ Partial(q) = Partial(p) \ R
    /\ \A t \in Partial(q) : q.trees[t] = p.trees[t]

\* The partial trees of p are counted down; only those in R and those that have
\* reached zero are removed.
Counted(p, q, R) ==
    /\ Partial(q) \subseteq Partial(p)
    /\ \A t \in Partial(q) : q.trees[t].key = p.trees[t].key /\ q.trees[t].to = p.trees[t].to - 1
    /\ \A t \in Partial(p) \ R : t \in Partial(q) \/ p.trees[t].to = 0

-----------------------------------------------------------------------------
(* The private functions of the pool                                       *)

\* A good pool has its types.
LEMMA GoodTypes ==
  ASSUME NEW p, Good(p)
  PROVE  /\ p \in PoolType /\ Partial(p) \subseteq Trees /\ Timeout \in Nat
         /\ \A t \in Trees : p.trees[t] \in Tree /\ p.trees[t].to \in 0 .. Timeout
<1>1. p \in PoolType  BY DEF Good, WellFormed
<1> QED  BY <1>1, SizesAssumption DEF PoolType, Tree, Partial, Used

\* remove(extid) removes the partial trees of its key.
LEMMA RemoveLeaves ==
  ASSUME NEW p, Good(p), NEW k
  PROVE  Good(Remove(p, k)) /\ Leaves(p, Remove(p, k), Working(p, k))
<1>1. Working(p, k) \in SUBSET Partial(p)  BY DEF Working
<1>2. Partial(p) \subseteq Trees  BY GoodTypes
<1> QED  BY <1>1, <1>2, ReleaseGood, RemoveGood DEF Remove, Leaves

\* timeout() counts down.
LEMMA TimeoutCounts ==
  ASSUME NEW p, Good(p)
  PROVE  Good(TimeoutAll(p)) /\ Counted(p, TimeoutAll(p), {})
<1> DEFINE R == Expired(p)
           q == Release(p, R)
           r == TimeoutAll(p)
<1>1. R \in SUBSET Partial(p)  BY DEF Expired
<1>2. Good(q) /\ Partial(q) = Partial(p) \ R /\ \A t \in Trees \ R : q.trees[t] = p.trees[t]
  BY <1>1, ReleaseGood
<1>3. r.trees = [t \in Trees |-> IF t \in Partial(q) THEN [q.trees[t] EXCEPT !.to = @ - 1] ELSE q.trees[t]]
  <2>1. q \in PoolType  BY <1>2, GoodTypes
  <2> QED  BY <2>1 DEF TimeoutAll, PoolType
<1> HIDE DEF q, R, r
<1>4. \A t \in Trees : q.trees[t] \in Tree  BY <1>2, GoodTypes
<1>5. \A t \in Trees : r.trees[t].head = q.trees[t].head /\ r.trees[t].dlc = q.trees[t].dlc
                       /\ r.trees[t].key = q.trees[t].key
  BY <1>3, <1>4 DEF Tree
<1>6. Partial(r) = Partial(q)  BY <1>5 DEF Partial, Used
<1>7. \A t \in Partial(q) : t \in Trees /\ r.trees[t].to = q.trees[t].to - 1
  BY <1>2, <1>3, <1>4, GoodTypes DEF Tree
<1>8. \A t \in Partial(p) : t \in R => p.trees[t].to = 0  BY DEF Expired, R
<1>9. Counted(p, r, {})  BY <1>2, <1>5, <1>6, <1>7, <1>8 DEF Counted
<1> QED  BY <1>9, TimeoutGood DEF r

\* A timeout and a removal, in either order.
LEMMA TimeoutRemoveCounts ==
  ASSUME NEW p, Good(p), NEW k
  PROVE  /\ Good(Remove(TimeoutAll(p), k)) /\ Counted(p, Remove(TimeoutAll(p), k), Working(p, k))
         /\ Good(TimeoutAll(Remove(p, k))) /\ Counted(p, TimeoutAll(Remove(p, k)), Working(p, k))
<1>1. ASSUME NEW q, NEW r, Counted(p, q, {}), Leaves(q, r, Working(q, k))
      PROVE  Counted(p, r, Working(p, k))
  BY <1>1 DEF Counted, Leaves, Working
<1>2. ASSUME NEW q, NEW r, Leaves(p, q, Working(p, k)), Counted(q, r, {})
      PROVE  Counted(p, r, Working(p, k))
  BY <1>2 DEF Counted, Leaves
<1>3. Good(TimeoutAll(p)) /\ Counted(p, TimeoutAll(p), {})  BY TimeoutCounts
<1>4. /\ Good(Remove(TimeoutAll(p), k))
      /\ Leaves(TimeoutAll(p), Remove(TimeoutAll(p), k), Working(TimeoutAll(p), k))
  BY <1>3, RemoveLeaves
<1>5. Good(Remove(p, k)) /\ Leaves(p, Remove(p, k), Working(p, k))  BY RemoveLeaves
<1>6. /\ Good(TimeoutAll(Remove(p, k)))
      /\ Counted(Remove(p, k), TimeoutAll(Remove(p, k)), {})
  BY <1>5, TimeoutCounts
<1> QED  BY <1>1, <1>2, <1>3, <1>4, <1>5, <1>6

\* A tree begins or goes on with a full countdown; the other partial trees stay.
LEMMA BeginCounts ==
  ASSUME NEW p, Good(p), NEW t \in Trees, NEW k \in Keys, NEW d, NEW last
  PROVE  LET q == Begin(p, t, k, d, last)
         IN  /\ \A u \in Trees \ {t} : q.trees[u] = p.trees[u]
             /\ q.trees[t].key = k /\ q.trees[t].to = Timeout
             /\ Partial(q) \ {t} = Partial(p) \ {t}
<1> DEFINE q == Begin(p, t, k, d, last)
<1>1. \A u \in Trees \ {t} : q.trees[u] = p.trees[u]
  BY GoodTypes DEF Begin, Take, PoolType
<1>2. q.trees[t].key = k /\ q.trees[t].to = Timeout
  BY GoodTypes DEF Begin, Take, PoolType
<1> HIDE DEF q
<1>3. Partial(q) \ {t} = Partial(p) \ {t}  BY <1>1 DEF Partial, Used
<1> QED  BY <1>1, <1>2, <1>3 DEF q

\* The next frame of a packet.
LEMMA ExtendCounts ==
  ASSUME NEW p, Good(p), NEW t \in Partial(p), NEW d, NEW last
  PROVE  LET q == Extend(p, t, d, last)
         IN  /\ \A u \in Trees \ {t} : q.trees[u] = p.trees[u]
             /\ q.trees[t].key = p.trees[t].key /\ q.trees[t].to = Timeout
             /\ Partial(q) \ {t} = Partial(p) \ {t}
<1> DEFINE q == Extend(p, t, d, last)
<1>1. t \in Trees /\ p.trees[t] \in Tree  BY GoodTypes
<1>2. \A u \in Trees \ {t} : q.trees[u] = p.trees[u]
  BY GoodTypes DEF Extend, Take, PoolType
<1>3. q.trees[t].key = p.trees[t].key /\ q.trees[t].to = Timeout
  BY <1>1, GoodTypes DEF Extend, Take, PoolType, Tree
<1> HIDE DEF q
<1>4. Partial(q) \ {t} = Partial(p) \ {t}  BY <1>2 DEF Partial, Used
<1> QED  BY <1>2, <1>3, <1>4 DEF q

-----------------------------------------------------------------------------
(* Steps                                                                   *)

\* The pool of the next state is what the private functions made of it.
LEMMA NextPool ==
  ASSUME NEW q, Good(q), Become(q)
  PROVE  /\ Pool' = q /\ Partial(Pool)' = Partial(q)
         /\ \A k : Working(Pool, k)' = Working(q, k)
<1>1. Pool' = q  BY BecomePool, GoodTypes
<1> QED  BY <1>1 DEF Partial, Used, Working

\* The steps of the history are those of the pool.
LEMMA HistorySteps == HNext => Next
<1>1. HTimeout => Next  BY DEF HTimeout, Next
<1>2. HAccept => Next  BY DEF HAccept, Next
<1>3. HOther => Next  BY DEF HOther, Next
<1> QED  BY <1>1, <1>2, <1>3 DEF HNext

\* A call that counts down: what it does to the pool, but for the packets in
\* progress of the key of its frame.
LEMMA CountingCall ==
  ASSUME HInv, HTimeout
  PROVE  \E R : /\ Counted(Pool, Pool', R) /\ Partial(Pool)' = Partial(Pool')
                /\ \A k : Working(Pool, k)' = Working(Pool', k)
                /\ R = {} \/ \E k \in Keys : R = Working(Pool, k) /\ about' = {k}
<1>1. Good(Pool)  BY DEF HInv, IInv
<1>2. CASE TimeoutCall
  <2>1. Become(TimeoutAll(Pool))  BY <1>2 DEF TimeoutCall
  <2> QED  BY <1>1, <2>1, TimeoutCounts, NextPool
<1>3. ASSUME NEW k \in Keys, NEW f \in Frames, NEW d \in Blocks, NEW n \in Dlcs, about' = {k},
             PushOverflow(k) \/ PushOrphan(k, f, n) \/ (PushNew(k, f, d, n) /\ rv' = "ErrorTreeOverflow")
      PROVE  /\ Counted(Pool, Pool', Working(Pool, k)) /\ Partial(Pool)' = Partial(Pool')
             /\ \A j : Working(Pool, j)' = Working(Pool', j)
  <2>1. Become(Remove(TimeoutAll(Pool), k)) \/ Become(TimeoutAll(Remove(Pool, k)))
    <3>1. CASE PushOverflow(k)  BY <3>1 DEF PushOverflow
    <3>2. CASE PushOrphan(k, f, n)  BY <3>2 DEF PushOrphan
    <3>3. CASE PushNew(k, f, d, n) /\ rv' = "ErrorTreeOverflow"
      BY <3>3 DEF PushNew, Return
    <3> QED  BY <1>3, <3>1, <3>2, <3>3
  <2> QED  BY <1>1, <2>1, TimeoutRemoveCounts, NextPool
<1> QED  BY <1>2, <1>3 DEF HTimeout

\* A frame that a tree takes: the one of its key, and no other one has it.
LEMMA AcceptingCall ==
  ASSUME HInv, HAccept
  PROVE  \E k \in Keys : \E t \in Trees :
            /\ idle' = [idle EXCEPT ![k] = 0] /\ about' = {k}
            /\ trees'[t].key = k /\ trees'[t].to = Timeout
            /\ \A u \in Partial(Pool)' : u # t => u \in Partial(Pool) /\ trees'[u] = trees[u] /\ trees[u].key # k
            /\ \A u \in Partial(Pool) : trees[u].key # k => u \in Partial(Pool)' /\ trees'[u] = trees[u]
<1> DEFINE p == Pool
<1>1. Good(p) /\ p.trees = trees /\ p.free = free  BY DEF HInv, IInv, Pool
<1>2. PICK k \in Keys, f \in Frames, d \in Blocks, n \in Dlcs :
         /\ PushNew(k, f, d, n) \/ PushNext(k, f, d, n)
         /\ rv' # "ErrorTreeOverflow"
         /\ idle' = [idle EXCEPT ![k] = 0] /\ about' = {k}
  BY DEF HAccept
<1>3. CASE PushNew(k, f, d, n)
  <2> DEFINE last == IF f = frm_start THEN 0 ELSE IF n > 0 THEN n ELSE ZeroLength
             r    == Remove(p, k)
             t    == Min(Unused(r))
             q    == Begin(r, t, k, d, last)
  <2>1. Unused(r) # {} /\ Become(q) /\ free # max_idx
    BY <1>2, <1>3 DEF PushNew, Return
  <2>2. /\ Good(r) /\ Partial(r) = Partial(p) \ Working(p, k) /\ r.free # max_idx
        /\ \A u \in Partial(r) : r.trees[u] = p.trees[u]
    BY <1>1, <2>1, RemoveLeaves, RemoveGood DEF Leaves
  <2>3. t \in Unused(r) /\ t \in Trees
    <3>1. Unused(r) \in SUBSET Nat  BY SizesAssumption DEF Unused, Trees
    <3> QED  BY <2>1, <3>1, MinIsLeast DEF Unused
  <2>4. last \in 0 .. 8 \cup {ZeroLength}  BY DataAssumption
  <2>5. Working(r, k) = {}  BY <1>1, RemoveGood
  <2> HIDE DEF p, last, t, r
  <2>6. Good(q)  BY <2>2, <2>3, <2>4, <2>5, BeginGood
  <2>7. /\ \A u \in Trees \ {t} : q.trees[u] = r.trees[u]
        /\ q.trees[t].key = k /\ q.trees[t].to = Timeout
        /\ Partial(q) \ {t} = Partial(r) \ {t}
    BY <2>2, <2>3, BeginCounts
  <2> HIDE DEF q
  <2>8. Pool' = q /\ Partial(Pool)' = Partial(q) /\ trees' = q.trees
    BY <2>1, <2>6, NextPool DEF Become
  <2>9. Partial(p) = Partial(Pool) /\ Working(p, k) = {u \in Partial(p) : trees[u].key = k}
        /\ Partial(r) \subseteq Trees
    BY <1>1, <2>2, GoodTypes DEF p, Working
  <2>10. t \notin Partial(r)  BY <2>3 DEF Unused, Partial
  <2>11. /\ \A u \in Partial(r) : u \in Trees \ {t} /\ u \in Partial(p) /\ trees[u].key # k
         /\ \A u \in Partial(p) : trees[u].key # k => u \in Partial(r)
    BY <2>2, <2>9, <2>10
  <2>12. /\ \A u \in Partial(q) : u # t => u \in Partial(p) /\ q.trees[u] = trees[u] /\ trees[u].key # k
         /\ \A u \in Partial(p) : trees[u].key # k => u \in Partial(q) /\ q.trees[u] = trees[u]
    BY <1>1, <2>2, <2>7, <2>11
  <2>13. /\ trees'[t].key = k /\ trees'[t].to = Timeout
         /\ \A u \in Partial(Pool)' : u # t => u \in Partial(Pool) /\ trees'[u] = trees[u] /\ trees[u].key # k
         /\ \A u \in Partial(Pool) : trees[u].key # k => u \in Partial(Pool)' /\ trees'[u] = trees[u]
    BY <2>7, <2>8, <2>9, <2>12
  <2> QED  BY <1>2, <2>3, <2>13
<1>4. CASE PushNext(k, f, d, n)
  <2> DEFINE t == Min(Working(p, k))
  <2>1. free # max_idx /\ Working(p, k) # {}  BY <1>4 DEF PushNext
  <2>2. t \in Working(p, k) /\ t \in Partial(p) /\ t \in Trees /\ trees[t].key = k
    <3> HIDE DEF p
    <3>1. t \in Working(p, k) /\ t \in Partial(p)  BY <2>1, WorkingTree DEF p
    <3> HIDE DEF t
    <3>2. t \in Trees  BY <1>1, <3>1, GoodTypes
    <3>3. p.trees[t].key = k  BY <3>1 DEF Working
    <3> QED  BY <1>1, <3>1, <3>2, <3>3
  <2>3. PICK last \in 0 .. 8 : Become(Extend(p, t, d, last))
    BY <1>4, DataAssumption DEF PushNext
  <2> DEFINE q == Extend(p, t, d, last)
  <2> HIDE DEF p, t
  <2>4. Good(q)  BY <1>1, <2>1, <2>2, ExtendGood
  <2>5. /\ \A u \in Trees \ {t} : q.trees[u] = p.trees[u]
        /\ q.trees[t].key = p.trees[t].key /\ q.trees[t].to = Timeout
        /\ Partial(q) \ {t} = Partial(p) \ {t}
    BY <1>1, <2>2, ExtendCounts
  <2>6. Become(q)  BY <2>3
  <2> HIDE DEF q
  <2>7. Pool' = q /\ Partial(Pool)' = Partial(q) /\ trees' = q.trees
    BY <2>4, <2>6, NextPool DEF Become
  <2>8. Partial(p) = Partial(Pool) /\ Partial(p) \subseteq Trees  BY <1>1, GoodTypes DEF p
  <2>9. \A u \in Partial(p) : trees[u].key = k => u = t  BY <1>1, <2>2 DEF Good
  <2>10. \A u \in Partial(q) : u # t => u \in Partial(p) /\ u \in Trees \ {t}  BY <2>5, <2>8
  <2>11. \A u \in Partial(p) : u # t => u \in Partial(q) /\ u \in Trees \ {t}  BY <2>5, <2>8
  <2>12. /\ \A u \in Partial(q) : u # t => u \in Partial(p) /\ q.trees[u] = trees[u] /\ trees[u].key # k
         /\ \A u \in Partial(p) : trees[u].key # k => u \in Partial(q) /\ q.trees[u] = trees[u]
    BY <1>1, <2>2, <2>5, <2>9, <2>10, <2>11
  <2>13. /\ trees'[t].key = k /\ trees'[t].to = Timeout
         /\ \A u \in Partial(Pool)' : u # t => u \in Partial(Pool) /\ trees'[u] = trees[u] /\ trees[u].key # k
         /\ \A u \in Partial(Pool) : trees[u].key # k => u \in Partial(Pool)' /\ trees'[u] = trees[u]
    BY <1>1, <2>2, <2>5, <2>7, <2>8, <2>12
  <2> QED  BY <1>2, <2>2, <2>13
<1> QED  BY <1>2, <1>3, <1>4

\* The other calls leave the packets in progress alone.
LEMMA OtherCall ==
  ASSUME HInv, HOther
  PROVE  /\ UNCHANGED idle /\ Partial(Pool)' = Partial(Pool)
         /\ \A u \in Partial(Pool) : trees'[u] = trees[u]
<1>1. UNCHANGED idle  BY DEF HOther
<1>2. ASSUME UNCHANGED trees
      PROVE  Partial(Pool)' = Partial(Pool) /\ \A u \in Partial(Pool) : trees'[u] = trees[u]
  BY <1>2 DEF Partial, Used, Pool
<1>3. ASSUME NEW sz \in DestSizes, ReadPacket(sz)
      PROVE  Partial(Pool)' = Partial(Pool) /\ \A u \in Partial(Pool) : trees'[u] = trees[u]
  <2> DEFINE p == Pool
             t == Min(Finished(p))
             q == Release(p, {t})
  <2>1. Good(p) /\ p.trees = trees  BY DEF HInv, IInv, Pool
  <2>2. Finished(p) # {} /\ Become(q)  BY <1>3 DEF ReadPacket
  <2>3. t \in Finished(p) /\ WellFormed(p)
    <3>1. Finished(p) \in SUBSET Nat  BY SizesAssumption DEF Finished, Used, Trees
    <3> QED  BY <2>1, <2>2, <3>1, MinIsLeast DEF Good
  <2> HIDE DEF p, t
  <2>4. {t} \in SUBSET Used(p)  BY <2>3 DEF Finished
  <2>5. Good(q) /\ q.trees = [u \in Trees |-> IF u \in {t} THEN [p.trees[u] EXCEPT !.head = max_idx] ELSE p.trees[u]]
    BY <2>1, <2>3, <2>4, ReadGood, ReleaseWellFormed
  <2>6. t \in Trees /\ p.trees[t] \in Tree  BY <2>1, <2>3, GoodTypes DEF Finished, Used
  <2> HIDE DEF q
  <2>7. t \notin Partial(q) /\ \A u \in Trees \ {t} : q.trees[u] = p.trees[u]
    BY <2>5, <2>6 DEF Partial, Used, Tree
  <2>8. Partial(q) = Partial(p)  BY <2>3, <2>7 DEF Partial, Used, Finished
  <2>9. Pool' = q /\ Partial(Pool)' = Partial(q) /\ trees' = q.trees
    BY <2>2, <2>5, NextPool DEF Become
  <2>10. \A u \in Partial(p) : u \in Trees \ {t}  BY <2>7, <2>8 DEF Partial, Used
  <2> QED  BY <2>1, <2>7, <2>8, <2>9, <2>10 DEF p
<1>4. HOther => UNCHANGED trees \/ \E sz \in DestSizes : ReadPacket(sz)
  BY DEF HOther, PushBadLength, PushRepeated, ReadNothing
<1> QED  BY <1>1, <1>2, <1>3, <1>4

-----------------------------------------------------------------------------
(* Invariance                                                              *)

\* At the start no packet is in progress.
LEMMA HInitInv == HInit => HInv
<1> SUFFICES ASSUME HInit PROVE HInv  OBVIOUS
<1>1. IInv /\ idle \in [Keys -> Nat]  BY InitGood DEF HInit
<1>2. Partial(Pool) = {}  BY DEF HInit, Init, Partial, Used, Pool
<1> QED  BY <1>1, <1>2 DEF HInv, Counting

\* Every step keeps the countdown and the count of timeout()s together.
LEMMA HNextInv == HInv /\ [HNext]_hvars => HInv'
<1> SUFFICES ASSUME HInv, [HNext]_hvars PROVE HInv'  OBVIOUS
<1>1. IInv'
  <2>1. [Next]_vars  BY HistorySteps DEF hvars
  <2> QED  BY <2>1, StepKeeps DEF HInv
<1>2. Good(Pool) /\ Pool.trees = trees /\ Pool'.trees = trees'  BY DEF HInv, IInv, Pool
<1>3. \A t \in Partial(Pool) : t \in Trees /\ trees[t].to \in 0 .. Timeout /\ Timeout \in Nat
  BY <1>2, GoodTypes
<1>4. \A t \in Partial(Pool) : trees[t].key \in Keys => idle[trees[t].key] \in Nat /\ idle[trees[t].key] + trees[t].to = Timeout
  BY <1>2 DEF HInv, Counting
<1>5. CASE HTimeout
  <2>1. PICK R : /\ Counted(Pool, Pool', R) /\ Partial(Pool)' = Partial(Pool')
                 /\ \A k : Working(Pool, k)' = Working(Pool', k)
    BY <1>5, CountingCall
  <2>2. /\ idle' = [k \in Keys |-> IF Working(Pool, k)' = {} THEN 0 ELSE idle[k] + 1]
    BY <1>5 DEF HTimeout
  <2>3. idle' \in [Keys -> Nat]  BY <2>2 DEF HInv
  <2>4. ASSUME NEW t \in Partial(Pool'), trees'[t].key \in Keys
        PROVE  idle'[trees'[t].key] + trees'[t].to = Timeout
    <3>1. t \in Partial(Pool) /\ trees'[t].key = trees[t].key /\ trees'[t].to = trees[t].to - 1
      BY <1>2, <2>1 DEF Counted
    <3>2. t \in Working(Pool', trees'[t].key)  BY <1>2 DEF Working
    <3>3. idle'[trees'[t].key] = idle[trees[t].key] + 1  BY <2>1, <2>2, <2>4, <3>1, <3>2
    <3> QED  BY <1>3, <1>4, <2>4, <3>1, <3>3
  <2> QED  BY <1>1, <1>2, <2>1, <2>3, <2>4 DEF HInv, Counting
<1>6. CASE HAccept
  <2>1. PICK k \in Keys, t \in Trees :
            /\ idle' = [idle EXCEPT ![k] = 0]
            /\ trees'[t].key = k /\ trees'[t].to = Timeout
            /\ \A u \in Partial(Pool)' : u # t => u \in Partial(Pool) /\ trees'[u] = trees[u] /\ trees[u].key # k
    BY <1>6, AcceptingCall
  <2>2. idle' \in [Keys -> Nat]  BY <2>1 DEF HInv
  <2>3. ASSUME NEW u \in Partial(Pool)', trees'[u].key \in Keys
        PROVE  idle'[trees'[u].key] + trees'[u].to = Timeout
    <3>1. idle'[k] = 0 /\ \A j \in Keys \ {k} : idle'[j] = idle[j]  BY <2>1 DEF HInv
    <3>2. CASE u = t  BY <2>1, <3>1, <3>2, SizesAssumption
    <3>3. CASE u # t  BY <1>4, <2>1, <2>3, <3>1, <3>3
    <3> QED  BY <3>2, <3>3
  <2>4. Counting(Pool, idle)'  BY <1>2, <2>3 DEF Counting
  <2> QED  BY <1>1, <2>2, <2>4 DEF HInv
<1>7. CASE HOther
  <2>1. /\ UNCHANGED idle /\ Partial(Pool)' = Partial(Pool)
        /\ \A u \in Partial(Pool) : trees'[u] = trees[u]
    BY <1>7, OtherCall
  <2>2. Counting(Pool, idle)'  BY <1>2, <1>4, <2>1 DEF Counting
  <2> QED  BY <1>1, <2>1, <2>2 DEF HInv
<1>8. CASE UNCHANGED hvars
  <2>1. UNCHANGED <<trees, idle>>  BY <1>8 DEF hvars, vars
  <2>2. Partial(Pool)' = Partial(Pool)  BY <2>1 DEF Partial, Used, Pool
  <2>3. Counting(Pool, idle)'  BY <1>2, <1>4, <2>1, <2>2 DEF Counting
  <2> QED  BY <1>1, <2>1, <2>3 DEF HInv
<1> QED  BY <1>5, <1>6, <1>7, <1>8 DEF HNext

\* The invariant holds in every reachable state.
LEMMA HInvariance == HSpec => []HInv
<1> QED  BY HInitInv, HNextInv, PTL DEF HSpec

\* A packet in progress that gets no frame is given up after Timeout + 1 timeout()s,
\* by owner or errors, for any number of items, trees and keys.
THEOREM OrphansGone == HSpec => []OrphansExpire
<1>1. HInv => OrphansExpire
  <2> SUFFICES ASSUME HInv, NEW k \in Keys, NEW t \in Working(Pool, k) PROVE idle[k] <= Timeout
    BY DEF OrphansExpire
  <2>1. Good(Pool) /\ t \in Partial(Pool) /\ Pool.trees[t].key = k  BY DEF HInv, IInv, Working
  <2>2. Pool.trees[t].to \in 0 .. Timeout /\ Timeout \in Nat /\ idle[k] \in Nat  BY <2>1, GoodTypes DEF HInv
  <2>3. idle[k] + Pool.trees[t].to = Timeout  BY <2>1 DEF HInv, Counting
  <2> QED  BY <2>2, <2>3
<1> QED  BY <1>1, HInvariance, PTL

\* A packet in progress is given up by a frame of its own or by the timeout() that
\* ends its countdown, whatever other senders do, for any number of them.
THEOREM KeptInProgress == HSpec => NotGivenUpEarly
<1> DEFINE Kept == \A k \in Keys :
                       (Working(Pool, k) # {} /\ Working(Pool, k)' = {}) => idle[k] = Timeout \/ about' = {k}
<1>1. HInv /\ [HNext]_hvars => Kept
  <2> SUFFICES ASSUME HInv, [HNext]_hvars, NEW k \in Keys, NEW t \in Working(Pool, k), Working(Pool, k)' = {}
               PROVE  idle[k] = Timeout \/ about' = {k}
    OBVIOUS
  <2>1. /\ Good(Pool) /\ Pool.trees = trees /\ Pool'.trees = trees'
        /\ t \in Partial(Pool) /\ trees[t].key = k
    BY DEF HInv, IInv, Working, Pool
  <2>2. idle[k] \in Nat /\ idle[k] + trees[t].to = Timeout  BY <2>1 DEF HInv, Counting
  <2>3. \A u \in Partial(Pool)' : trees'[u].key # k  BY DEF Working, Pool
  <2>4. CASE HTimeout
    <3>1. PICK R : /\ Counted(Pool, Pool', R) /\ Partial(Pool)' = Partial(Pool')
                   /\ R = {} \/ \E j \in Keys : R = Working(Pool, j) /\ about' = {j}
      BY <2>4, CountingCall
    <3>2. t \notin Partial(Pool')  BY <2>1, <2>3, <3>1 DEF Counted
    <3>3. CASE t \in R  BY <2>1, <3>1, <3>3 DEF Working
    <3>4. CASE t \notin R  BY <2>1, <2>2, <3>1, <3>2, <3>4 DEF Counted
    <3> QED  BY <3>3, <3>4
  <2>5. CASE HAccept
    <3>1. PICK j \in Keys :
             /\ about' = {j}
             /\ \A u \in Partial(Pool) : trees[u].key # j => u \in Partial(Pool)' /\ trees'[u] = trees[u]
      BY <2>5, AcceptingCall
    <3> QED  BY <2>1, <2>3, <3>1
  <2>6. CASE HOther  BY <2>1, <2>3, <2>6, OtherCall
  <2>7. CASE UNCHANGED hvars
    <3>1. UNCHANGED trees  BY <2>7 DEF hvars, vars
    <3>2. Partial(Pool)' = Partial(Pool)  BY <3>1 DEF Partial, Used, Pool
    <3> QED  BY <2>1, <2>3, <3>1, <3>2
  <2> QED  BY <2>4, <2>5, <2>6, <2>7 DEF HNext
<1>2. HInv /\ [HNext]_hvars => [Kept]_hvars  BY <1>1
<1> QED  BY <1>2, HInvariance, PTL DEF HSpec, NotGivenUpEarly

-----------------------------------------------------------------------------
(* The loops over the lists                                                *)

\* A function of the turns of a loop.
OfTurns(g, N) == g = [n \in 0 .. N |-> g[n]]

\* Two loops with the same start and the same turns.
LEMMA SameTurns ==
  ASSUME NEW N \in Nat, NEW f, NEW g, f[0] = g[0],
         \A n \in 1 .. N : f[n - 1] = g[n - 1] => f[n] = g[n]
  PROVE  \A n \in 0 .. N : f[n] = g[n]
<1> DEFINE Bad == {n \in Nat : n \in 0 .. N /\ f[n] # g[n]}
<1> SUFFICES ASSUME Bad # {} PROVE FALSE  OBVIOUS
<1>1. PICK m \in Bad : \A j \in Bad : m <= j  BY LeastNat
<1>2. m # 0  BY <1>1
<1>3. m - 1 \in Nat /\ m - 1 \in 0 .. N /\ m \in 1 .. N /\ m - 1 \notin Bad  BY <1>1, <1>2
<1>4. f[m - 1] = g[m - 1]  BY <1>3
<1> QED  BY <1>1, <1>3, <1>4

\* What remove(Tree &) computes, from what it has after each turn.
LEMMA RemoveTreeIs ==
  ASSUME NEW p, NEW t, NEW g, OfTurns(g, NumItems), g[0] = p,
         \A n \in 1 .. NumItems : g[n] = MoveItem(g[n - 1], t)
  PROVE  RemoveTree(p, t) = g[NumItems]
<1> DEFINE After(f) == f = [n \in 0 .. NumItems |-> IF n = 0 THEN p ELSE MoveItem(f[n - 1], t)]
           f == CHOOSE f : After(f)
<1>1. NumItems \in Nat
  <2>1. NumItems \in 1 .. 255  BY SizesAssumption
  <2> QED  BY <2>1
<1>2. After(g)
  <2>1. ASSUME NEW n \in 0 .. NumItems PROVE g[n] = IF n = 0 THEN p ELSE MoveItem(g[n - 1], t)
    <3>1. CASE n = 0  BY <3>1
    <3>2. CASE n # 0
      <4>1. n \in 1 .. NumItems  BY <1>1, <3>2
      <4> QED  BY <3>2, <4>1
    <3> QED  BY <3>1, <3>2
  <2> QED  BY <2>1 DEF OfTurns
<1>3. After(f)  BY <1>2
<1>4. RemoveTree(p, t) = f[NumItems]  BY DEF RemoveTree
<1>5. f[0] = p /\ \A n \in 1 .. NumItems : f[n] = MoveItem(f[n - 1], t)
  <2> HIDE DEF f
  <2>1. \A n \in 0 .. NumItems : f[n] = IF n = 0 THEN p ELSE MoveItem(f[n - 1], t)  BY <1>3
  <2> QED  BY <1>1, <2>1
<1> HIDE DEF f
<1>6. \A n \in 0 .. NumItems : f[n] = g[n]
  <2>1. \A n \in 1 .. NumItems : f[n - 1] = g[n - 1] => f[n] = g[n]  BY <1>5
  <2> QED  BY <1>1, <1>5, <2>1, SameTurns
<1> QED  BY <1>1, <1>4, <1>6

\* What remove(extid) computes, from what it has after each tree.
LEMMA RemoveLoopIs ==
  ASSUME NEW p, NEW k, NEW g, OfTurns(g, NumTrees), g[0] = p,
         \A t \in 1 .. NumTrees : g[t] = RemoveTurn(g[t - 1], k, t)
  PROVE  RemoveLoop(p, k) = g[NumTrees]
<1> DEFINE After(f) == f = [t \in 0 .. NumTrees |-> IF t = 0 THEN p ELSE RemoveTurn(f[t - 1], k, t)]
           f == CHOOSE f : After(f)
<1>1. NumTrees \in Nat  BY SizesAssumption
<1>2. After(g)
  <2>1. ASSUME NEW t \in 0 .. NumTrees PROVE g[t] = IF t = 0 THEN p ELSE RemoveTurn(g[t - 1], k, t)
    <3>1. CASE t = 0  BY <3>1
    <3>2. CASE t # 0
      <4>1. t \in 1 .. NumTrees  BY <1>1, <3>2
      <4> QED  BY <3>2, <4>1
    <3> QED  BY <3>1, <3>2
  <2> QED  BY <2>1 DEF OfTurns
<1>3. After(f)  BY <1>2
<1>4. RemoveLoop(p, k) = f[NumTrees]  BY DEF RemoveLoop
<1>5. f[0] = p /\ \A t \in 1 .. NumTrees : f[t] = RemoveTurn(f[t - 1], k, t)
  <2> HIDE DEF f
  <2>1. \A t \in 0 .. NumTrees : f[t] = IF t = 0 THEN p ELSE RemoveTurn(f[t - 1], k, t)  BY <1>3
  <2> QED  BY <1>1, <2>1
<1> HIDE DEF f
<1>6. \A t \in 0 .. NumTrees : f[t] = g[t]
  <2>1. \A t \in 1 .. NumTrees : f[t - 1] = g[t - 1] => f[t] = g[t]  BY <1>5
  <2> QED  BY <1>1, <1>5, <2>1, SameTurns
<1> QED  BY <1>1, <1>4, <1>6

\* What timeout() computes, from what it has after each tree.
LEMMA TimeoutLoopIs ==
  ASSUME NEW p, NEW g, OfTurns(g, NumTrees), g[0] = p,
         \A t \in 1 .. NumTrees : g[t] = TimeoutTurn(g[t - 1], t)
  PROVE  TimeoutLoop(p) = g[NumTrees]
<1> DEFINE After(f) == f = [t \in 0 .. NumTrees |-> IF t = 0 THEN p ELSE TimeoutTurn(f[t - 1], t)]
           f == CHOOSE f : After(f)
<1>1. NumTrees \in Nat  BY SizesAssumption
<1>2. After(g)
  <2>1. ASSUME NEW t \in 0 .. NumTrees PROVE g[t] = IF t = 0 THEN p ELSE TimeoutTurn(g[t - 1], t)
    <3>1. CASE t = 0  BY <3>1
    <3>2. CASE t # 0
      <4>1. t \in 1 .. NumTrees  BY <1>1, <3>2
      <4> QED  BY <3>2, <4>1
    <3> QED  BY <3>1, <3>2
  <2> QED  BY <2>1 DEF OfTurns
<1>3. After(f)  BY <1>2
<1>4. TimeoutLoop(p) = f[NumTrees]  BY DEF TimeoutLoop
<1>5. f[0] = p /\ \A t \in 1 .. NumTrees : f[t] = TimeoutTurn(f[t - 1], t)
  <2> HIDE DEF f
  <2>1. \A t \in 0 .. NumTrees : f[t] = IF t = 0 THEN p ELSE TimeoutTurn(f[t - 1], t)  BY <1>3
  <2> QED  BY <1>1, <2>1
<1> HIDE DEF f
<1>6. \A t \in 0 .. NumTrees : f[t] = g[t]
  <2>1. \A t \in 1 .. NumTrees : f[t - 1] = g[t - 1] => f[t] = g[t]  BY <1>5
  <2> QED  BY <1>1, <1>5, <2>1, SameTurns
<1> QED  BY <1>1, <1>4, <1>6

\* The items of a path are followed by items up to the last one.
LEMMA OnThePath ==
  ASSUME NEW p, NEW h, NEW s, Path(p, h, s)
  PROVE  /\ \A j \in 1 .. Len(s) - 1 : NextOf(p, s[j]) = s[j + 1] /\ s[j + 1] \in Items /\ s[j + 1] # max_idx
         /\ \A j \in 1 .. Len(s) : s[j] \in Items /\ s[j] # max_idx
         /\ NextOf(p, s[Len(s)]) = max_idx /\ s[1] = h
<1>1. Len(s) \in Nat \ {0} /\ \A j \in 1 .. Len(s) : s[j] \in Items  BY PathLength
<1>2. \A j \in 1 .. Len(s) - 1 : j + 1 \in 1 .. Len(s)  BY <1>1
<1> QED  BY <1>1, <1>2, NilIsNoItem DEF Path

\* One turn of the walk of push_next(Tree &).
TailTurn(p, i) == IF NextOf(p, i) = max_idx THEN i ELSE NextOf(p, i)

\* What push_next(Tree &) finds, from where it is after each turn.
LEMMA TailLoopEnds ==
  ASSUME NEW p, NEW h, NEW g, OfTurns(g, NumItems - 1), g[0] = h,
         \A n \in 1 .. NumItems - 1 : g[n] = TailTurn(p, g[n - 1])
  PROVE  TailLoop(p, h) = IF NextOf(p, g[NumItems - 1]) = max_idx THEN g[NumItems - 1] ELSE max_idx
<1> DEFINE After(f) == f = [n \in 0 .. NumItems - 1 |-> IF n = 0 THEN h ELSE TailTurn(p, f[n - 1])]
           f == CHOOSE f : After(f)
<1>1. NumItems - 1 \in Nat  BY ItemsFinite
<1>2. TailLoop(p, h) = IF NextOf(p, f[NumItems - 1]) = max_idx THEN f[NumItems - 1] ELSE max_idx
  BY DEF TailLoop, TailTurn
<1>3. After(g)
  <2>1. ASSUME NEW n \in 0 .. NumItems - 1 PROVE g[n] = IF n = 0 THEN h ELSE TailTurn(p, g[n - 1])
    <3>1. n # 0 => n \in 1 .. NumItems - 1  BY <1>1
    <3> QED  BY <3>1
  <2> QED  BY <2>1 DEF OfTurns
<1>4. After(f)  BY <1>3
<1> HIDE DEF f
<1>5. f[0] = h /\ \A n \in 1 .. NumItems - 1 : f[n] = TailTurn(p, f[n - 1])
  <2>1. \A n \in 0 .. NumItems - 1 : f[n] = IF n = 0 THEN h ELSE TailTurn(p, f[n - 1])  BY <1>4
  <2> QED  BY <1>1, <2>1
<1>6. \A n \in 0 .. NumItems - 1 : f[n] = g[n]
  <2>1. \A n \in 1 .. NumItems - 1 : f[n - 1] = g[n - 1] => f[n] = g[n]  BY <1>5
  <2>2. f[0] = g[0]  BY <1>5
  <2>3. PICK N \in Nat : N = NumItems - 1  BY <1>1
  <2>4. \A n \in 1 .. N : f[n - 1] = g[n - 1] => f[n] = g[n]  BY <2>1, <2>3
  <2>5. \A n \in 0 .. N : f[n] = g[n]  BY <2>2, <2>4, SameTurns
  <2> QED  BY <2>3, <2>5
<1>7. f[NumItems - 1] = g[NumItems - 1]  BY <1>1, <1>6
<1> QED  BY <1>2, <1>7

\* The walk of push_next(Tree &) ends at the end of the path.
LEMMA TailLoopIs ==
  ASSUME NEW p, NEW h, NEW s, Path(p, h, s), Len(s) <= NumItems
  PROVE  TailLoop(p, h) = s[Len(s)]
<1> DEFINE g == [n \in 0 .. NumItems - 1 |-> IF n < Len(s) THEN s[n + 1] ELSE s[Len(s)]]
<1>1. NumItems \in Nat /\ NumItems - 1 \in Nat /\ Len(s) \in Nat \ {0}  BY ItemsFinite, PathLength
<1>2. g[0] = h  BY <1>1, OnThePath
<1>3. ASSUME NEW n \in 1 .. NumItems - 1 PROVE g[n] = TailTurn(p, g[n - 1])
  <2>1. n \in 0 .. NumItems - 1 /\ n - 1 \in 0 .. NumItems - 1 /\ (n - 1) + 1 = n  BY <1>1
  <2>2. CASE n < Len(s)
    <3>1. n - 1 < Len(s) /\ n \in 1 .. Len(s) - 1  BY <1>1, <2>2
    <3>2. g[n - 1] = s[n] /\ g[n] = s[n + 1]  BY <2>1, <2>2, <3>1
    <3> HIDE DEF g
    <3> QED  BY <3>1, <3>2, OnThePath DEF TailTurn
  <2>3. CASE ~(n < Len(s))
    <3>1. g[n] = s[Len(s)]  BY <2>1, <2>3
    <3>2. n - 1 < Len(s) => n = Len(s)  BY <1>1, <2>3
    <3>3. g[n - 1] = s[Len(s)]  BY <2>1, <3>2
    <3> HIDE DEF g
    <3> QED  BY <3>1, <3>3, OnThePath DEF TailTurn
  <2> QED  BY <2>2, <2>3
<1>4. g[NumItems - 1] = s[Len(s)]
  <2>1. NumItems - 1 \in 0 .. NumItems - 1 /\ (NumItems - 1 < Len(s) => (NumItems - 1) + 1 = Len(s))
    BY <1>1
  <2> QED  BY <2>1
<1>5. OfTurns(g, NumItems - 1)  BY DEF OfTurns
<1> HIDE DEF g
<1>6. TailLoop(p, h) = IF NextOf(p, g[NumItems - 1]) = max_idx THEN g[NumItems - 1] ELSE max_idx
  BY <1>2, <1>3, <1>5, TailLoopEnds
<1> QED  BY <1>4, <1>6, OnThePath

\* What space() computes, from what it has after each turn.
LEMMA SpaceLoopIs ==
  ASSUME NEW p, NEW g, OfTurns(g, NumItems), g[0] = [i |-> p.free, cnt |-> 0],
         \A n \in 1 .. NumItems : g[n] = SpaceTurn(p, g[n - 1])
  PROVE  SpaceLoop(p) = g[NumItems]
<1> DEFINE x == [i |-> p.free, cnt |-> 0]
           After(f) == f = [n \in 0 .. NumItems |-> IF n = 0 THEN x ELSE SpaceTurn(p, f[n - 1])]
           f == CHOOSE f : After(f)
<1>1. SpaceLoop(p) = f[NumItems]  BY DEF SpaceLoop
<1> HIDE DEF x
<1>2. After(g)
  <2>1. ASSUME NEW n \in 0 .. NumItems PROVE g[n] = IF n = 0 THEN x ELSE SpaceTurn(p, g[n - 1])
    <3>1. n # 0 => n \in 1 .. NumItems  BY ItemsFinite
    <3> QED  BY <3>1 DEF x
  <2> QED  BY <2>1 DEF OfTurns
<1>3. After(f)  BY <1>2
<1> HIDE DEF f
<1>4. f[0] = x /\ \A n \in 1 .. NumItems : f[n] = SpaceTurn(p, f[n - 1])
  <2>1. \A n \in 0 .. NumItems : f[n] = IF n = 0 THEN x ELSE SpaceTurn(p, f[n - 1])  BY <1>3
  <2> QED  BY <2>1, ItemsFinite
<1>5. \A n \in 0 .. NumItems : f[n] = g[n]
  <2>1. \A n \in 1 .. NumItems : f[n - 1] = g[n - 1] => f[n] = g[n]  BY <1>4
  <2>2. f[0] = g[0]  BY <1>4 DEF x
  <2> QED  BY <2>1, <2>2, SameTurns, ItemsFinite
<1> QED  BY <1>1, <1>5, ItemsFinite

\* space() counts the items of the free list.
LEMMA SpaceCounts ==
  ASSUME NEW p, WellFormed(p)
  PROVE  SpaceLoop(p) = [i |-> max_idx, cnt |-> Cardinality(Chain(p, p.free))]
<1>1. p \in PoolType /\ 0 \in Owners /\ HeadOf(p, 0) = p.free
  BY SizesAssumption DEF WellFormed, Owners, HeadOf
<1>2. CASE p.free = max_idx
  <2> DEFINE g == [n \in 0 .. NumItems |-> [i |-> max_idx, cnt |-> 0]]
  <2>1. OfTurns(g, NumItems)  BY DEF OfTurns
  <2>2. \A n \in 0 .. NumItems : g[n] = [i |-> max_idx, cnt |-> 0]  OBVIOUS
  <2> HIDE DEF g
  <2>3. \A n \in 1 .. NumItems : g[n] = SpaceTurn(p, g[n - 1])
    <3>1. \A n \in 1 .. NumItems : n \in 0 .. NumItems /\ n - 1 \in 0 .. NumItems  BY ItemsFinite
    <3> QED  BY <2>2, <3>1 DEF SpaceTurn
  <2>4. SpaceLoop(p) = [i |-> max_idx, cnt |-> 0]
    <3>1. 0 \in 0 .. NumItems /\ NumItems \in 0 .. NumItems  BY ItemsFinite
    <3> QED  BY <1>2, <2>1, <2>2, <2>3, <3>1, SpaceLoopIs
  <2>5. Chain(p, p.free) = {}
    <3>1. PICK own, rank : \E B \in Nat : Linked(p, own, rank, B)  BY DEF WellFormed
    <3>2. PICK B \in Nat : Linked(p, own, rank, B)  BY <3>1
    <3>3. Chain(p, HeadOf(p, 0)) = {i \in Items : own[i] = 0}  BY <1>1, <3>2, ChainIsOwned
    <3>4. \A i \in Items : own[i] # 0  BY <1>1, <1>2, <3>2, NoHeadNoItems
    <3> QED  BY <1>1, <3>3, <3>4
  <2> QED  BY <2>4, <2>5, FS_EmptySet
<1>3. CASE p.free # max_idx
  <2>1. PICK s : Path(p, p.free, s)
    <3>1. PICK own, rank : \E B \in Nat : Linked(p, own, rank, B)  BY DEF WellFormed
    <3>2. PICK B \in Nat : Linked(p, own, rank, B)  BY <3>1
    <3>3. p.free \in Items  BY <1>1, <1>3, PointerTypes
    <3> QED  BY <1>1, <3>2, <3>3, PathExists
  <2>2. Len(s) \in Nat \ {0} /\ Len(s) <= NumItems /\ Cardinality(Chain(p, p.free)) = Len(s)
    BY <1>1, <1>3, <2>1, PathIsList
  <2> DEFINE at(n) == IF n < Len(s) THEN [i |-> s[n + 1], cnt |-> n] ELSE [i |-> max_idx, cnt |-> Len(s)]
             g == [n \in 0 .. NumItems |-> at(n)]
  <2>3. OfTurns(g, NumItems)  BY DEF OfTurns
  <2>4. \A n \in 0 .. NumItems : g[n] = at(n)  OBVIOUS
  <2> HIDE DEF g
  <2>5. g[0] = [i |-> p.free, cnt |-> 0]  BY <2>1, <2>2, <2>4, OnThePath, ItemsFinite
  <2>6. ASSUME NEW n \in 1 .. NumItems PROVE g[n] = SpaceTurn(p, g[n - 1])
    <3>1. n \in 0 .. NumItems /\ n - 1 \in 0 .. NumItems /\ (n - 1) + 1 = n  BY ItemsFinite
    <3>2. g[n] = at(n) /\ g[n - 1] = at(n - 1)  BY <2>4, <3>1
    <3>3. CASE n < Len(s)
      <4>1. n \in 1 .. Len(s) - 1 /\ n \in 1 .. Len(s) /\ n - 1 < Len(s)  BY <2>2, <3>3
      <4>2. g[n - 1] = [i |-> s[n], cnt |-> n - 1] /\ g[n] = [i |-> s[n + 1], cnt |-> n]
        BY <3>1, <3>2, <3>3, <4>1
      <4>3. s[n] # max_idx /\ NextOf(p, s[n]) = s[n + 1]  BY <2>1, <4>1, OnThePath
      <4> QED  BY <3>1, <4>2, <4>3 DEF SpaceTurn
    <3>4. CASE n = Len(s)
      <4>1. n \in 1 .. Len(s) /\ n - 1 < Len(s) /\ ~(n < Len(s))  BY <2>2, <3>4
      <4>2. g[n - 1] = [i |-> s[n], cnt |-> n - 1] /\ g[n] = [i |-> max_idx, cnt |-> n]
        BY <3>1, <3>2, <3>4, <4>1
      <4>3. s[n] # max_idx /\ NextOf(p, s[n]) = max_idx  BY <2>1, <3>4, <4>1, OnThePath
      <4> QED  BY <3>1, <4>2, <4>3 DEF SpaceTurn
    <3>5. CASE Len(s) < n
      <4>1. ~(n < Len(s)) /\ ~(n - 1 < Len(s))  BY <2>2, <3>5
      <4> QED  BY <3>2, <4>1 DEF SpaceTurn
    <3> QED  BY <2>2, <3>3, <3>4, <3>5
  <2>7. SpaceLoop(p) = g[NumItems]  BY <2>3, <2>5, <2>6, SpaceLoopIs
  <2>8. g[NumItems] = [i |-> max_idx, cnt |-> Len(s)]
    <3>1. NumItems \in 0 .. NumItems /\ ~(NumItems < Len(s))  BY <2>2, ItemsFinite
    <3> QED  BY <2>4, <3>1
  <2> QED  BY <2>2, <2>7, <2>8
<1> QED  BY <1>2, <1>3

\* The head of a tree with the path s after m turns of remove(Tree &), and the link of
\* its item j once it was moved.
HeadAfter(s, m) == IF m < Len(s) THEN s[m + 1] ELSE max_idx
BackAt(p, s, j) == IF j = 1 THEN p.free ELSE s[j - 1]

\* The pool after m turns of remove(Tree &) on tree t: the first m items are in front of
\* the free list, in turned order.
Moved(p, t, s, m) ==
    LET place(i) == CHOOSE j \in 1 .. Len(s) : s[j] = i
    IN  [trees |-> [p.trees EXCEPT ![t].head = HeadAfter(s, m)],
         items |-> [i \in Items |-> IF \E j \in 1 .. m : s[j] = i
                                    THEN [p.items[i] EXCEPT !.next = BackAt(p, s, place(i))]
                                    ELSE p.items[i]],
         free  |-> IF m = 0 THEN p.free ELSE s[m]]

\* The same, part by part.
MovedTo(p, q, t, s, m) ==
    /\ q = [trees |-> q.trees, items |-> q.items, free |-> q.free]
    /\ q.trees = [p.trees EXCEPT ![t].head = HeadAfter(s, m)]
    /\ q.items = [i \in Items |-> q.items[i]]
    /\ \A j \in 1 .. m : s[j] \in Items =>
           q.items[s[j]] = [p.items[s[j]] EXCEPT !.next = BackAt(p, s, j)]
    /\ \A i \in Items : (\A j \in 1 .. m : s[j] # i) => q.items[i] = p.items[i]
    /\ q.free = IF m = 0 THEN p.free ELSE s[m]

\* Moved is made of these parts.
LEMMA MovedParts ==
  ASSUME NEW p \in PoolType, NEW t \in Trees, NEW s, NEW m \in 0 .. Len(s), Len(s) \in Nat \ {0},
         \A i, j \in 1 .. Len(s) : s[i] = s[j] => i = j
  PROVE  MovedTo(p, Moved(p, t, s, m), t, s, m)
<1> DEFINE place(i) == CHOOSE j \in 1 .. Len(s) : s[j] = i
           new(i) == IF \E j \in 1 .. m : s[j] = i
                     THEN [p.items[i] EXCEPT !.next = BackAt(p, s, place(i))] ELSE p.items[i]
           q == Moved(p, t, s, m)
<1>1. q = [trees |-> [p.trees EXCEPT ![t].head = HeadAfter(s, m)],
           items |-> [i \in Items |-> new(i)],
           free  |-> IF m = 0 THEN p.free ELSE s[m]]
  BY DEF Moved
<1>2. \A j \in 1 .. m : j \in 1 .. Len(s) /\ place(s[j]) = j
  <2> SUFFICES ASSUME NEW j \in 1 .. m PROVE j \in 1 .. Len(s) /\ place(s[j]) = j  OBVIOUS
  <2>1. j \in 1 .. Len(s)  OBVIOUS
  <2>2. place(s[j]) \in 1 .. Len(s) /\ s[place(s[j])] = s[j]  BY <2>1
  <2> QED  BY <2>1, <2>2
<1> HIDE DEF place
<1>3. \A j \in 1 .. m : new(s[j]) = [p.items[s[j]] EXCEPT !.next = BackAt(p, s, j)]  BY <1>2
<1>4. \A i \in Items : (\A j \in 1 .. m : s[j] # i) => new(i) = p.items[i]  OBVIOUS
<1> HIDE DEF new, q
<1>5. q.items = [i \in Items |-> new(i)] /\ \A i \in Items : q.items[i] = new(i)  BY <1>1
<1>6. q.items = [i \in Items |-> q.items[i]]  BY <1>5
<1>7. MovedTo(p, q, t, s, m)  BY <1>1, <1>3, <1>4, <1>5, <1>6 DEF MovedTo
<1> QED  BY <1>7 DEF q

\* A head that is set twice.
LEMMA HeadTwice ==
  ASSUME NEW T \in [Trees -> Tree], NEW t \in Trees, NEW a, NEW b
  PROVE  /\ [[T EXCEPT ![t].head = a] EXCEPT ![t].head = b] = [T EXCEPT ![t].head = b]
         /\ [T EXCEPT ![t].head = a][t].head = a
         /\ [T EXCEPT ![t].head = a] = [u \in Trees |-> IF u \in {t} THEN [T[u] EXCEPT !.head = a] ELSE T[u]]
<1>1. \A x \in Tree : [[x EXCEPT !.head = a] EXCEPT !.head = b] = [x EXCEPT !.head = b]
                      /\ [x EXCEPT !.head = a].head = a
  BY DEF Tree
<1>2. T[t] \in Tree  OBVIOUS
<1>3. [[T EXCEPT ![t].head = a] EXCEPT ![t].head = b]
      = [T EXCEPT ![t] = [[T[t] EXCEPT !.head = a] EXCEPT !.head = b]]
  OBVIOUS
<1> QED  BY <1>1, <1>2, <1>3

\* One turn moves one item.
LEMMA MoveItemMoves ==
  ASSUME NEW p \in PoolType, NEW t \in Trees, NEW s, Path(p, p.trees[t].head, s),
         \A i, j \in 1 .. Len(s) : s[i] = s[j] => i = j,
         NEW m \in 0 .. Len(s) - 1
  PROVE  MoveItem(Moved(p, t, s, m), t) = Moved(p, t, s, m + 1)
<1> DEFINE q == Moved(p, t, s, m)
           r == Moved(p, t, s, m + 1)
           L == Len(s)
           i == s[m + 1]
<1>1. L \in Nat \ {0} /\ m \in 0 .. L /\ m + 1 \in 0 .. L /\ m + 1 \in 1 .. L /\ m < L  BY PathLength
<1>2. MovedTo(p, q, t, s, m)  BY <1>1, MovedParts
<1>3. MovedTo(p, r, t, s, m + 1)  BY <1>1, MovedParts
<1> HIDE DEF q, r
<1>4. \A j \in 1 .. L : s[j] \in Items /\ s[j] # max_idx  BY OnThePath
<1>5. i \in Items /\ i # max_idx /\ \A j \in 1 .. m : s[j] # i
  <2>1. \A j \in 1 .. m : j \in 1 .. L /\ j # m + 1  BY <1>1
  <2> QED  BY <1>1, <1>4, <2>1
<1>6. q.items[i] = p.items[i]  BY <1>2, <1>5 DEF MovedTo
<1>7. NextOf(q, i) = HeadAfter(s, m + 1)
  <2>1. CASE m + 1 < L
    <3>1. m + 1 \in 1 .. L - 1  BY <1>1, <2>1
    <3>2. NextOf(p, s[m + 1]) = s[(m + 1) + 1]  BY <3>1, OnThePath
    <3> QED  BY <1>6, <2>1, <3>2 DEF NextOf, HeadAfter
  <2>2. CASE ~(m + 1 < L)
    <3>1. m + 1 = L  BY <1>1, <2>2
    <3>2. NextOf(p, i) = max_idx  BY <3>1, OnThePath
    <3> QED  BY <1>6, <2>2, <3>2 DEF NextOf, HeadAfter
  <2> QED  BY <2>1, <2>2
<1>8. p.trees \in [Trees -> Tree] /\ p.items \in [Items -> Item]  BY DEF PoolType
<1>9. q.trees[t].head = i
  <2>1. HeadAfter(s, m) = i  BY <1>1 DEF HeadAfter
  <2>2. q.trees = [p.trees EXCEPT ![t].head = HeadAfter(s, m)]  BY <1>2 DEF MovedTo
  <2> QED  BY <1>8, <2>1, <2>2, HeadTwice
<1>10. [q.trees EXCEPT ![t].head = NextOf(q, i)] = r.trees
  <2>1. q.trees = [p.trees EXCEPT ![t].head = HeadAfter(s, m)]  BY <1>2 DEF MovedTo
  <2>2. r.trees = [p.trees EXCEPT ![t].head = HeadAfter(s, m + 1)]  BY <1>3 DEF MovedTo
  <2> QED  BY <1>7, <1>8, <2>1, <2>2, HeadTwice
<1>11. [q.items EXCEPT ![i].next = q.free] = r.items
  <2> DEFINE x == [q.items EXCEPT ![i].next = q.free]
  <2>1. x = [k \in Items |-> x[k]] /\ x[i] = [q.items[i] EXCEPT !.next = q.free]
        /\ \A k \in Items \ {i} : x[k] = q.items[k]
    BY <1>2, <1>5 DEF MovedTo
  <2> HIDE DEF x
  <2>2. x[i] = r.items[i]
    <3>1. r.items[i] = [p.items[i] EXCEPT !.next = BackAt(p, s, m + 1)]
      <4>1. m + 1 \in 1 .. m + 1  BY <1>1
      <4> QED  BY <1>3, <1>5, <4>1 DEF MovedTo
    <3>2. q.free = BackAt(p, s, m + 1)
      <4>1. (m + 1 = 1 <=> m = 0) /\ (m + 1) - 1 = m  BY <1>1
      <4> QED  BY <1>2, <4>1 DEF MovedTo, BackAt
    <3> QED  BY <1>6, <2>1, <3>1, <3>2
  <2>3. ASSUME NEW k \in Items \ {i} PROVE x[k] = r.items[k]
    <3>1. x[k] = q.items[k]  BY <2>1
    <3>2. CASE \E j \in 1 .. m : s[j] = k
      <4>1. PICK j \in 1 .. m : s[j] = k  BY <3>2
      <4>2. j \in 1 .. m + 1  BY <1>1
      <4>3. q.items[s[j]] = [p.items[s[j]] EXCEPT !.next = BackAt(p, s, j)]  BY <1>2, <4>1 DEF MovedTo
      <4>4. r.items[s[j]] = [p.items[s[j]] EXCEPT !.next = BackAt(p, s, j)]  BY <1>3, <4>1, <4>2 DEF MovedTo
      <4> QED  BY <3>1, <4>1, <4>3, <4>4
    <3>3. CASE ~ \E j \in 1 .. m : s[j] = k
      <4>1. \A j \in 1 .. m + 1 : j \in 1 .. m \/ j = m + 1  BY <1>1
      <4>2. \A j \in 1 .. m + 1 : s[j] # k  BY <3>3, <4>1
      <4> QED  BY <1>2, <1>3, <3>1, <3>3, <4>2 DEF MovedTo
    <3> QED  BY <3>2, <3>3
  <2>4. \A k \in Items : x[k] = r.items[k]  BY <2>2, <2>3
  <2>5. x = [k \in Items |-> r.items[k]]  BY <2>1, <2>4
  <2> QED  BY <1>3, <2>5 DEF x, MovedTo
<1>12. r.free = i
  <2>1. m + 1 # 0  BY <1>1
  <2> QED  BY <1>3, <2>1 DEF MovedTo
<1>13. MoveItem(q, t) = [trees |-> [q.trees EXCEPT ![t].head = NextOf(q, i)],
                         items |-> [q.items EXCEPT ![i].next = q.free],
                         free  |-> i]
  BY <1>5, <1>9 DEF MoveItem
<1>14. MoveItem(q, t) = [trees |-> r.trees, items |-> r.items, free |-> r.free]
  BY <1>10, <1>11, <1>12, <1>13
<1> QED  BY <1>3, <1>14 DEF q, r, MovedTo

\* Release with a single tree is where the turns end.
LEMMA ReleaseIsMoved ==
  ASSUME NEW p, WellFormed(p), NEW t \in Used(p), NEW s, Path(p, p.trees[t].head, s)
  PROVE  /\ Release(p, {t}) = Moved(p, t, s, Len(s))
         /\ Len(s) \in Nat \ {0} /\ Len(s) <= NumItems
         /\ \A i, j \in 1 .. Len(s) : s[i] = s[j] => i = j
<1> DEFINE h == p.trees[t].head
           L == Len(s)
           q == Release(p, {t})
           r == Moved(p, t, s, L)
<1>1. p \in PoolType /\ t \in Trees /\ t \in Owners /\ t # 0 /\ HeadOf(p, t) = h /\ h # max_idx
  BY SizesAssumption DEF WellFormed, Used, Owners, Trees, HeadOf
<1>2. PICK own, rank : \E B \in Nat : Linked(p, own, rank, B)  BY DEF WellFormed
<1>3. PICK B \in Nat : Linked(p, own, rank, B)  BY <1>2
<1>4. /\ L \in Nat \ {0} /\ L <= NumItems
      /\ \A j \in 1 .. L : s[j] \in Chain(p, h) /\ s[j] \in Items
      /\ \A i \in Chain(p, h) : \E j \in 1 .. L : s[j] = i
      /\ \A i, j \in 1 .. L : s[i] = s[j] => i = j
      /\ s[L] = LastOf(p, h)
  BY <1>1, PathIsList
<1>5. Chain(p, h) = {i \in Items : own[i] = t}  BY <1>1, <1>3, ChainIsOwned
<1>6. Released(p, q, {t}, own) /\ q \in PoolType
  BY <1>1, <1>3, ReleaseIsReleased
<1>7. Max({t}) = t /\ {u \in {t} : u < t} = {}
  <2>1. t \in Nat  BY <1>1, SizesAssumption DEF Trees
  <2>2. {t} \in SUBSET (0 .. t)  BY <2>1
  <2>3. Max({t}) \in {t}  BY <2>1, <2>2, MaxIsGreatest
  <2> QED  BY <2>1, <2>3
<1>8. /\ q.trees = [u \in Trees |-> IF u \in {t} THEN [p.trees[u] EXCEPT !.head = max_idx] ELSE p.trees[u]]
      /\ q.items \in [Items -> Item]
      /\ q.free = s[L]
      /\ \A i \in Items : q.items[i].data = p.items[i].data
      /\ \A i \in Items : own[i] \notin {t} => q.items[i] = p.items[i]
      /\ NextOf(q, h) = p.free
      /\ \A i \in Items : own[i] = t /\ i # h => NextOf(q, i) \in Items /\ NextOf(p, NextOf(q, i)) = i
  BY <1>4, <1>6, <1>7 DEF Released
<1>9. MovedTo(p, r, t, s, L)
  <2>1. L \in 0 .. L  BY <1>4
  <2> QED  BY <1>1, <1>4, <2>1, MovedParts
<1> HIDE DEF q, r, h, L
<1>10. q.trees = r.trees /\ r.free = s[L]
  <2>1. HeadAfter(s, L) = max_idx /\ L # 0  BY <1>4 DEF HeadAfter, L
  <2>2. r.trees = [p.trees EXCEPT ![t].head = max_idx] /\ r.free = s[L]  BY <1>9, <2>1 DEF MovedTo
  <2> QED  BY <1>1, <1>8, <2>2, HeadTwice DEF PoolType
<1>11. ASSUME NEW i \in Items PROVE q.items[i] = r.items[i]
  <2>1. CASE own[i] # t
    <3>1. \A j \in 1 .. L : s[j] # i  BY <1>4, <1>5, <2>1
    <3> QED  BY <1>8, <1>9, <2>1, <3>1 DEF MovedTo
  <2>2. CASE own[i] = t
    <3>1. PICK j \in 1 .. L : s[j] = i  BY <1>4, <1>5, <2>2
    <3>2. r.items[i] = [p.items[i] EXCEPT !.next = BackAt(p, s, j)]
      BY <1>9, <3>1 DEF MovedTo
    <3>3. q.items[i].next = BackAt(p, s, j)
      <4>1. CASE j = 1
        <5>1. i = h  BY <3>1, <4>1, OnThePath DEF h
        <5> QED  BY <1>8, <4>1, <5>1 DEF NextOf, BackAt
      <4>2. CASE j # 1
        <5>1. j - 1 \in 1 .. L - 1 /\ (j - 1) + 1 = j /\ 1 \in 1 .. L /\ j - 1 \in 1 .. L  BY <1>4, <4>2
        <5>2. NextOf(p, s[j - 1]) = i  BY <3>1, <5>1, OnThePath DEF L
        <5>3. s[1] = h  BY OnThePath DEF h
        <5>4. i # h  BY <1>4, <3>1, <4>2, <5>1, <5>3
        <5>5. NextOf(q, i) \in Items /\ NextOf(p, NextOf(q, i)) = i  BY <1>8, <2>2, <5>4
        <5>6. s[j - 1] \in Items  BY <1>4, <5>1
        <5>7. NextOf(q, i) = s[j - 1]  BY <1>3, <5>2, <5>5, <5>6, NilIsNoItem DEF Linked
        <5> QED  BY <4>2, <5>7 DEF NextOf, BackAt
      <4> QED  BY <4>1, <4>2
    <3>4. q.items[i] \in Item /\ p.items[i] \in Item  BY <1>1, <1>8 DEF PoolType
    <3>5. q.items[i].data = p.items[i].data  BY <1>8
    <3>6. ASSUME NEW x \in Item, NEW y \in Item, NEW n, x.next = n, x.data = y.data
          PROVE  x = [y EXCEPT !.next = n]
      BY <3>6 DEF Item
    <3> QED  BY <3>2, <3>3, <3>4, <3>5, <3>6
  <2> QED  BY <2>1, <2>2
<1>12. q.items = r.items
  <2>1. q.items = [i \in Items |-> q.items[i]]  BY <1>8
  <2> QED  BY <1>9, <1>11, <2>1 DEF MovedTo
<1>13. q = [trees |-> q.trees, items |-> q.items, free |-> q.free]  BY <1>6 DEF PoolType
<1>14. q = r
  <2>1. r = [trees |-> r.trees, items |-> r.items, free |-> r.free]  BY <1>9 DEF MovedTo
  <2> QED  BY <1>8, <1>10, <1>12, <1>13, <2>1
<1> QED  BY <1>4, <1>14 DEF q, r, L

\* remove(Tree &) releases the tree.
LEMMA RemoveTreeReleases ==
  ASSUME NEW p, WellFormed(p), NEW t \in Used(p)
  PROVE  RemoveTree(p, t) = Release(p, {t})
<1>1. p \in PoolType /\ t \in Trees  BY DEF WellFormed, Used
<1>2. PICK s : Path(p, p.trees[t].head, s)  BY BodyIsPath
<1>3. /\ Release(p, {t}) = Moved(p, t, s, Len(s))
      /\ Len(s) \in Nat \ {0} /\ Len(s) <= NumItems
      /\ \A i, j \in 1 .. Len(s) : s[i] = s[j] => i = j
  BY <1>2, ReleaseIsMoved
<1> DEFINE g == [n \in 0 .. NumItems |-> IF n < Len(s) THEN Moved(p, t, s, n) ELSE Moved(p, t, s, Len(s))]
<1>4. OfTurns(g, NumItems)  BY DEF OfTurns
<1>5. \A n \in 0 .. NumItems :
          g[n] = IF n < Len(s) THEN Moved(p, t, s, n) ELSE Moved(p, t, s, Len(s))
  OBVIOUS
<1> HIDE DEF g
<1>6. g[0] = p
  <2>1. 0 \in 0 .. Len(s) /\ 0 \in 0 .. NumItems /\ 0 < Len(s)  BY <1>3, ItemsFinite
  <2> DEFINE q == Moved(p, t, s, 0)
  <2>2. MovedTo(p, q, t, s, 0)  BY <1>1, <1>3, <2>1, MovedParts
  <2> HIDE DEF q
  <2>3. q.trees = p.trees
    <3>1. HeadAfter(s, 0) = p.trees[t].head  BY <1>2, <2>1, OnThePath DEF HeadAfter
    <3>2. q.trees = [p.trees EXCEPT ![t].head = p.trees[t].head]  BY <2>2, <3>1 DEF MovedTo
    <3> QED  BY <1>1, <3>2 DEF PoolType, Tree
  <2>4. q.items = p.items /\ q.free = p.free
    <3>1. q.free = p.free /\ q.items = [i \in Items |-> q.items[i]] /\ \A i \in Items : q.items[i] = p.items[i]
      BY <2>2 DEF MovedTo
    <3> QED  BY <1>1, <3>1 DEF PoolType
  <2>5. p = [trees |-> p.trees, items |-> p.items, free |-> p.free]  BY <1>1 DEF PoolType
  <2>6. q = p  BY <2>2, <2>3, <2>4, <2>5 DEF MovedTo
  <2> QED  BY <1>5, <2>1, <2>6 DEF q
<1>7. MoveItem(Moved(p, t, s, Len(s)), t) = Moved(p, t, s, Len(s))
  <2> DEFINE q == Moved(p, t, s, Len(s))
  <2>1. q.trees = [p.trees EXCEPT ![t].head = max_idx]
    <3>1. Len(s) \in 0 .. Len(s) /\ HeadAfter(s, Len(s)) = max_idx  BY <1>3 DEF HeadAfter
    <3>2. MovedTo(p, q, t, s, Len(s))  BY <1>1, <1>3, <3>1, MovedParts
    <3> QED  BY <3>1, <3>2 DEF MovedTo
  <2> HIDE DEF q
  <2>2. q.trees[t].head = max_idx  BY <1>1, <2>1, HeadTwice DEF PoolType
  <2>3. MoveItem(q, t) = q  BY <2>2 DEF MoveItem
  <2> QED  BY <2>3 DEF q
<1>8. ASSUME NEW n \in 1 .. NumItems PROVE g[n] = MoveItem(g[n - 1], t)
  <2>1. n \in 0 .. NumItems /\ n - 1 \in 0 .. NumItems /\ (n - 1) + 1 = n  BY ItemsFinite
  <2>2. CASE n - 1 < Len(s)
    <3>1. n - 1 \in 0 .. Len(s) - 1 /\ (n < Len(s) \/ n = Len(s))  BY <1>3, <2>1, <2>2
    <3>2. g[n] = Moved(p, t, s, n)  BY <1>5, <2>1, <3>1
    <3>3. g[n - 1] = Moved(p, t, s, n - 1)  BY <1>5, <2>1, <2>2
    <3>4. MoveItem(Moved(p, t, s, n - 1), t) = Moved(p, t, s, (n - 1) + 1)
      BY <1>1, <1>2, <1>3, <3>1, MoveItemMoves
    <3> QED  BY <2>1, <3>2, <3>3, <3>4
  <2>3. CASE ~(n - 1 < Len(s))
    <3>1. ~(n < Len(s))  BY <1>3, <2>3
    <3> QED  BY <1>5, <1>7, <2>1, <2>3, <3>1
  <2> QED  BY <2>2, <2>3
<1>9. RemoveTree(p, t) = g[NumItems]  BY <1>4, <1>6, <1>8, RemoveTreeIs
<1>10. g[NumItems] = Moved(p, t, s, Len(s))
  <2>1. NumItems \in 0 .. NumItems /\ ~(NumItems < Len(s))  BY <1>3, ItemsFinite
  <2> QED  BY <1>5, <2>1
<1> QED  BY <1>3, <1>9, <1>10

\* Trees are released one after the other: first those of R, then a later one.
LEMMA ReleaseOneMore ==
  ASSUME NEW p, WellFormed(p), NEW R \in SUBSET Used(p), NEW t \in Used(p), \A u \in R : u < t
  PROVE  /\ Release(Release(p, R), {t}) = Release(p, R \cup {t})
         /\ WellFormed(Release(p, R)) /\ t \in Used(Release(p, R))
         /\ Release(p, R).trees[t] = p.trees[t]
<1> DEFINE h == p.trees[t].head
           q == Release(p, R)
           r == Release(q, {t})
           S == R \cup {t}
           x == Release(p, S)
<1>1. p \in PoolType /\ t \in Trees /\ t \in Owners /\ t # 0 /\ HeadOf(p, t) = h /\ h # max_idx
  BY SizesAssumption DEF WellFormed, Used, Owners, Trees, HeadOf
<1>2. t \notin R /\ t \in Nat /\ R \in SUBSET Trees
  BY <1>1, SizesAssumption DEF Trees, Used
<1>3. /\ WellFormed(q)
      /\ q.trees = [u \in Trees |-> IF u \in R THEN [p.trees[u] EXCEPT !.head = max_idx] ELSE p.trees[u]]
      /\ \A i \in Chain(p, h) : q.items[i] = p.items[i]
  BY <1>2, ReleaseWellFormed
<1>4. q.trees[t] = p.trees[t] /\ t \in Used(q)  BY <1>1, <1>2, <1>3 DEF Used
<1>5. CASE R = {}
  <2>1. q = p /\ S = {t}  BY <1>5 DEF Release
  <2> QED  BY <1>3, <1>4, <2>1
<1>6. CASE R # {}
  <2>1. PICK own, rank : \E B \in Nat : Linked(p, own, rank, B)  BY DEF WellFormed
  <2>2. PICK B \in Nat : Linked(p, own, rank, B)  BY <2>1
  <2>3. Released(p, q, R, own) /\ q \in PoolType  BY <1>1, <1>6, <2>2, ReleaseIsReleased
  <2>4. Released(p, x, S, own) /\ x \in PoolType  BY <1>1, <2>2, ReleaseIsReleased
  <2>5. PICK s : Path(p, h, s)  BY BodyIsPath
  <2>6. /\ Len(s) \in Nat \ {0}
        /\ \A j \in 1 .. Len(s) : s[j] \in Chain(p, h) /\ s[j] \in Items
        /\ \A i \in Chain(p, h) : \E j \in 1 .. Len(s) : s[j] = i
        /\ \A i, j \in 1 .. Len(s) : s[i] = s[j] => i = j
        /\ s[Len(s)] = LastOf(p, h)
    BY <1>1, <2>5, PathIsList
  <2>7. Chain(p, h) = {i \in Items : own[i] = t}  BY <1>1, <2>2, ChainIsOwned
  <2>8. Path(q, h, s)
    <3>1. \A j \in 1 .. Len(s) : NextOf(q, s[j]) = NextOf(p, s[j])  BY <1>3, <2>6 DEF NextOf
    <3>2. Len(s) \in 1 .. Len(s) /\ \A j \in 1 .. Len(s) - 1 : j \in 1 .. Len(s)  BY <2>6
    <3> QED  BY <2>5, <3>1, <3>2 DEF Path
  <2>9. r = Moved(q, t, s, Len(s))  BY <1>3, <1>4, <2>8, ReleaseIsMoved
  <2>10. MovedTo(q, r, t, s, Len(s)) /\ HeadAfter(s, Len(s)) = max_idx /\ Len(s) # 0
    <3>1. Len(s) \in 0 .. Len(s)  BY <2>6
    <3> QED  BY <1>1, <2>3, <2>6, <2>9, <3>1, MovedParts DEF HeadAfter
  <2> HIDE DEF q, r, x
  <2>11. Max(S) = t
    <3>1. S \in SUBSET (0 .. t) /\ S # {}  BY <1>2, SizesAssumption DEF Trees
    <3>2. Max(S) \in S /\ \A n \in S : n <= Max(S)  BY <1>2, <3>1, MaxIsGreatest
    <3>3. Max(S) \in Nat /\ t <= Max(S)  BY <3>1, <3>2
    <3>4. Max(S) \notin R  BY <1>2, <3>3
    <3> QED  BY <3>2, <3>4
  <2>12. r.trees = x.trees
    <3>1. r.trees = [u \in Trees |-> IF u \in {t} THEN [q.trees[u] EXCEPT !.head = max_idx] ELSE q.trees[u]]
      <4>1. r.trees = [q.trees EXCEPT ![t].head = max_idx]  BY <2>10 DEF MovedTo
      <4> QED  BY <1>1, <2>3, <4>1, HeadTwice DEF PoolType
    <3>2. x.trees = [u \in Trees |-> IF u \in S THEN [p.trees[u] EXCEPT !.head = max_idx] ELSE p.trees[u]]
      BY <2>4 DEF Released
    <3>3. \A u \in Trees : (IF u \in {t} THEN [q.trees[u] EXCEPT !.head = max_idx] ELSE q.trees[u])
                         = (IF u \in S THEN [p.trees[u] EXCEPT !.head = max_idx] ELSE p.trees[u])
      BY <1>2, <1>3, <1>4
    <3> QED  BY <3>1, <3>2, <3>3
  <2>13. r.free = x.free
    <3>1. r.free = s[Len(s)]  BY <2>10 DEF MovedTo
    <3>2. x.free = LastOf(p, h)  BY <2>4, <2>11 DEF Released
    <3> QED  BY <2>6, <3>1, <3>2
  <2>14. \A i \in Items : own[i] # t => r.items[i] = q.items[i]
    <3>1. \A i \in Items : own[i] # t => \A j \in 1 .. Len(s) : s[j] # i  BY <2>6, <2>7
    <3> QED  BY <2>10, <3>1 DEF MovedTo
  <2>15. ASSUME NEW y \in Item, NEW z \in Item, NEW n, y.next = n, y.data = z.data
         PROVE  y = [z EXCEPT !.next = n]
    BY <2>15 DEF Item
  <2>16. \A i \in Items : /\ q.items[i] \in Item /\ x.items[i] \in Item
                          /\ q.items[i].data = p.items[i].data /\ x.items[i].data = p.items[i].data
    BY <2>3, <2>4 DEF Released
  <2>17. ASSUME NEW i \in Items, own[i] = t PROVE r.items[i] = x.items[i]
    <3>1. PICK j \in 1 .. Len(s) : s[j] = i  BY <2>6, <2>7, <2>17
    <3>2. r.items[i] = [q.items[i] EXCEPT !.next = BackAt(q, s, j)]  BY <2>10, <3>1 DEF MovedTo
    <3>3. NextOf(x, i) = BackAt(q, s, j)
      <4>1. CASE j = 1
        <5>1. i = h  BY <2>5, <3>1, <4>1, OnThePath
        <5>2. {u \in S : u < t} = R
          <6>1. ~(t < t)  BY <1>2
          <6>2. \A u : u \in S /\ u < t <=> u \in R  BY <6>1
          <6> QED  BY <6>2
        <5>3. NextOf(x, h) = LastOf(p, p.trees[Max(R)].head)  BY <1>6, <2>4, <5>2 DEF Released
        <5>4. q.free = LastOf(p, p.trees[Max(R)].head)  BY <2>3 DEF Released
        <5> QED  BY <4>1, <5>1, <5>3, <5>4 DEF BackAt
      <4>2. CASE j # 1
        <5>1. j - 1 \in 1 .. Len(s) - 1 /\ (j - 1) + 1 = j /\ 1 \in 1 .. Len(s) /\ j - 1 \in 1 .. Len(s)
          BY <2>6, <4>2
        <5>2. NextOf(p, s[j - 1]) = i /\ s[1] = h  BY <2>5, <3>1, <5>1, OnThePath
        <5>3. i # h  BY <2>6, <3>1, <4>2, <5>1, <5>2
        <5>4. NextOf(x, i) \in Items /\ NextOf(p, NextOf(x, i)) = i  BY <2>4, <2>17, <5>3 DEF Released
        <5>5. s[j - 1] \in Items  BY <2>6, <5>1
        <5>6. NextOf(x, i) = s[j - 1]  BY <2>2, <5>2, <5>4, <5>5, NilIsNoItem DEF Linked
        <5> QED  BY <4>2, <5>6 DEF BackAt
      <4> QED  BY <4>1, <4>2
    <3>4. x.items[i] = [q.items[i] EXCEPT !.next = BackAt(q, s, j)]
      BY <2>15, <2>16, <3>3 DEF NextOf
    <3> QED  BY <3>2, <3>4
  <2>18. ASSUME NEW i \in Items, own[i] \in R PROVE q.items[i] = x.items[i]
    <3>1. NextOf(q, i) = NextOf(x, i)
      <4>1. CASE i = p.trees[own[i]].head
        <5> DEFINE u == own[i]
                   list(T) == LET earlier == {v \in T : v < u}
                              IN  IF earlier = {} THEN p.free ELSE LastOf(p, p.trees[Max(earlier)].head)
        <5>1. NextOf(q, p.trees[u].head) = list(R)  BY <2>3, <2>18 DEF Released
        <5>2. u \in S  BY <2>18
        <5>3. NextOf(x, p.trees[u].head) = list(S)  BY <2>4, <5>2 DEF Released
        <5>4. {v \in R : v < u} = {v \in S : v < u}
          <6>1. own[i] < t /\ own[i] \in Nat
            <7>1. own[i] \in Trees  BY <1>2, <2>18
            <7> QED  BY <2>18, <7>1, SizesAssumption DEF Trees
          <6>2. ~(t < own[i])  BY <1>2, <6>1
          <6>3. \A v : (v \in R /\ v < own[i]) <=> (v \in S /\ v < own[i])  BY <6>2
          <6> QED  BY <6>3
        <5> QED  BY <4>1, <5>1, <5>3, <5>4
      <4>2. CASE i # p.trees[own[i]].head
        <5>1. NextOf(q, i) \in Items /\ NextOf(p, NextOf(q, i)) = i  BY <2>3, <2>18, <4>2 DEF Released
        <5>2. own[i] \in S  BY <2>18
        <5>3. NextOf(x, i) \in Items /\ NextOf(p, NextOf(x, i)) = i  BY <2>4, <4>2, <5>2 DEF Released
        <5> QED  BY <2>2, <5>1, <5>3, NilIsNoItem DEF Linked
      <4> QED  BY <4>1, <4>2
    <3>2. ASSUME NEW y \in Item, NEW z \in Item, y.next = z.next, y.data = z.data PROVE y = z
      BY <3>2 DEF Item
    <3> QED  BY <2>16, <3>1, <3>2 DEF NextOf
  <2>19. ASSUME NEW i \in Items, own[i] \notin S PROVE q.items[i] = x.items[i]
    <3>1. own[i] \notin R  BY <2>19
    <3> QED  BY <2>3, <2>4, <2>19, <3>1 DEF Released
  <2>20. r.items = x.items
    <3>1. \A i \in Items : r.items[i] = x.items[i]  BY <1>2, <2>14, <2>17, <2>18, <2>19
    <3>2. r.items = [i \in Items |-> r.items[i]]  BY <2>10 DEF MovedTo
    <3>3. x.items = [i \in Items |-> x.items[i]]  BY <2>4 DEF PoolType
    <3> QED  BY <3>1, <3>2, <3>3
  <2>21. r = [trees |-> r.trees, items |-> r.items, free |-> r.free]  BY <2>10 DEF MovedTo
  <2>22. x = [trees |-> x.trees, items |-> x.items, free |-> x.free]  BY <2>4 DEF PoolType
  <2>23. r = x  BY <2>12, <2>13, <2>20, <2>21, <2>22
  <2> QED  BY <1>3, <1>4, <2>23 DEF q, r, x
<1> QED  BY <1>5, <1>6

\* remove(extid) releases the trees of the key, in the order of the array.
LEMMA RemoveLoopReleases ==
  ASSUME NEW p, WellFormed(p), NEW k
  PROVE  RemoveLoop(p, k) = Remove(p, k)
<1> DEFINE W == Working(p, k)
           upto(t) == {u \in W : u <= t}
           g == [t \in 0 .. NumTrees |-> Release(p, upto(t))]
<1>1. W \in SUBSET Used(p) /\ W \in SUBSET Trees /\ NumTrees \in Nat
  BY SizesAssumption DEF Working, Partial, Used
<1>2. \A t \in 0 .. NumTrees : g[t] = Release(p, upto(t))  OBVIOUS
<1>3. OfTurns(g, NumTrees)  BY DEF OfTurns
<1> HIDE DEF g
<1>4. g[0] = p
  <2>1. upto(0) = {}  BY <1>1 DEF Trees
  <2>2. 0 \in 0 .. NumTrees  BY <1>1
  <2>3. Release(p, {}) = p  BY DEF Release
  <2> QED  BY <1>2, <2>1, <2>2, <2>3
<1>5. ASSUME NEW t \in 1 .. NumTrees PROVE g[t] = RemoveTurn(g[t - 1], k, t)
  <2> DEFINE R == upto(t - 1)
             q == Release(p, R)
  <2>1. t \in 0 .. NumTrees /\ t - 1 \in 0 .. NumTrees /\ t \in Trees  BY <1>1 DEF Trees
  <2>2. g[t] = Release(p, upto(t)) /\ g[t - 1] = q  BY <1>2, <2>1
  <2>3. R \in SUBSET Used(p) /\ t \notin R /\ \A u \in R : u < t
    <3>1. \A u \in W : u \in Nat  BY <1>1 DEF Trees
    <3> QED  BY <1>1, <2>1, <3>1
  <2>4. q.trees[t] = p.trees[t]
    <3>1. q.trees = [u \in Trees |-> IF u \in R THEN [p.trees[u] EXCEPT !.head = max_idx] ELSE p.trees[u]]
      BY <2>3, ReleaseWellFormed
    <3> HIDE DEF q, R
    <3> QED  BY <2>1, <2>3, <3>1
  <2>5. t \in W <=> ~(q.trees[t].head = max_idx \/ q.trees[t].dlc # 0 \/ q.trees[t].key # k)
    BY <2>1, <2>4 DEF Working, Partial, Used
  <2>6. \A u \in W : u <= t <=> u <= t - 1 \/ u = t
    <3>1. \A u \in W : u \in Nat  BY <1>1 DEF Trees
    <3> QED  BY <2>1, <3>1
  <2>7. CASE t \notin W
    <3>1. upto(t) = R  BY <2>6, <2>7
    <3> HIDE DEF R, upto, W
    <3> QED  BY <2>2, <2>5, <2>7, <3>1 DEF RemoveTurn
  <2>8. CASE t \in W
    <3>1. upto(t) = R \cup {t}  BY <2>1, <2>6, <2>8
    <3>2. t \in Used(p)  BY <1>1, <2>8
    <3> HIDE DEF R, upto, W
    <3>3. Release(q, {t}) = Release(p, R \cup {t}) /\ WellFormed(q) /\ t \in Used(q)
      BY <2>3, <3>2, ReleaseOneMore
    <3>4. RemoveTurn(q, k, t) = RemoveTree(q, t)  BY <2>5, <2>8 DEF RemoveTurn
    <3>5. RemoveTree(q, t) = Release(q, {t})  BY <3>3, RemoveTreeReleases
    <3> QED  BY <2>2, <3>1, <3>3, <3>4, <3>5
  <2> QED  BY <2>7, <2>8
<1>6. RemoveLoop(p, k) = g[NumTrees]  BY <1>3, <1>4, <1>5, RemoveLoopIs
<1>7. g[NumTrees] = Release(p, W)
  <2>1. upto(NumTrees) = W  BY <1>1 DEF Trees
  <2>2. NumTrees \in 0 .. NumTrees  BY <1>1
  <2> QED  BY <1>2, <2>1, <2>2
<1> QED  BY <1>6, <1>7 DEF Remove

\* The pool with the countdowns of D one lower.
CountedDown(q, D) ==
    [trees |-> [t \in Trees |-> IF t \in D THEN [q.trees[t] EXCEPT !.to = @ - 1] ELSE q.trees[t]],
     items |-> q.items, free |-> q.free]

\* Counting down leaves the lists and everything else.
LEMMA CountedDownIs ==
  ASSUME NEW q, WellFormed(q), NEW D \in SUBSET Trees, \A t \in D : q.trees[t].to # 0
  PROVE  /\ WellFormed(CountedDown(q, D))
         /\ CountedDown(q, D).items = q.items /\ CountedDown(q, D).free = q.free
         /\ \A t \in Trees : CountedDown(q, D).trees[t].head = q.trees[t].head
         /\ \A t \in Trees \ D : CountedDown(q, D).trees[t] = q.trees[t]
<1> DEFINE r == CountedDown(q, D)
           T == [t \in Trees |-> IF t \in D THEN [q.trees[t] EXCEPT !.to = @ - 1] ELSE q.trees[t]]
<1>1. q \in PoolType /\ q.trees \in [Trees -> Tree]  BY DEF WellFormed, PoolType
<1>2. r = [trees |-> T, items |-> q.items, free |-> q.free]  BY DEF CountedDown
<1>3. \A x \in Tree : /\ x.to # 0 => [x EXCEPT !.to = @ - 1] \in Tree
                      /\ [x EXCEPT !.to = @ - 1].head = x.head
  BY SizesAssumption DEF Tree
<1>4. /\ \A t \in Trees : T[t] \in Tree /\ T[t].head = q.trees[t].head
      /\ \A t \in Trees \ D : T[t] = q.trees[t]
      /\ T \in [Trees -> Tree]
  <2>1. ASSUME NEW t \in Trees PROVE T[t] \in Tree /\ T[t].head = q.trees[t].head /\ (t \notin D => T[t] = q.trees[t])
    <3>1. q.trees[t] \in Tree  BY <1>1
    <3>2. CASE t \in D  BY <1>3, <3>1, <3>2
    <3>3. CASE t \notin D  BY <3>1, <3>3
    <3> QED  BY <3>2, <3>3
  <2>2. T = [t \in Trees |-> T[t]]  OBVIOUS
  <2> HIDE DEF T
  <2>3. T \in [Trees -> Tree]  BY <2>1, <2>2
  <2> QED  BY <2>1, <2>3
<1> HIDE DEF T, r
<1>5. r.trees = T /\ r.items = q.items /\ r.free = q.free  BY <1>2
<1>6. r \in PoolType  BY <1>1, <1>2, <1>4 DEF PoolType
<1>7. WellFormed(r)  BY <1>4, <1>5, <1>6, SameHeads
<1> QED  BY <1>4, <1>5, <1>7 DEF r

\* A tree that is released has no part in the countdowns.
LEMMA ReleaseCounted ==
  ASSUME NEW q, WellFormed(q), NEW D \in SUBSET Trees, \A u \in D : q.trees[u].to # 0,
         NEW t \in Used(q), t \notin D
  PROVE  RemoveTree(CountedDown(q, D), t) = CountedDown(Release(q, {t}), D)
<1> DEFINE c == CountedDown(q, D)
<1>1. /\ WellFormed(c) /\ c.items = q.items /\ c.free = q.free
      /\ \A u \in Trees : c.trees[u].head = q.trees[u].head
      /\ c.trees[t] = q.trees[t]
      /\ t \in Trees
  BY CountedDownIs DEF Used
<1>2. t \in Used(c)  BY <1>1 DEF Used
<1>3. PICK s : Path(q, q.trees[t].head, s)  BY BodyIsPath
<1>4. c.trees = [u \in Trees |-> IF u \in D THEN [q.trees[u] EXCEPT !.to = @ - 1] ELSE q.trees[u]]
  BY DEF CountedDown
<1> HIDE DEF c
<1>5. Path(c, c.trees[t].head, s)
  <2>1. \A i : NextOf(c, i) = NextOf(q, i)  BY <1>1 DEF NextOf
  <2> QED  BY <1>1, <1>3, <2>1 DEF Path
<1>6. RemoveTree(c, t) = Moved(c, t, s, Len(s))
  <2>1. WellFormed(c)  BY <1>1
  <2>2. RemoveTree(c, t) = Release(c, {t})  BY <1>2, <2>1, RemoveTreeReleases
  <2>3. Release(c, {t}) = Moved(c, t, s, Len(s))  BY <1>2, <1>5, <2>1, ReleaseIsMoved
  <2> QED  BY <2>2, <2>3
<1>7. Release(q, {t}) = Moved(q, t, s, Len(s))  BY <1>3, ReleaseIsMoved
<1> DEFINE x == Moved(c, t, s, Len(s))
           y == Moved(q, t, s, Len(s))
<1>8. x.items = y.items /\ x.free = y.free
  <2>1. \A j : BackAt(c, s, j) = BackAt(q, s, j)  BY <1>1 DEF BackAt
  <2> QED  BY <1>1, <2>1 DEF Moved
<1>9. /\ x = [trees |-> x.trees, items |-> x.items, free |-> x.free]
      /\ x.trees = [c.trees EXCEPT ![t].head = HeadAfter(s, Len(s))]
      /\ y.trees = [q.trees EXCEPT ![t].head = HeadAfter(s, Len(s))]
  BY DEF Moved
<1> HIDE DEF x, y
<1>10. x.trees = [u \in Trees |-> IF u \in D THEN [y.trees[u] EXCEPT !.to = @ - 1] ELSE y.trees[u]]
  <2> DEFINE h == HeadAfter(s, Len(s))
             Z == [u \in Trees |-> IF u \in D THEN [y.trees[u] EXCEPT !.to = @ - 1] ELSE y.trees[u]]
  <2>1. q.trees \in [Trees -> Tree] /\ c.trees \in [Trees -> Tree]  BY <1>1 DEF WellFormed, PoolType
  <2>2. x.trees = [u \in Trees |-> IF u \in {t} THEN [c.trees[u] EXCEPT !.head = h] ELSE c.trees[u]]
    BY <1>1, <1>9, <2>1, HeadTwice
  <2>3. y.trees = [u \in Trees |-> IF u \in {t} THEN [q.trees[u] EXCEPT !.head = h] ELSE q.trees[u]]
    BY <1>1, <1>9, <2>1, HeadTwice
  <2> HIDE DEF h
  <2>4. \A u \in Trees : (IF u \in {t} THEN [c.trees[u] EXCEPT !.head = h] ELSE c.trees[u])
                         = (IF u \in D THEN [y.trees[u] EXCEPT !.to = @ - 1] ELSE y.trees[u])
    <3> SUFFICES ASSUME NEW u \in Trees
                 PROVE  (IF u \in {t} THEN [c.trees[u] EXCEPT !.head = h] ELSE c.trees[u])
                        = (IF u \in D THEN [y.trees[u] EXCEPT !.to = @ - 1] ELSE y.trees[u])
      OBVIOUS
    <3>1. CASE u = t  BY <1>1, <2>3, <3>1
    <3>2. CASE u # t
      <4>1. y.trees[u] = q.trees[u]  BY <2>3, <3>2
      <4>2. c.trees[u] = IF u \in D THEN [q.trees[u] EXCEPT !.to = @ - 1] ELSE q.trees[u]  BY <1>4
      <4> QED  BY <3>2, <4>1, <4>2
    <3> QED  BY <3>1, <3>2
  <2> QED  BY <2>2, <2>4
<1>11. x = CountedDown(y, D)  BY <1>8, <1>9, <1>10 DEF CountedDown
<1> QED  BY <1>6, <1>7, <1>11 DEF c, x, y

\* timeout() counts down or releases, tree by tree.
LEMMA TimeoutLoopTimesOut ==
  ASSUME NEW p, Good(p)
  PROVE  TimeoutLoop(p) = TimeoutAll(p)
<1> DEFINE X == Expired(p)
           Y == Partial(p) \ X
           upto(S, t) == {u \in S : u <= t}
           at(t) == CountedDown(Release(p, upto(X, t)), upto(Y, t))
           g == [t \in 0 .. NumTrees |-> at(t)]
<1>1. /\ X \in SUBSET Used(p) /\ X \in SUBSET Partial(p) /\ Y \in SUBSET Trees /\ X \in SUBSET Trees
      /\ NumTrees \in Nat /\ WellFormed(p) /\ p \in PoolType /\ p.trees \in [Trees -> Tree]
  BY SizesAssumption DEF Expired, Partial, Used, Good, WellFormed, PoolType
<1>2. \A t \in 0 .. NumTrees : g[t] = at(t)  OBVIOUS
<1>3. OfTurns(g, NumTrees)  BY DEF OfTurns
<1> HIDE DEF g
<1>4. /\ \A t \in Trees : t \in X <=> p.trees[t].head # max_idx /\ p.trees[t].dlc = 0 /\ p.trees[t].to = 0
      /\ \A t \in Trees : t \in Y <=> p.trees[t].head # max_idx /\ p.trees[t].dlc = 0 /\ p.trees[t].to # 0
  BY DEF Expired, Partial, Used
<1> HIDE DEF X, Y
<1>5. ASSUME NEW R \in SUBSET X
      PROVE  /\ WellFormed(Release(p, R))
             /\ \A u \in Trees \ R : Release(p, R).trees[u] = p.trees[u]
             /\ Release(p, R) \in PoolType
  BY <1>1, <1>5, ReleaseGood DEF Good, WellFormed
<1>6. \A q \in PoolType : CountedDown(q, {}) = q
  <2> SUFFICES ASSUME NEW q \in PoolType PROVE CountedDown(q, {}) = q  OBVIOUS
  <2>1. q = [trees |-> q.trees, items |-> q.items, free |-> q.free]
        /\ q.trees = [t \in Trees |-> q.trees[t]]
    BY DEF PoolType
  <2>2. [t \in Trees |-> IF t \in {} THEN [q.trees[t] EXCEPT !.to = @ - 1] ELSE q.trees[t]] = q.trees
    BY <2>1
  <2> QED  BY <2>1, <2>2 DEF CountedDown
<1>7. g[0] = p
  <2>1. upto(X, 0) = {} /\ upto(Y, 0) = {}  BY <1>1 DEF Trees
  <2>2. 0 \in 0 .. NumTrees  BY <1>1
  <2>3. Release(p, {}) = p  BY DEF Release
  <2> QED  BY <1>1, <1>2, <1>6, <2>1, <2>2, <2>3
<1>8. ASSUME NEW t \in 1 .. NumTrees PROVE g[t] = TimeoutTurn(g[t - 1], t)
  <2> DEFINE R == upto(X, t - 1)
             D == upto(Y, t - 1)
             q == Release(p, R)
             c == CountedDown(q, D)
  <2>1. t \in 0 .. NumTrees /\ t - 1 \in 0 .. NumTrees /\ t \in Trees  BY <1>1 DEF Trees
  <2>2. g[t] = CountedDown(Release(p, upto(X, t)), upto(Y, t)) /\ g[t - 1] = c  BY <1>2, <2>1
  <2>3. /\ R \in SUBSET X /\ D \in SUBSET Y /\ t \notin R /\ t \notin D /\ \A u \in R : u < t
        /\ \A u \in D : u \in Trees \ R
    <3>1. \A u \in Trees : u \in Nat  BY <1>1 DEF Trees
    <3>2. \A u \in Y : u \notin X  BY <1>1, <1>4
    <3> QED  BY <1>1, <2>1, <3>1, <3>2
  <2>4. /\ \A S : (S \in SUBSET Trees /\ t \notin S) => upto(S, t) = upto(S, t - 1)
        /\ \A S : (S \in SUBSET Trees /\ t \in S) => upto(S, t) = upto(S, t - 1) \cup {t}
    <3>1. \A u \in Trees : u <= t <=> (u <= t - 1 \/ u = t)
      <4>1. \A u \in Trees : u \in Nat  BY <1>1 DEF Trees
      <4> QED  BY <2>1, <4>1
    <3> QED  BY <3>1
  <2> DEFINE X1 == upto(X, t)
             Y1 == upto(Y, t)
  <2>5. /\ t \notin X => X1 = R
        /\ t \in X => X1 = R \cup {t}
        /\ t \notin Y => Y1 = D
        /\ t \in Y => Y1 = D \cup {t}
    BY <1>1, <2>4
  <2>6. g[t] = CountedDown(Release(p, X1), Y1)  BY <2>2
  <2> HIDE DEF R, D, X1, Y1
  <2>7. WellFormed(q) /\ q \in PoolType /\ \A u \in Trees \ R : q.trees[u] = p.trees[u]
    BY <1>5, <2>3
  <2>8. \A u \in D : q.trees[u].to # 0  BY <1>1, <1>4, <2>3, <2>7
  <2>9. D \in SUBSET Trees  BY <1>1, <2>3
  <2>10. c.trees[t] = p.trees[t] /\ q.trees[t] = p.trees[t]
    <3>1. t \in Trees \ D /\ t \in Trees \ R  BY <2>1, <2>3
    <3> HIDE DEF q
    <3> QED  BY <2>7, <2>8, <2>9, <3>1, CountedDownIs
  <2>11. CASE t \notin X /\ t \notin Y
    <3>1. g[t] = c  BY <2>5, <2>6, <2>11
    <3>2. p.trees[t].head = max_idx \/ p.trees[t].dlc # 0  BY <1>4, <2>1, <2>11
    <3> HIDE DEF c
    <3>3. TimeoutTurn(c, t) = c  BY <2>10, <3>2 DEF TimeoutTurn
    <3> QED  BY <2>2, <3>1, <3>3
  <2>12. CASE t \in X
    <3>1. t \notin Y /\ t \in Used(p) /\ R \in SUBSET Used(p)  BY <1>1, <1>4, <2>1, <2>3, <2>12
    <3>2. g[t] = CountedDown(Release(p, R \cup {t}), D)  BY <2>5, <2>6, <2>12, <3>1
    <3>3. Release(q, {t}) = Release(p, R \cup {t}) /\ t \in Used(q)
      BY <1>1, <2>3, <3>1, ReleaseOneMore
    <3>4. TimeoutTurn(c, t) = RemoveTree(c, t)
      <4> HIDE DEF c
      <4>1. ~(c.trees[t].head = max_idx \/ c.trees[t].dlc # 0) /\ c.trees[t].to = 0
        BY <1>4, <2>1, <2>10, <2>12
      <4> QED  BY <4>1 DEF TimeoutTurn
    <3> HIDE DEF q
    <3>5. RemoveTree(CountedDown(q, D), t) = CountedDown(Release(q, {t}), D)
      BY <2>3, <2>7, <2>8, <2>9, <3>3, ReleaseCounted
    <3> QED  BY <2>2, <3>2, <3>3, <3>4, <3>5
  <2>13. CASE t \in Y
    <3>1. t \notin X  BY <1>4, <2>1, <2>13
    <3>2. g[t] = CountedDown(q, D \cup {t})  BY <2>5, <2>6, <2>13, <3>1
    <3>3. TimeoutTurn(c, t) = [trees |-> [c.trees EXCEPT ![t].to = @ - 1], items |-> c.items, free |-> c.free]
      <4> HIDE DEF c
      <4>1. ~(c.trees[t].head = max_idx \/ c.trees[t].dlc # 0) /\ c.trees[t].to # 0
        BY <1>4, <2>1, <2>10, <2>13
      <4> QED  BY <4>1 DEF TimeoutTurn
    <3>4. /\ c.items = q.items /\ c.free = q.free
          /\ c.trees = [u \in Trees |-> IF u \in D THEN [q.trees[u] EXCEPT !.to = @ - 1] ELSE q.trees[u]]
      BY DEF CountedDown
    <3> HIDE DEF c, q
    <3>5. [c.trees EXCEPT ![t].to = @ - 1]
          = [u \in Trees |-> IF u \in D \cup {t} THEN [q.trees[u] EXCEPT !.to = @ - 1] ELSE q.trees[u]]
      <4> DEFINE C == c.trees
                 N == [C EXCEPT ![t].to = @ - 1]
      <4>1. /\ N = [u \in Trees |-> N[u]]
            /\ N[t] = [C[t] EXCEPT !.to = @ - 1] /\ \A u \in Trees \ {t} : N[u] = C[u]
        <5>1. C = [u \in Trees |-> C[u]]  BY <3>4
        <5> HIDE DEF C
        <5> QED  BY <2>1, <5>1
      <4>2. \A u \in Trees : C[u] = IF u \in D THEN [q.trees[u] EXCEPT !.to = @ - 1] ELSE q.trees[u]
        BY <3>4
      <4> HIDE DEF N, C
      <4>3. \A u \in Trees : N[u] = IF u \in D \cup {t} THEN [q.trees[u] EXCEPT !.to = @ - 1] ELSE q.trees[u]
        <5> SUFFICES ASSUME NEW u \in Trees
                     PROVE  N[u] = IF u \in D \cup {t} THEN [q.trees[u] EXCEPT !.to = @ - 1] ELSE q.trees[u]
          OBVIOUS
        <5>1. CASE u = t
          <6>1. C[t] = q.trees[t]  BY <2>1, <2>3, <4>2
          <6> QED  BY <4>1, <5>1, <6>1
        <5>2. CASE u # t  BY <4>1, <4>2, <5>2
        <5> QED  BY <5>1, <5>2
      <4> QED  BY <4>1, <4>3 DEF N, C
    <3> QED  BY <2>2, <3>2, <3>3, <3>4, <3>5 DEF CountedDown
  <2> QED  BY <2>11, <2>12, <2>13
<1>9. TimeoutLoop(p) = g[NumTrees]  BY <1>3, <1>7, <1>8, TimeoutLoopIs
<1>10. g[NumTrees] = CountedDown(Release(p, X), Y)
  <2>1. \A u \in Trees : u <= NumTrees  BY <1>1 DEF Trees
  <2>2. upto(X, NumTrees) = X /\ upto(Y, NumTrees) = Y  BY <1>1, <2>1
  <2>3. NumTrees \in 0 .. NumTrees  BY <1>1
  <2> QED  BY <1>2, <2>2, <2>3
<1>11. TimeoutAll(p) = CountedDown(Release(p, X), Y)
  <2> DEFINE q == Release(p, X)
             T == [t \in Trees |-> IF t \in Y THEN [q.trees[t] EXCEPT !.to = @ - 1] ELSE q.trees[t]]
  <2>1. q \in PoolType  BY <1>5
  <2>2. Partial(q) = Y  BY <1>1, ReleaseGood DEF Y
  <2>3. TimeoutAll(p) = [q EXCEPT !.trees = T]  BY <2>2 DEF TimeoutAll, X
  <2> HIDE DEF q
  <2>4. [q EXCEPT !.trees = T] = [trees |-> T, items |-> q.items, free |-> q.free]
    <3> HIDE DEF T
    <3> QED  BY <2>1 DEF PoolType
  <2> QED  BY <2>3, <2>4 DEF CountedDown, q
<1> QED  BY <1>9, <1>10, <1>11

\* What the loop of read_packet(Tree &) has after each turn.
CopyTurns(p, t, sz, g) ==
    /\ g[0] = [next |-> p.trees[t].head,
               copy |-> [key |-> p.trees[t].key, blocks |-> <<>>, size |-> 2]]
    /\ \A n \in 1 .. NumItems : g[n] = CopyTurn(p, t, sz, g[n - 1])

\* What it computes.
LEMMA CopyLoopIs ==
  ASSUME NEW p, NEW t, NEW sz, NEW g, OfTurns(g, NumItems), CopyTurns(p, t, sz, g)
  PROVE  CopyLoop(p, t, sz) = g[NumItems]
<1> DEFINE x == [next |-> p.trees[t].head,
                 copy |-> [key |-> p.trees[t].key, blocks |-> <<>>, size |-> 2]]
           After(f) == f = [n \in 0 .. NumItems |-> IF n = 0 THEN x ELSE CopyTurn(p, t, sz, f[n - 1])]
           f == CHOOSE f : After(f)
<1>1. CopyLoop(p, t, sz) = f[NumItems]  BY DEF CopyLoop
<1>2. g[0] = x /\ \A n \in 1 .. NumItems : g[n] = CopyTurn(p, t, sz, g[n - 1])  BY DEF CopyTurns
<1> HIDE DEF x
<1>3. After(g)
  <2>1. ASSUME NEW n \in 0 .. NumItems PROVE g[n] = IF n = 0 THEN x ELSE CopyTurn(p, t, sz, g[n - 1])
    <3>1. n # 0 => n \in 1 .. NumItems  BY ItemsFinite
    <3> QED  BY <1>2, <3>1
  <2> QED  BY <2>1 DEF OfTurns
<1>4. After(f)  BY <1>3
<1> HIDE DEF f
<1>5. f[0] = x /\ \A n \in 1 .. NumItems : f[n] = CopyTurn(p, t, sz, f[n - 1])
  <2>1. \A n \in 0 .. NumItems : f[n] = IF n = 0 THEN x ELSE CopyTurn(p, t, sz, f[n - 1])  BY <1>4
  <2> QED  BY <2>1, ItemsFinite
<1>6. \A n \in 0 .. NumItems : f[n] = g[n]
  <2>1. \A n \in 1 .. NumItems : f[n - 1] = g[n - 1] => f[n] = g[n]  BY <1>2, <1>5
  <2>2. f[0] = g[0]  BY <1>2, <1>5
  <2>3. PICK N \in Nat : N = NumItems  BY ItemsFinite
  <2>4. \A n \in 1 .. N : f[n - 1] = g[n - 1] => f[n] = g[n]  BY <2>1, <2>3
  <2>5. \A n \in 0 .. N : f[n] = g[n]  BY <2>2, <2>4, SameTurns
  <2> QED  BY <2>3, <2>5
<1> QED  BY <1>1, <1>6, ItemsFinite

\* The next element of a sequence behind the ones before it.
LEMMA OneMore ==
  ASSUME NEW S, NEW body \in Seq(S), NEW m \in 1 .. Len(body)
  PROVE  /\ Append(SubSeq(body, 1, m - 1), body[m]) = SubSeq(body, 1, m)
         /\ SubSeq(body, 1, 0) = <<>>
<1>1. Len(body) \in Nat /\ m \in Nat /\ m - 1 \in Nat /\ body[m] \in S  BY ElementOfSeq
<1> DEFINE a == SubSeq(body, 1, m - 1)
           b == SubSeq(body, 1, m)
           c == Append(a, body[m])
<1>2. a \in Seq(S) /\ Len(a) = m - 1 /\ \A j \in 1 .. m - 1 : a[j] = body[j]
  BY <1>1, SubSeqProperties
<1>3. b \in Seq(S) /\ Len(b) = m /\ \A j \in 1 .. m : b[j] = body[j]
  BY <1>1, SubSeqProperties
<1> HIDE DEF a, b
<1>4. c \in Seq(S) /\ Len(c) = m /\ c[m] = body[m] /\ \A j \in 1 .. m - 1 : c[j] = a[j]
  BY <1>1, <1>2, AppendProperties
<1> HIDE DEF c
<1>5. \A j \in 1 .. m : j = m \/ j \in 1 .. m - 1  BY <1>1
<1>6. \A j \in 1 .. m : c[j] = b[j]  BY <1>2, <1>3, <1>4, <1>5
<1>7. c = b  BY <1>3, <1>4, <1>6, SeqEqual
<1>8. SubSeq(body, 1, 0) = <<>>
  <2>1. SubSeq(body, 1, 0) \in Seq(S) /\ Len(SubSeq(body, 1, 0)) = 0  BY <1>1, SubSeqProperties
  <2> QED  BY <2>1, EmptySeq
<1> QED  BY <1>7, <1>8 DEF a, b, c

\* read_packet(Tree &) copies what Copy says, whatever the size of the buffer.
LEMMA CopyLoopCopies ==
  ASSUME NEW p, WellFormed(p), NEW t \in Finished(p), NEW sz \in Nat \ {0, 1}
  PROVE  CopyLoop(p, t, sz) = [next |-> max_idx, copy |-> Copy(p, t, sz)]
<1> DEFINE body == Body(p, t)
           last == p.trees[t].dlc
           C    == Copy(p, t, sz)
           key  == p.trees[t].key
<1>1. t \in Used(p) /\ t \in Owners /\ t \in Trees /\ t # 0
      /\ HeadOf(p, t) = p.trees[t].head /\ p.trees[t].head # max_idx
  BY SizesAssumption DEF Finished, Used, Owners, Trees, HeadOf
<1>2. PICK s : Path(p, p.trees[t].head, s) /\ body = DataOf(p, s)  BY <1>1, BodyIsPath
<1>3. Len(s) \in Nat \ {0} /\ Len(s) <= NumItems  BY <1>1, <1>2, PathIsList
<1>4. body \in Seq(Blocks) /\ Len(body) = Len(s) /\ \A j \in 1 .. Len(s) : body[j] = p.items[s[j]].data
  BY <1>1, <1>2, BodyType DEF DataOf
<1>5. last \in 1 .. 8 \cup {ZeroLength}  BY CopyIs
<1>6. PICK full \in Nat, fits \in BOOLEAN : CopyOf(C, body, Len(body), last, sz, full, fits)
  BY CopyIs
<1>7. C = [key |-> key, blocks |-> C.blocks, size |-> C.size]
  <2>1. \A f : \A k, b, n : f = [key |-> k, blocks |-> b, size |-> n] => f = [key |-> k, blocks |-> f.blocks, size |-> f.size]
    OBVIOUS
  <2>2. \E b, n : C = [key |-> key, blocks |-> b, size |-> n]  BY DEF Copy
  <2> QED  BY <2>1, <2>2
<1> HIDE DEF body, last, C, key
<1>8. /\ full \in 0 .. Len(s) - 1 /\ 8 * full + 2 <= sz /\ (full < Len(s) - 1 => sz < 8 * full + 10)
      /\ (fits <=> full = Len(s) - 1 /\ last \in 1 .. 8 /\ 2 + 8 * full + last <= sz)
      /\ C.size = 2 + 8 * full + (IF fits THEN last ELSE 0)
      /\ C.blocks = SubSeq(body, 1, IF fits THEN Len(s) ELSE full)
  BY <1>4, <1>6 DEF CopyOf
<1> DEFINE some(m) == [key |-> key, blocks |-> SubSeq(body, 1, m), size |-> 2 + 8 * m]
           at(m) == IF m <= full THEN [next |-> s[m + 1], copy |-> some(m)]
                    ELSE [next |-> max_idx, copy |-> C]
           g == [m \in 0 .. NumItems |-> at(m)]
<1>9. \A m \in 0 .. NumItems : g[m] = at(m)  OBVIOUS
<1>10. OfTurns(g, NumItems)  BY DEF OfTurns
<1> HIDE DEF g
<1>11. g[0] = [next |-> p.trees[t].head, copy |-> [key |-> key, blocks |-> <<>>, size |-> 2]]
  <2>1. 0 \in 0 .. NumItems /\ 0 <= full /\ 2 + 8 * 0 = 2  BY ItemsFinite
  <2>2. SubSeq(body, 1, 0) = <<>>
    <3>1. 1 \in 1 .. Len(body)  BY <1>3, <1>4
    <3> QED  BY <1>4, <3>1, OneMore
  <2>3. s[0 + 1] = p.trees[t].head  BY <1>2, OnThePath
  <2> QED  BY <1>9, <2>1, <2>2, <2>3
<1>12. ASSUME NEW m \in 1 .. NumItems PROVE g[m] = CopyTurn(p, t, sz, g[m - 1])
  <2>1. m \in 0 .. NumItems /\ m - 1 \in 0 .. NumItems /\ (m - 1) + 1 = m /\ m \in Nat  BY ItemsFinite
  <2>2. g[m] = at(m) /\ g[m - 1] = at(m - 1)  BY <1>9, <2>1
  <2>3. CASE full < m - 1
    <3>1. ~(m <= full) /\ ~(m - 1 <= full)  BY <2>1, <2>3
    <3>2. g[m] = [next |-> max_idx, copy |-> C] /\ g[m - 1] = [next |-> max_idx, copy |-> C]
      BY <2>2, <3>1
    <3> QED  BY <3>2 DEF CopyTurn
  <2>4. CASE m - 1 <= full
    <3> DEFINE c == [next |-> s[m], copy |-> some(m - 1)]
               i == p.items[s[m]]
    <3>1. g[m - 1] = c  BY <2>1, <2>2, <2>4
    <3>2. m \in 1 .. Len(s) /\ m \in 1 .. Len(body)  BY <1>3, <1>4, <1>8, <2>1, <2>4
    <3>3. s[m] # max_idx /\ i.data = body[m]  BY <1>2, <1>4, <3>2, OnThePath
    <3>4. Append(SubSeq(body, 1, m - 1), i.data) = SubSeq(body, 1, m)  BY <1>4, <3>2, <3>3, OneMore
    <3>5. i.next = NextOf(p, s[m])  BY DEF NextOf
    <3> HIDE DEF i
    <3>6. CopyTurn(p, t, sz, c) =
            IF i.next # max_idx
            THEN IF 2 + 8 * (m - 1) + 8 > sz THEN [next |-> max_idx, copy |-> some(m - 1)]
                 ELSE [next |-> i.next,
                       copy |-> [key |-> key, blocks |-> SubSeq(body, 1, m), size |-> 2 + 8 * (m - 1) + 8]]
            ELSE IF last <= 8 /\ 2 + 8 * (m - 1) + last <= sz
            THEN [next |-> i.next,
                  copy |-> [key |-> key, blocks |-> SubSeq(body, 1, m), size |-> 2 + 8 * (m - 1) + last]]
            ELSE [next |-> max_idx, copy |-> some(m - 1)]
      <4>1. c.next = s[m] /\ c.copy.key = key /\ c.copy.blocks = SubSeq(body, 1, m - 1)
            /\ c.copy.size = 2 + 8 * (m - 1) /\ c.copy = some(m - 1)
        OBVIOUS
      <4> HIDE DEF c, some
      <4> QED  BY <3>3, <3>4, <4>1 DEF CopyTurn, i, last
    <3> HIDE DEF c
    <3>7. CASE m <= full
      <4>1. m \in 1 .. Len(s) - 1  BY <1>8, <2>1, <3>7
      <4>2. i.next = s[m + 1] /\ i.next # max_idx  BY <1>2, <3>5, <4>1, OnThePath
      <4>3. ~(2 + 8 * (m - 1) + 8 > sz) /\ 2 + 8 * (m - 1) + 8 = 2 + 8 * m  BY <1>8, <2>1, <3>7
      <4>4. CopyTurn(p, t, sz, c) = [next |-> s[m + 1], copy |-> some(m)]  BY <3>6, <4>2, <4>3
      <4>5. g[m] = [next |-> s[m + 1], copy |-> some(m)]  BY <2>2, <3>7
      <4> QED  BY <3>1, <4>4, <4>5
    <3>8. CASE ~(m <= full)
      <4>1. m - 1 = full /\ m = full + 1  BY <2>1, <2>4, <3>8
      <4>2. g[m] = [next |-> max_idx, copy |-> C]  BY <2>2, <3>8
      <4>3. ~fits => C = some(m - 1)  BY <1>7, <1>8, <4>1
      <4>4. CASE full < Len(s) - 1
        <5>1. m \in 1 .. Len(s) - 1 /\ 2 + 8 * (m - 1) + 8 > sz /\ ~fits  BY <1>3, <1>8, <2>1, <4>1, <4>4
        <5>2. i.next # max_idx
          <6>1. m \in 1 .. Len(s) - 1  BY <5>1
          <6>2. NextOf(p, s[m]) # max_idx  BY <1>2, <6>1, OnThePath
          <6> QED  BY <3>5, <6>2
        <5> QED  BY <3>1, <3>6, <4>2, <4>3, <5>1, <5>2
      <4>5. CASE full = Len(s) - 1
        <5>1. m = Len(s) /\ m - 1 = full  BY <1>3, <4>1, <4>5
        <5>2. i.next = max_idx  BY <1>2, <3>5, <5>1, OnThePath
        <5>3. fits <=> last <= 8 /\ 2 + 8 * (m - 1) + last <= sz
          BY <1>5, <1>8, <4>5, <5>1 DEF ZeroLength
        <5>4. fits => C = [key |-> key, blocks |-> SubSeq(body, 1, m), size |-> 2 + 8 * (m - 1) + last]
          BY <1>7, <1>8, <5>1
        <5>5. CopyTurn(p, t, sz, c) = [next |-> max_idx, copy |-> C]
          <6>1. CASE fits  BY <3>6, <5>2, <5>3, <5>4, <6>1
          <6>2. CASE ~fits  BY <3>6, <4>3, <5>2, <5>3, <6>2
          <6> QED  BY <6>1, <6>2
        <5> QED  BY <3>1, <4>2, <5>5
      <4> QED  BY <1>3, <1>8, <4>4, <4>5
    <3> QED  BY <3>7, <3>8
  <2> QED  BY <2>1, <2>3, <2>4
<1>13. CopyTurns(p, t, sz, g)  BY <1>11, <1>12 DEF CopyTurns, key
<1>14. CopyLoop(p, t, sz) = g[NumItems]  BY <1>10, <1>13, CopyLoopIs
<1>15. g[NumItems] = [next |-> max_idx, copy |-> C]
  <2>1. NumItems \in 0 .. NumItems /\ ~(NumItems <= full)  BY <1>3, <1>8, ItemsFinite
  <2> QED  BY <1>9, <2>1
<1> QED  BY <1>14, <1>15 DEF C

\* The loops over the linked lists compute what the model's operators say, for any number
\* of items and trees: remove(extid), timeout(), the walk of push_next(Tree &), space().
THEOREM ListsAsLooped == Spec => []ListLoops
<1>1. IInv => ListLoops
  <2> SUFFICES ASSUME IInv PROVE ListLoops  OBVIOUS
  <2>1. /\ Good(Pool) /\ WellFormed(Pool) /\ Pool.trees = trees /\ Pool.free = free
    BY DEF IInv, Good, Pool
  <2>2. \A k \in Keys : Remove(Pool, k) = RemoveLoop(Pool, k)  BY <2>1, RemoveLoopReleases
  <2>3. TimeoutAll(Pool) = TimeoutLoop(Pool)  BY <2>1, TimeoutLoopTimesOut
  <2>4. SpaceLoop(Pool) = [i |-> max_idx, cnt |-> Cardinality(Chain(Pool, free))]
    BY <2>1, SpaceCounts
  <2>5. ASSUME NEW t \in Used(Pool)
        PROVE  TailLoop(Pool, trees[t].head) = LastOf(Pool, trees[t].head)
    <3>1. /\ t \in Owners /\ HeadOf(Pool, t) = trees[t].head /\ trees[t].head # max_idx
      BY <2>1, SizesAssumption DEF Used, Owners, Trees, HeadOf
    <3>2. PICK s : Path(Pool, trees[t].head, s)  BY <2>1, BodyIsPath
    <3>3. Len(s) <= NumItems /\ s[Len(s)] = LastOf(Pool, trees[t].head)
      BY <2>1, <3>1, <3>2, PathIsList
    <3> QED  BY <3>2, <3>3, TailLoopIs
  <2> QED  BY <2>2, <2>3, <2>4, <2>5 DEF ListLoops
<1> QED  BY <1>1, Invariance, PTL

\* read_packet(Tree &) copies item by item what Copy says, for any chain and buffer.
THEOREM ReadAsLooped == Spec => []ReadLoop
<1>1. IInv => ReadLoop
  <2> SUFFICES ASSUME IInv, NEW t \in Finished(Pool), NEW sz \in 2 .. 2 + 8 * NumItems
               PROVE  CopyLoop(Pool, t, sz) = [next |-> max_idx, copy |-> Copy(Pool, t, sz)]
    BY DEF ReadLoop
  <2>1. WellFormed(Pool)  BY DEF IInv, Good
  <2>2. sz \in Nat \ {0, 1}  BY ItemsFinite
  <2> QED  BY <2>1, <2>2, CopyLoopCopies
<1> QED  BY <1>1, Invariance, PTL

=============================================================================
