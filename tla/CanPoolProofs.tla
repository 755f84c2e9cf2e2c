--------------------------- MODULE CanPoolProofs ----------------------------
(***************************************************************************)
(* Proofs about the CAN message pool, for all sizes of its arrays.          *)
(*                                                                          *)
(* The pool's lists are pointers, so the inductive invariant needs what a   *)
(* set of reachable items does not say by itself: each item has one owner   *)
(* (a tree, or 0 for the free list) and a rank that grows along "next".     *)
(* Linked states both; they are witnesses found anew after every step, not  *)
(* variables.  From Linked follow the shape of the lists (ChainIsOwned,     *)
(* LastIsTail), and each private function of the pool preserves it          *)
(* (ReleaseWellFormed, BeginWellFormed, ExtendWellFormed).  The invariant   *)
(* Good adds the two facts about trees that the handlers rely on.           *)
(*                                                                          *)
(* The second half is about what read_packet() reads from the chain of a     *)
(* tree: Body is a recursive function over pointers, a path is the list of   *)
(* items that it goes along.  PushCases and ReadCall say of every call which *)
(* packets it leaves as they are (Same), which it begins and which it        *)
(* extends, and with what; the proofs about the CAN link and about PacketPool *)
(* start from them.                                                         *)
(***************************************************************************)
EXTENDS CanPool, NumberLemmas, SequenceTheorems

-----------------------------------------------------------------------------
\* The type of a pool, as a record.
PoolType == [trees : [Trees -> Tree], items : [Items -> Item], free : Items \cup {max_idx}]

\* own[i] is the owner of the list that item i is in, rank[i] grows along the list:
\* every item is the head of its owner's list or the successor of one other item, and
\* a list has one end.
Linked(p, own, rank, B) ==
    /\ own \in [Items -> Owners]
    /\ rank \in [Items -> 0 .. B]
    /\ \A i \in Items : NextOf(p, i) # max_idx =>
           own[NextOf(p, i)] = own[i] /\ rank[i] < rank[NextOf(p, i)]
    /\ \A o \in Owners : HeadOf(p, o) # max_idx => own[HeadOf(p, o)] = o
    /\ \A i \in Items : i = HeadOf(p, own[i]) \/ \E j \in Items : NextOf(p, j) = i
    /\ \A i, j \in Items : NextOf(p, i) = NextOf(p, j) /\ NextOf(p, i) # max_idx => i = j
    /\ \A i \in Items, o \in Owners : NextOf(p, i) # max_idx => NextOf(p, i) # HeadOf(p, o)
    /\ \A i, j \in Items :
           own[i] = own[j] /\ NextOf(p, i) = max_idx /\ NextOf(p, j) = max_idx => i = j

\* The index 255 is in no array of at most 255 items.
LEMMA NilIsNoItem == max_idx \notin Items
BY SizesAssumption DEF max_idx, Items

\* The links and the heads are items or nil.
LEMMA PointerTypes ==
  ASSUME NEW p \in PoolType
  PROVE  /\ \A i \in Items : NextOf(p, i) \in Items \cup {max_idx}
         /\ \A o \in Owners : HeadOf(p, o) \in Items \cup {max_idx}
BY SizesAssumption DEF PoolType, NextOf, HeadOf, Item, Tree, Owners, Trees

\* The chain of an owner is the set of the items it owns.
LEMMA ChainIsOwned ==
  ASSUME NEW p \in PoolType, NEW own, NEW rank, NEW B \in Nat, Linked(p, own, rank, B),
         NEW o \in Owners
  PROVE  Chain(p, HeadOf(p, o)) = {i \in Items : own[i] = o}
<1> DEFINE h == HeadOf(p, o)
           C == {i \in Items : own[i] = o}
<1>1. h \in C \cup {max_idx} /\ ClosedUnderNext(p, C)
  BY PointerTypes DEF Linked, ClosedUnderNext
<1>2. ASSUME NEW S \in SUBSET Items, h \in S \cup {max_idx}, ClosedUnderNext(p, S),
             NEW i \in C, i \notin S
      PROVE  FALSE
  <2> DEFINE M == {rank[j] : j \in C \ S}
  <2>1. M \in SUBSET Nat /\ M # {}  BY <1>2 DEF Linked
  <2>2. PICK m \in M : \A n \in M : m <= n  BY <2>1, LeastNat
  <2>3. PICK j \in C \ S : rank[j] = m  BY <2>2
  <2>4. j # h  BY <2>3, <1>2, NilIsNoItem
  <2>5. PICK k \in Items : NextOf(p, k) = j  BY <2>3, <2>4 DEF Linked
  <2>6. own[k] = o /\ rank[k] < rank[j]  BY <2>3, <2>5, NilIsNoItem DEF Linked
  <2>7. k \in S
    <3>1. SUFFICES ASSUME k \notin S PROVE FALSE  OBVIOUS
    <3>2. rank[k] \in M  BY <2>6, <3>1
    <3>3. m <= rank[k]  BY <3>2, <2>2
    <3> QED  BY <3>3, <2>6, <2>3, <2>1, <3>2
  <2> QED  BY <2>7, <2>5, <2>3, <1>2, NilIsNoItem DEF ClosedUnderNext
<1> QED  BY <1>1, <1>2 DEF Chain

\* The last item of a list that is not empty is the one without successor.
LEMMA LastIsTail ==
  ASSUME NEW p \in PoolType, NEW own, NEW rank, NEW B \in Nat, Linked(p, own, rank, B),
         NEW o \in Owners, HeadOf(p, o) # max_idx
  PROVE  /\ LastOf(p, HeadOf(p, o)) \in Items
         /\ own[LastOf(p, HeadOf(p, o))] = o
         /\ NextOf(p, LastOf(p, HeadOf(p, o))) = max_idx
<1> DEFINE C == {i \in Items : own[i] = o}
           M == {rank[i] : i \in C}
<1>1. HeadOf(p, o) \in C  BY PointerTypes DEF Linked
<1>2. M \in SUBSET (0 .. B) /\ M # {}  BY <1>1 DEF Linked
<1>3. PICK m \in M : \A n \in M : n <= m  BY <1>2, MaxIsGreatest
<1>4. PICK i \in C : rank[i] = m  BY <1>3
<1>5. NextOf(p, i) = max_idx
  <2>1. SUFFICES ASSUME NextOf(p, i) # max_idx PROVE FALSE  OBVIOUS
  <2>2. NextOf(p, i) \in C /\ rank[i] < rank[NextOf(p, i)]
    BY <2>1, PointerTypes DEF Linked
  <2>3. rank[NextOf(p, i)] \in M  BY <2>2
  <2>4. rank[NextOf(p, i)] <= m  BY <2>3, <1>3
  <2> QED  BY <2>2, <2>3, <2>4, <1>4, <1>2
<1>6. \E j \in Chain(p, HeadOf(p, o)) : NextOf(p, j) = max_idx
  BY <1>4, <1>5, ChainIsOwned
<1>7. /\ LastOf(p, HeadOf(p, o)) \in Chain(p, HeadOf(p, o))
      /\ NextOf(p, LastOf(p, HeadOf(p, o))) = max_idx
  BY <1>6 DEF LastOf
<1> QED  BY <1>7, ChainIsOwned

\* An owner without a list owns nothing.
LEMMA NoHeadNoItems ==
  ASSUME NEW p \in PoolType, NEW own, NEW rank, NEW B \in Nat, Linked(p, own, rank, B),
         NEW o \in Owners, HeadOf(p, o) = max_idx
  PROVE  \A i \in Items : own[i] # o
<1>1. {} \in SUBSET Items /\ max_idx \in {} \cup {max_idx} /\ ClosedUnderNext(p, {})
  BY DEF ClosedUnderNext
<1>2. \A i \in Chain(p, max_idx) : i \in {}
  BY <1>1, Zenon DEF Chain
<1> QED  BY <1>2, ChainIsOwned

-----------------------------------------------------------------------------
(* Release.                                                                *)

\* Numbers for the trees, falling and more than B apart.
LEMMA Spaced ==
  ASSUME NEW N \in Nat, NEW B \in Nat
  PROVE  \E base \in [0 .. N -> Nat] :
             \A t, u \in 0 .. N : t < u => base[u] + B + 1 <= base[t]
<1> DEFINE base == [t \in 0 .. N |-> (N - t) * (B + 1)]
<1>1. ASSUME NEW n \in Nat PROVE n * (B + 1) \in Nat
  OBVIOUS
<1>2. base \in [0 .. N -> Nat]
  <2>1. \A t \in 0 .. N : N - t \in Nat  OBVIOUS
  <2> QED  BY <1>1, <2>1
<1>3. ASSUME NEW t \in 0 .. N, NEW u \in 0 .. N, t < u
      PROVE  base[u] + B + 1 <= base[t]
  <2> DEFINE x == N - u
             d == u - t - 1
  <2>1. x \in Nat /\ d \in Nat /\ N - t = x + 1 + d  BY <1>3
  <2>2. (x + 1 + d) * (B + 1) = x * (B + 1) + (B + 1) + d * (B + 1)
    BY <2>1
  <2>3. d * (B + 1) \in Nat /\ x * (B + 1) \in Nat  BY <2>1, <1>1
  <2>4. x * (B + 1) + B + 1 <= (x + 1 + d) * (B + 1)
    BY <2>2, <2>3
  <2> QED  BY <2>1, <2>4
<1> QED  BY <1>2, <1>3

\* The pool q is p after the trees of R were released: what the operator
\* Release builds, in terms of the owners of the items.
Released(p, q, R, own) ==
    LET list(t) == LET earlier == {u \in R : u < t}
                   IN  IF earlier = {} THEN p.free ELSE LastOf(p, p.trees[Max(earlier)].head)
    IN  /\ q.trees = [t \in Trees |-> IF t \in R THEN [p.trees[t] EXCEPT !.head = max_idx]
                                      ELSE p.trees[t]]
        /\ q.items \in [Items -> Item]
        /\ q.free = LastOf(p, p.trees[Max(R)].head)
        /\ \A i \in Items : q.items[i].data = p.items[i].data
        /\ \A i \in Items : own[i] \notin R => q.items[i] = p.items[i]
        /\ \A t \in R : NextOf(q, p.trees[t].head) = list(t)
        /\ \A i \in Items : own[i] \in R /\ i # p.trees[own[i]].head =>
               NextOf(q, i) \in Items /\ NextOf(p, NextOf(q, i)) = i

\* Release, the loop of Pool::remove(Tree &), builds what Released says.
LEMMA ReleaseIsReleased ==
  ASSUME NEW p \in PoolType, NEW own, NEW rank, NEW B \in Nat, Linked(p, own, rank, B),
         NEW R \in SUBSET Used(p), R # {}
  PROVE  /\ Released(p, Release(p, R), R, own)
         /\ Release(p, R) \in PoolType
         /\ Release(p, R).free \in Items
<1> DEFINE head(t) == p.trees[t].head
           freed   == UNION {Chain(p, head(t)) : t \in R}
           list(t) == LET earlier == {u \in R : u < t}
                      IN  IF earlier = {} THEN p.free ELSE LastOf(p, head(Max(earlier)))
           next(i) == IF i \notin freed THEN NextOf(p, i)
                      ELSE IF \E t \in R : i = head(t) THEN list(CHOOSE t \in R : i = head(t))
                      ELSE CHOOSE j \in freed : NextOf(p, j) = i
           q == Release(p, R)
<1>1. q = [trees |-> [t \in Trees |-> IF t \in R THEN [p.trees[t] EXCEPT !.head = max_idx]
                                      ELSE p.trees[t]],
           items |-> [i \in Items |-> [p.items[i] EXCEPT !.next = next(i)]],
           free  |-> LastOf(p, head(Max(R)))]
  BY DEF Release
<1>2. R \in SUBSET Trees /\ \A t \in R : t \in Owners /\ HeadOf(p, t) = head(t)
                                        /\ head(t) # max_idx /\ head(t) \in Items
  BY SizesAssumption DEF Used, Owners, HeadOf, Trees, PoolType, Tree
<1>3. freed = {i \in Items : own[i] \in R}
  <2>1. \A t \in R : Chain(p, head(t)) = {i \in Items : own[i] = t}
    BY <1>2, ChainIsOwned
  <2> QED  BY <2>1
<1>4. \A t \in R : own[head(t)] = t
  BY <1>2 DEF Linked
<1>5. \A t \in R : /\ LastOf(p, head(t)) \in Items
                   /\ own[LastOf(p, head(t))] = t
                   /\ NextOf(p, LastOf(p, head(t))) = max_idx
  BY <1>2, LastIsTail
<1>6. \A S \in SUBSET R : S # {} => Max(S) \in S
  <2>1. NumTrees \in Nat /\ R \in SUBSET (0 .. NumTrees)
    BY <1>2, SizesAssumption DEF Trees
  <2> QED  BY <2>1, MaxIsGreatest
<1>7. \A t \in R : list(t) \in Items \cup {max_idx}
  <2>1. p.free \in Items \cup {max_idx}  BY DEF PoolType
  <2> QED  BY <2>1, <1>5, <1>6
<1>8. \A t \in R : next(head(t)) = list(t)
  <2>1. ASSUME NEW t \in R PROVE next(head(t)) = list(t)
    <3>1. head(t) \in freed  BY <1>2, <1>3, <1>4
    <3>2. \A u \in R : head(t) = head(u) => u = t  BY <1>4
    <3>3. (CHOOSE u \in R : head(t) = head(u)) = t  BY <3>2
    <3> QED  BY <3>1, <3>3
  <2> QED  BY <2>1
<1>9. ASSUME NEW i \in Items, own[i] \in R, i # head(own[i])
      PROVE  next(i) \in Items /\ NextOf(p, next(i)) = i
  <2>1. i \in freed  BY <1>3, <1>9
  <2>2. ~ \E t \in R : i = head(t)  BY <1>4, <1>9
  <2>3. PICK j \in Items : NextOf(p, j) = i
    BY <1>9, <1>2 DEF Linked
  <2>4. own[j] = own[i]  BY <2>3, NilIsNoItem DEF Linked
  <2>5. j \in freed  BY <2>3, <2>4, <1>3, <1>9
  <2>6. next(i) = CHOOSE j1 \in freed : NextOf(p, j1) = i  BY <2>1, <2>2
  <2>7. next(i) \in freed /\ NextOf(p, next(i)) = i  BY <2>6, <2>5, <2>3
  <2> QED  BY <2>7, <1>3
<1>10. ASSUME NEW i \in Items PROVE next(i) \in Items \cup {max_idx}
  <2>1. CASE own[i] \notin R  BY <2>1, <1>3, PointerTypes
  <2>2. CASE own[i] \in R /\ i = head(own[i])
    <3> HIDE DEF next, list, freed
    <3>1. next(head(own[i])) = list(own[i])  BY <2>2, <1>8
    <3>2. next(i) = list(own[i])  BY <3>1, <2>2
    <3> QED  BY <3>2, <2>2, <1>7
  <2>3. CASE own[i] \in R /\ i # head(own[i])  BY <2>3, <1>9
  <2> QED  BY <2>1, <2>2, <2>3
<1> HIDE DEF next, list, freed
<1>11. q \in PoolType
  <2>1. [t \in Trees |-> IF t \in R THEN [p.trees[t] EXCEPT !.head = max_idx]
                         ELSE p.trees[t]] \in [Trees -> Tree]
    BY DEF PoolType, Tree
  <2>2. [i \in Items |-> [p.items[i] EXCEPT !.next = next(i)]] \in [Items -> Item]
    BY <1>10 DEF PoolType, Item
  <2>3. LastOf(p, head(Max(R))) \in Items  BY <1>5, <1>6
  <2>4. ASSUME NEW T \in [Trees -> Tree], NEW I \in [Items -> Item], NEW F \in Items
        PROVE  [trees |-> T, items |-> I, free |-> F] \in PoolType
    BY DEF PoolType
  <2> HIDE DEF q
  <2> QED  BY <1>1, <2>1, <2>2, <2>3, <2>4
<1>12. \A i \in Items : NextOf(q, i) = next(i) /\ q.items[i].data = p.items[i].data
  BY <1>1 DEF NextOf, PoolType, Item
<1>13. \A i \in Items : own[i] \notin R => q.items[i] = p.items[i]
  <2>1. ASSUME NEW i \in Items, own[i] \notin R PROVE q.items[i] = p.items[i]
    <3>1. next(i) = p.items[i].next  BY <1>3, <2>1 DEF next, NextOf
    <3> QED  BY <1>1, <3>1 DEF PoolType, Item
  <2> QED  BY <2>1
<1>14. \A t \in R : NextOf(q, head(t)) = list(t)  BY <1>12, <1>8, <1>2
<1>15. \A i \in Items : own[i] \in R /\ i # head(own[i]) =>
           NextOf(q, i) \in Items /\ NextOf(p, NextOf(q, i)) = i
  BY <1>9, <1>12
<1>16. /\ q.trees = [t \in Trees |-> IF t \in R THEN [p.trees[t] EXCEPT !.head = max_idx]
                                     ELSE p.trees[t]]
       /\ q.free = LastOf(p, head(Max(R)))
  BY <1>1
<1>17. q.items \in [Items -> Item]  BY <1>11 DEF PoolType
<1>18. q.free \in Items  BY <1>5, <1>6, <1>16
<1> HIDE DEF q
<1>19. Released(p, q, R, own)
  BY <1>12, <1>13, <1>14, <1>15, <1>16, <1>17 DEF Released, list
<1> QED  BY <1>11, <1>18, <1>19 DEF q

\* Released lists are put in front of the free list and stay linked.
LEMMA ReleasedLinked ==
  ASSUME NEW p \in PoolType, NEW own, NEW rank, NEW B \in Nat, Linked(p, own, rank, B),
         NEW R \in SUBSET Used(p), R # {},
         NEW q \in PoolType, Released(p, q, R, own)
  PROVE  \E own2, rank2 : \E B2 \in Nat : Linked(q, own2, rank2, B2)
<1> DEFINE head(t) == p.trees[t].head
           last(t) == LastOf(p, head(t))
           earlier(t) == {u \in R : u < t}
<1>1. /\ R \in SUBSET Trees
      /\ \A t \in R : t \in Owners /\ t # 0 /\ HeadOf(p, t) = head(t)
                      /\ head(t) # max_idx /\ head(t) \in Items /\ own[head(t)] = t
  BY SizesAssumption DEF Used, Owners, HeadOf, Trees, PoolType, Tree, Linked
<1>2. \A t \in R : last(t) \in Items /\ own[last(t)] = t /\ NextOf(p, last(t)) = max_idx
  BY <1>1, LastIsTail
<1>3. \A S \in SUBSET R : S # {} => Max(S) \in S /\ \A n \in S : n <= Max(S)
  <2>1. NumTrees \in Nat /\ R \in SUBSET (0 .. NumTrees)
    BY <1>1, SizesAssumption DEF Trees
  <2> QED  BY <2>1, MaxIsGreatest
<1>4. \A t \in R : Max(R) \in R /\ t <= Max(R)
  BY <1>3
<1>5. \A t \in R : earlier(t) # {} => /\ Max(earlier(t)) \in R
                                      /\ Max(earlier(t)) < t
                                      /\ \A u \in R : u < t => u <= Max(earlier(t))
  <2>1. ASSUME NEW t \in R, earlier(t) # {}
        PROVE  /\ Max(earlier(t)) \in R
               /\ Max(earlier(t)) < t
               /\ \A u \in R : u < t => u <= Max(earlier(t))
    <3>1. earlier(t) \in SUBSET R  OBVIOUS
    <3>2. Max(earlier(t)) \in earlier(t) /\ \A n \in earlier(t) : n <= Max(earlier(t))
      BY <3>1, <2>1, <1>3
    <3> QED  BY <3>2
  <2> QED  BY <2>1
\* The next item, by the three kinds of items.
<1>6. \A i \in Items : own[i] \notin R => NextOf(q, i) = NextOf(p, i)
  BY DEF Released, NextOf
<1>7. \A t \in R : earlier(t) = {} => NextOf(q, head(t)) = p.free
  BY DEF Released
<1>8. \A t \in R : earlier(t) # {} => NextOf(q, head(t)) = last(Max(earlier(t)))
  BY DEF Released
<1>9. \A i \in Items : own[i] \in R /\ i # head(own[i]) =>
           NextOf(q, i) \in Items /\ NextOf(p, NextOf(q, i)) = i
  BY DEF Released
<1>10. \A i \in Items : own[i] \in R /\ i # head(own[i]) =>
            own[NextOf(q, i)] = own[i] /\ rank[NextOf(q, i)] < rank[i]
  BY <1>9, NilIsNoItem DEF Linked
<1>11. HeadOf(q, 0) = last(Max(R)) /\ HeadOf(p, 0) = p.free
  BY DEF Released, HeadOf
<1>12. \A o \in Owners : /\ o \in R => HeadOf(q, o) = max_idx
                         /\ o \notin R /\ o # 0 => HeadOf(q, o) = HeadOf(p, o)
  <2>1. q.trees = [t \in Trees |-> IF t \in R THEN [p.trees[t] EXCEPT !.head = max_idx]
                                   ELSE p.trees[t]]
    BY DEF Released
  <2>2. \A t \in Trees : p.trees[t] \in Tree  BY DEF PoolType
  <2>3. \A t \in Trees : /\ t \in R => q.trees[t].head = max_idx
                         /\ t \notin R => q.trees[t].head = p.trees[t].head
    BY <2>1, <2>2 DEF Tree
  <2>4. \A o \in Owners : o # 0 => o \in Trees
    BY SizesAssumption DEF Owners, Trees
  <2> QED  BY <2>3, <2>4, <1>1 DEF HeadOf
<1>13. p.free \in Items \cup {max_idx} /\ (p.free # max_idx => own[p.free] = 0) /\ 0 \in Owners
       /\ 0 \notin R
  BY <1>1, <1>11, SizesAssumption DEF PoolType, Linked, Owners
<1>14. NumTrees \in Nat /\ Owners = 0 .. NumTrees
  BY SizesAssumption DEF Owners
<1>15. PICK base \in [Owners -> Nat] :
           \A t, u \in Owners : t < u => base[u] + B + 1 <= base[t]
  BY <1>14, Spaced
<1> DEFINE own2 == [i \in Items |-> IF own[i] \in R THEN 0 ELSE own[i]]
           rank2 == [i \in Items |-> IF own[i] \in R THEN base[own[i]] + (B - rank[i])
                                     ELSE base[0] + rank[i]]
           B2 == base[0] + B
<1>16. \A i \in Items : own[i] \in Owners /\ rank[i] \in 0 .. B  BY DEF Linked
<1>17. \A t \in R : base[t] \in Nat /\ base[t] + B + 1 <= base[0]
  BY <1>1, <1>13, <1>14, <1>15
<1>18. B2 \in Nat /\ own2 \in [Items -> Owners]
  BY <1>13, <1>15, <1>16
<1>19. rank2 \in [Items -> 0 .. B2]
  <2>1. ASSUME NEW i \in Items PROVE rank2[i] \in 0 .. B2
    BY <1>13, <1>15, <1>16, <1>17
  <2> QED  BY <2>1
<1>20. ASSUME NEW i \in Items, NextOf(q, i) # max_idx
       PROVE  own2[NextOf(q, i)] = own2[i] /\ rank2[i] < rank2[NextOf(q, i)]
  <2> DEFINE j == NextOf(q, i)
  <2>0. j \in Items  BY <1>20, PointerTypes
  <2>1. CASE own[i] \notin R
    <3>1. own[j] = own[i] /\ rank[i] < rank[j]
      BY <2>1, <1>6, <1>20, <2>0 DEF Linked
    <3> QED  BY <3>1, <2>0, <2>1, <1>13, <1>15, <1>16
  <2>2. CASE own[i] \in R /\ i = head(own[i]) /\ earlier(own[i]) = {}
    <3>1. j = p.free  BY <2>2, <1>7
    <3>2. own[j] = 0 /\ 0 \notin R  BY <3>1, <1>13, <1>20
    <3>3. own2[j] = 0 /\ own2[i] = 0  BY <3>2, <2>0, <2>2
    <3>4. rank2[j] = base[0] + rank[j] /\ rank2[i] = base[own[i]] + (B - rank[i])
      BY <3>2, <2>0, <2>2
    <3> QED  BY <3>3, <3>4, <1>16, <1>17, <2>0, <2>2, <1>13, <1>15
  <2>3. CASE own[i] \in R /\ i = head(own[i]) /\ earlier(own[i]) # {}
    <3> DEFINE u == Max(earlier(own[i]))
    <3>1. u \in R /\ u < own[i] /\ u \in Owners  BY <2>3, <1>5, <1>1
    <3>2. NextOf(q, head(own[i])) = last(u)  BY <2>3, <1>8
    <3>3. j = last(u) /\ own[j] = u  BY <3>1, <3>2, <2>3, <1>2
    <3> HIDE DEF u, j
    <3>4. own2[j] = 0 /\ own2[i] = 0  BY <3>1, <3>3, <2>0, <2>3
    <3>5. rank2[j] = base[u] + (B - rank[j]) /\ rank2[i] = base[own[i]] + (B - rank[i])
      BY <3>1, <3>3, <2>0, <2>3
    <3>6. base[own[i]] + B + 1 <= base[u]  BY <3>1, <1>15, <1>16
    <3>7. rank[j] \in 0 .. B /\ rank[i] \in 0 .. B /\ base[u] \in Nat /\ base[own[i]] \in Nat
      BY <1>16, <2>0, <3>1, <1>15
    <3>8. rank2[i] < rank2[j]  BY <3>5, <3>6, <3>7
    <3> QED  BY <3>4, <3>8 DEF j
  <2>4. CASE own[i] \in R /\ i # head(own[i])
    <3>1. own[j] = own[i] /\ rank[j] < rank[i]  BY <2>4, <1>10
    <3>2. own2[j] = 0 /\ own2[i] = 0  BY <3>1, <2>0, <2>4
    <3>3. rank2[j] = base[own[i]] + (B - rank[j]) /\ rank2[i] = base[own[i]] + (B - rank[i])
      BY <3>1, <2>0, <2>4
    <3> QED  BY <3>1, <3>2, <3>3, <2>0, <1>15, <1>16
  <2> QED  BY <2>1, <2>2, <2>3, <2>4
<1>21. ASSUME NEW o \in Owners, HeadOf(q, o) # max_idx
       PROVE  own2[HeadOf(q, o)] = o
  <2>1. CASE o = 0
    <3>1. last(Max(R)) \in Items /\ own[last(Max(R))] \in R  BY <1>2, <1>4
    <3> QED  BY <3>1, <2>1, <1>11
  <2>2. CASE o # 0
    <3>1. o \notin R /\ HeadOf(q, o) = HeadOf(p, o)  BY <2>2, <1>12, <1>21
    <3>2. HeadOf(p, o) \in Items /\ own[HeadOf(p, o)] = o
      BY <3>1, <1>21, PointerTypes DEF Linked
    <3> QED  BY <3>1, <3>2
  <2> QED  BY <2>1, <2>2
<1>22. ASSUME NEW i \in Items
       PROVE  i = HeadOf(q, own2[i]) \/ \E j \in Items : NextOf(q, j) = i
  <2>1. i = HeadOf(p, own[i]) \/ \E j \in Items : NextOf(p, j) = i  BY DEF Linked
  <2>2. CASE own[i] \in R /\ NextOf(p, i) # max_idx
    <3> DEFINE k == NextOf(p, i)
    <3>1. k \in Items /\ own[k] = own[i]  BY <2>2, PointerTypes DEF Linked
    <3>2. k # HeadOf(p, own[i])  BY <2>2, <1>16 DEF Linked
    <3>3. k # head(own[k])  BY <3>1, <3>2, <2>2, <1>1
    <3>4. NextOf(q, k) \in Items /\ NextOf(p, NextOf(q, k)) = k
      BY <3>1, <3>3, <2>2, <1>9
    <3>5. NextOf(q, k) = i  BY <3>4, <2>2 DEF Linked
    <3> QED  BY <3>1, <3>5
  <2>3. CASE own[i] \in R /\ NextOf(p, i) = max_idx
    <3> DEFINE t == own[i]
               later == {u \in R : t < u}
    <3>1. i = last(t)  BY <2>3, <1>2 DEF Linked
    <3>2. CASE later = {}
      <4>1. Max(R) = t  BY <3>2, <2>3, <1>4, <1>1, <1>14
      <4> QED  BY <4>1, <3>1, <1>11, <2>3
    <3>3. CASE later # {}
      <4>1. later \in SUBSET Nat  BY <1>1, <1>14
      <4>2. PICK u \in later : \A v \in later : u <= v  BY <4>1, <3>3, LeastNat
      <4>3. u \in R /\ t < u /\ t \in R  BY <2>3
      <4>4. t \in earlier(u)  BY <4>3
      <4>5. Max(earlier(u)) \in R /\ Max(earlier(u)) < u /\ t <= Max(earlier(u))
        BY <4>3, <4>4, <1>5
      <4>6. Max(earlier(u)) \notin later
        <5>1. SUFFICES ASSUME Max(earlier(u)) \in later PROVE FALSE  OBVIOUS
        <5>2. u <= Max(earlier(u))  BY <5>1, <4>2
        <5> QED  BY <5>2, <4>5, <4>3, <1>1, <1>14
      <4>7. Max(earlier(u)) = t  BY <4>5, <4>6, <4>3, <1>1, <1>14
      <4>8. NextOf(q, head(u)) = last(t)  BY <4>7, <4>3, <4>4, <1>8
      <4> QED  BY <4>8, <3>1, <4>3, <1>1
    <3> QED  BY <3>2, <3>3
  <2>4. CASE own[i] \notin R /\ i = HeadOf(p, own[i])
    <3>1. CASE own[i] # 0
      BY <3>1, <2>4, <1>12, <1>16
    <3>2. CASE own[i] = 0
      <4>1. PICK t \in R : \A u \in R : t <= u
        <5>1. R \in SUBSET Nat  BY <1>1, <1>14
        <5> QED  BY <5>1, LeastNat
      <4>2. earlier(t) = {}  BY <4>1, <1>1, <1>14
      <4>3. NextOf(q, head(t)) = i  BY <4>2, <1>7, <1>11, <2>4, <3>2
      <4> QED  BY <4>3, <1>1
    <3> QED  BY <3>1, <3>2
  <2>5. CASE own[i] \notin R /\ \E j \in Items : NextOf(p, j) = i
    <3>1. PICK j \in Items : NextOf(p, j) = i  BY <2>5
    <3>2. own[j] = own[i]  BY <3>1, NilIsNoItem DEF Linked
    <3>3. NextOf(q, j) = i  BY <3>1, <3>2, <2>5, <1>6
    <3> QED  BY <3>3
  <2> QED  BY <2>1, <2>2, <2>3, <2>4, <2>5
\* Where the successor of an item in q is owned in p, by the kind of the item.
<1>23. \A i \in Items : NextOf(q, i) # max_idx =>
           \/ /\ own[i] \notin R
              /\ NextOf(q, i) = NextOf(p, i) /\ own[NextOf(p, i)] = own[i]
           \/ /\ own[i] \in R /\ i = head(own[i]) /\ earlier(own[i]) = {}
              /\ NextOf(q, i) = p.free /\ own[p.free] = 0
           \/ /\ own[i] \in R /\ i = head(own[i]) /\ earlier(own[i]) # {}
              /\ NextOf(q, i) = last(Max(earlier(own[i])))
              /\ own[NextOf(q, i)] = Max(earlier(own[i]))
              /\ NextOf(p, NextOf(q, i)) = max_idx
           \/ /\ own[i] \in R /\ i # head(own[i])
              /\ own[NextOf(q, i)] = own[i]
              /\ NextOf(p, NextOf(q, i)) = i
  <2>1. ASSUME NEW i \in Items, NextOf(q, i) # max_idx, own[i] \notin R
        PROVE  NextOf(q, i) = NextOf(p, i) /\ own[NextOf(p, i)] = own[i]
    BY <2>1, <1>6 DEF Linked
  <2>2. ASSUME NEW i \in Items, NextOf(q, i) # max_idx,
               own[i] \in R, i = head(own[i]), earlier(own[i]) = {}
        PROVE  NextOf(q, i) = p.free /\ own[p.free] = 0
    BY <2>2, <1>7, <1>13
  <2>3. ASSUME NEW i \in Items, own[i] \in R, i = head(own[i]), earlier(own[i]) # {}
        PROVE  /\ NextOf(q, i) = last(Max(earlier(own[i])))
               /\ own[NextOf(q, i)] = Max(earlier(own[i]))
               /\ NextOf(p, NextOf(q, i)) = max_idx
    <3> DEFINE u == Max(earlier(own[i]))
    <3>1. u \in R  BY <2>3, <1>5
    <3>2. NextOf(q, head(own[i])) = last(u)  BY <2>3, <1>8
    <3>3. NextOf(q, i) = last(u)  BY <3>2, <2>3
    <3> QED  BY <3>1, <3>3, <1>2
  <2>4. ASSUME NEW i \in Items, own[i] \in R, i # head(own[i])
        PROVE  own[NextOf(q, i)] = own[i] /\ NextOf(p, NextOf(q, i)) = i
    BY <2>4, <1>9, <1>10
  <2> QED  BY <2>1, <2>2, <2>3, <2>4
<1> HIDE DEF head, last, earlier
<1>24. ASSUME NEW i \in Items, NEW j \in Items,
              NextOf(q, i) = NextOf(q, j), NextOf(q, i) # max_idx
       PROVE  i = j
  <2>1. CASE own[i] \notin R \/ own[j] \notin R
    <3>0. ASSUME NEW a \in Items, NEW b \in Items, NextOf(q, a) = NextOf(q, b),
                 NextOf(q, a) # max_idx, own[a] \notin R, own[b] \in R
          PROVE  FALSE
      <4>1. NextOf(q, a) = NextOf(p, a) /\ own[NextOf(q, a)] = own[a]
        BY <3>0, <1>23
      <4>2. NextOf(q, b) = p.free
        BY <4>1, <3>0, <1>23, <1>5
      <4>3. NextOf(p, a) # HeadOf(p, 0)
        <5>1. NextOf(p, a) # max_idx  BY <4>1, <3>0
        <5> QED  BY <5>1, <1>13 DEF Linked
      <4> QED  BY <4>1, <4>2, <4>3, <3>0, <1>11
    <3>1. own[i] \notin R /\ own[j] \notin R
      BY <2>1, <3>0, <1>24
    <3> QED  BY <3>1, <1>24, <1>6 DEF Linked
  <2>2. CASE own[i] \in R /\ own[j] \in R /\ i = head(own[i]) /\ j = head(own[j])
    <3>1. SUFFICES own[i] = own[j]  BY <2>2
    <3>2. own[i] \in 0 .. NumTrees /\ own[j] \in 0 .. NumTrees  BY <1>14, <1>16
    <3>3. CASE earlier(own[i]) = {} /\ earlier(own[j]) = {}
      BY <3>2, <3>3, <2>2 DEF earlier
    <3>4. CASE earlier(own[i]) # {} /\ earlier(own[j]) # {}
      <4>1. Max(earlier(own[i])) = Max(earlier(own[j]))
        BY <3>4, <2>2, <1>23, <1>24
      <4>2. ~(own[i] < own[j]) /\ ~(own[j] < own[i])
        <5> DEFINE m == Max(earlier(own[i]))
        <5>1. /\ m \in R /\ m < own[i] /\ \A u \in R : u < own[i] => u <= m
              /\ m < own[j] /\ \A u \in R : u < own[j] => u <= m
          BY <4>1, <3>4, <2>2, <1>5
        <5>2. m \in 0 .. NumTrees  BY <5>1, <1>1, <1>14
        <5> HIDE DEF m
        <5> QED  BY <5>1, <5>2, <3>2, <2>2
      <4> QED  BY <4>2, <3>2
    <3>5. CASE ~(earlier(own[i]) = {} <=> earlier(own[j]) = {})
      BY <3>5, <2>2, <1>23, <1>24, <1>5, <1>13
    <3> QED  BY <3>3, <3>4, <3>5
  <2>3. CASE own[i] \in R /\ own[j] \in R /\ i # head(own[i]) /\ j # head(own[j])
    BY <2>3, <1>23, <1>24
  <2>4. CASE own[i] \in R /\ own[j] \in R /\ ~(i = head(own[i]) <=> j = head(own[j]))
    BY <2>4, <1>23, <1>24, <1>13, NilIsNoItem
  <2> QED  BY <2>1, <2>2, <2>3, <2>4
<1>25. ASSUME NEW i \in Items, NEW o \in Owners, NextOf(q, i) # max_idx
       PROVE  NextOf(q, i) # HeadOf(q, o)
  <2>1. CASE o # 0
    <3>1. CASE o \in R  BY <3>1, <1>12, <1>25
    <3>2. CASE o \notin R
      <4>1. HeadOf(q, o) = HeadOf(p, o)  BY <3>2, <2>1, <1>12
      <4>2. SUFFICES ASSUME NextOf(q, i) = HeadOf(p, o) PROVE FALSE  BY <4>1
      <4>3. own[NextOf(q, i)] = o  BY <4>2, <1>25 DEF Linked
      <4>4. own[i] \notin R  BY <4>3, <3>2, <2>1, <1>23, <1>25, <1>5
      <4>5. NextOf(q, i) = NextOf(p, i)  BY <4>4, <1>6
      <4> QED  BY <4>5, <4>2, <1>25 DEF Linked
    <3> QED  BY <3>1, <3>2
  <2>2. CASE o = 0
    <3>1. SUFFICES ASSUME NextOf(q, i) = last(Max(R)) PROVE FALSE  BY <2>2, <1>11
    <3>2. own[NextOf(q, i)] = Max(R) /\ Max(R) \in R /\ NextOf(p, NextOf(q, i)) = max_idx
      BY <3>1, <1>2, <1>4
    <3>3. CASE own[i] \in R /\ i = head(own[i]) /\ earlier(own[i]) # {}
      <4>1. Max(R) = Max(earlier(own[i]))  BY <3>2, <3>3, <1>23, <1>25
      <4>2. Max(R) < own[i] /\ own[i] <= Max(R)  BY <4>1, <3>3, <1>4, <1>5
      <4> QED  BY <4>2, <3>2, <1>1, <1>14, <1>16
    <3>4. own[i] \in R  BY <3>2, <1>23, <1>25
    <3>5. CASE i # head(own[i])  BY <3>5, <3>4, <3>2, <1>23, <1>25, NilIsNoItem
    <3>6. CASE i = head(own[i]) /\ earlier(own[i]) = {}
      BY <3>6, <3>4, <3>2, <1>23, <1>25, <1>13
    <3> QED  BY <3>3, <3>4, <3>5, <3>6
  <2> QED  BY <2>1, <2>2
<1>26. \A i \in Items : NextOf(q, i) = max_idx =>
            \/ own[i] \notin R /\ NextOf(p, i) = max_idx
            \/ own[i] \in R /\ i = head(own[i]) /\ earlier(own[i]) = {} /\ p.free = max_idx
  <2>1. ASSUME NEW i \in Items, NextOf(q, i) = max_idx, own[i] \in R
        PROVE  i = head(own[i]) /\ earlier(own[i]) = {} /\ p.free = max_idx
    <3>1. i = head(own[i])  BY <2>1, <1>9, NilIsNoItem
    <3>2. earlier(own[i]) = {}
      <4>1. SUFFICES ASSUME earlier(own[i]) # {} PROVE FALSE  OBVIOUS
      <4>2. Max(earlier(own[i])) \in R  BY <4>1, <2>1, <1>5
      <4>3. NextOf(q, head(own[i])) = last(Max(earlier(own[i])))  BY <4>1, <2>1, <1>8
      <4>4. NextOf(q, i) = last(Max(earlier(own[i])))  BY <4>3, <3>1
      <4> QED  BY <4>2, <4>4, <2>1, <1>2, NilIsNoItem
    <3>3. NextOf(q, head(own[i])) = p.free  BY <3>2, <2>1, <1>7
    <3> QED  BY <3>1, <3>2, <3>3, <2>1
  <2> QED  BY <2>1, <1>6
<1>27. p.free = max_idx => \A i \in Items : own[i] # 0
  BY <1>11, <1>13, NoHeadNoItems
<1>28. ASSUME NEW i \in Items, NEW j \in Items, own2[i] = own2[j],
              NextOf(q, i) = max_idx, NextOf(q, j) = max_idx
       PROVE  i = j
  <2>1. CASE own[i] \notin R /\ own[j] \notin R
    BY <2>1, <1>26, <1>28 DEF Linked
  <2>2. CASE own[i] \in R /\ own[j] \in R
    <3>1. i = head(own[i]) /\ earlier(own[i]) = {} /\ j = head(own[j]) /\ earlier(own[j]) = {}
      BY <2>2, <1>26, <1>28
    <3>2. own[i] = own[j]  BY <3>1, <2>2, <1>14, <1>16 DEF earlier
    <3> QED  BY <3>1, <3>2
  <2>3. CASE ~(own[i] \in R <=> own[j] \in R)
    <3>1. own[i] = 0 \/ own[j] = 0  BY <2>3, <1>28
    <3>2. p.free = max_idx  BY <2>3, <1>26, <1>28
    <3> QED  BY <3>1, <3>2, <1>27
  <2> QED  BY <2>1, <2>2, <2>3
<1> HIDE DEF own2, rank2, B2
<1>29. Linked(q, own2, rank2, B2)
  BY <1>18, <1>19, <1>20, <1>21, <1>22, <1>24, <1>25, <1>28 DEF Linked
<1> QED  BY <1>29, <1>18

-----------------------------------------------------------------------------
(* The pools that are well formed, and the functions that keep them so.    *)

\* The lists of the pool are lists.
WellFormed(p) ==
    /\ p \in PoolType
    /\ \E own, rank : \E B \in Nat : Linked(p, own, rank, B)

\* Releasing trees keeps the lists, and leaves the chains of all others alone.
LEMMA ReleaseWellFormed ==
  ASSUME NEW p, WellFormed(p), NEW R \in SUBSET Used(p)
  PROVE  /\ WellFormed(Release(p, R))
         /\ Release(p, R).trees =
                [t \in Trees |-> IF t \in R THEN [p.trees[t] EXCEPT !.head = max_idx]
                                 ELSE p.trees[t]]
         /\ p.free # max_idx => Release(p, R).free # max_idx
         /\ \A t \in Used(p) \ R : \A i \in Chain(p, p.trees[t].head) :
                Release(p, R).items[i] = p.items[i]
<1>1. CASE R = {}
  <2>1. Release(p, R) = p  BY <1>1 DEF Release
  <2>2. p.trees = [t \in Trees |-> p.trees[t]]  BY DEF WellFormed, PoolType
  <2> QED  BY <2>1, <2>2, <1>1
<1>2. CASE R # {}
  <2>1. PICK own, rank : \E B \in Nat : Linked(p, own, rank, B)  BY DEF WellFormed
  <2>2. PICK B \in Nat : Linked(p, own, rank, B)  BY <2>1
  <2>3. p \in PoolType  BY DEF WellFormed
  <2>4. /\ Released(p, Release(p, R), R, own)
        /\ Release(p, R) \in PoolType
        /\ Release(p, R).free \in Items
    BY <2>2, <2>3, <1>2, ReleaseIsReleased
  <2>5. \E own2, rank2 : \E B2 \in Nat : Linked(Release(p, R), own2, rank2, B2)
    BY <2>2, <2>3, <2>4, <1>2, ReleasedLinked
  <2>6. Release(p, R).trees =
            [t \in Trees |-> IF t \in R THEN [p.trees[t] EXCEPT !.head = max_idx]
                             ELSE p.trees[t]]
    BY <2>4 DEF Released
  <2>7. ASSUME NEW t \in Used(p) \ R, NEW i \in Chain(p, p.trees[t].head)
        PROVE  Release(p, R).items[i] = p.items[i]
    <3>1. t \in Owners /\ HeadOf(p, t) = p.trees[t].head
      BY SizesAssumption DEF Used, Owners, Trees, HeadOf
    <3>2. i \in Items /\ own[i] = t  BY <3>1, <2>2, <2>3, ChainIsOwned
    <3> QED  BY <3>2, <2>4 DEF Released
  <2> QED  BY <2>4, <2>5, <2>6, <2>7, NilIsNoItem DEF WellFormed
<1> QED  BY <1>1, <1>2

\* A change of the trees that keeps their heads keeps the lists.
LEMMA SameHeads ==
  ASSUME NEW p, WellFormed(p), NEW q \in PoolType,
         q.items = p.items, q.free = p.free,
         \A t \in Trees : q.trees[t].head = p.trees[t].head
  PROVE  WellFormed(q)
<1>1. \A i \in Items : NextOf(q, i) = NextOf(p, i)  BY DEF NextOf
<1>2. \A o \in Owners : HeadOf(q, o) = HeadOf(p, o)
  BY SizesAssumption DEF HeadOf, Owners, Trees
<1>3. PICK own, rank : \E B \in Nat : Linked(p, own, rank, B)  BY DEF WellFormed
<1>4. PICK B \in Nat : Linked(p, own, rank, B)  BY <1>3
<1>5. \A i \in Items : own[i] \in Owners  BY <1>4 DEF Linked
<1>6. Linked(q, own, rank, B)  BY <1>1, <1>2, <1>4, <1>5 DEF Linked
<1> QED  BY <1>6 DEF WellFormed

\* A new tree takes the first free item.
LEMMA BeginWellFormed ==
  ASSUME NEW p, WellFormed(p), p.free # max_idx,
         NEW t \in Trees, p.trees[t].head = max_idx,
         NEW k \in Keys, NEW d \in Blocks, NEW last \in 0 .. 8 \cup {ZeroLength}
  PROVE  WellFormed(Begin(p, t, k, d, last))
<1> DEFINE tree == [key |-> k, frm |-> IF last = 0 THEN 0 ELSE frm_single,
                    head |-> p.free, dlc |-> last, to |-> Timeout]
           f == p.free
           q == Begin(p, t, k, d, last)
<1>1. p \in PoolType /\ f \in Items  BY DEF WellFormed, PoolType
<1>2. /\ q.trees = [p.trees EXCEPT ![t] = tree]
      /\ q.items = [p.items EXCEPT ![f] = [next |-> max_idx, data |-> d]]
      /\ q.free = NextOf(p, f)
      /\ q = [trees |-> q.trees, items |-> q.items, free |-> q.free]
  BY DEF Begin, Take, NextOf
<1>3. tree \in Tree
  BY <1>1, SizesAssumption DEF Tree, Frames, frm_single
<1>4. q \in PoolType
  <2>1. q.trees \in [Trees -> Tree]  BY <1>1, <1>2, <1>3 DEF PoolType
  <2>2. q.items \in [Items -> Item]  BY <1>1, <1>2 DEF PoolType, Item
  <2>3. q.free \in Items \cup {max_idx}  BY <1>1, <1>2, PointerTypes
  <2> HIDE DEF q
  <2> QED  BY <1>2, <2>1, <2>2, <2>3 DEF PoolType
<1>5. \A i \in Items : NextOf(q, i) = IF i = f THEN max_idx ELSE NextOf(p, i)
  BY <1>1, <1>2 DEF NextOf, PoolType
<1>6. t \in Owners /\ t # 0 /\ HeadOf(p, t) = max_idx /\ 0 \in Owners /\ HeadOf(p, 0) = f
  BY SizesAssumption DEF Owners, Trees, HeadOf
<1>7. \A o \in Owners : HeadOf(q, o) = IF o = 0 THEN NextOf(p, f)
                                       ELSE IF o = t THEN f ELSE HeadOf(p, o)
  BY <1>1, <1>2, <1>6, SizesAssumption DEF HeadOf, Owners, Trees, PoolType
<1>8. PICK own, rank : \E B \in Nat : Linked(p, own, rank, B)  BY DEF WellFormed
<1>9. PICK B \in Nat : Linked(p, own, rank, B)  BY <1>8
<1> DEFINE own2 == [own EXCEPT ![f] = t]
<1> HIDE DEF q, f
<1>10. own[f] = 0 /\ \A i \in Items : own[i] # t
  BY <1>1, <1>6, <1>9, NoHeadNoItems, NilIsNoItem DEF Linked
<1>11. NextOf(p, f) # max_idx => own[NextOf(p, f)] = 0 /\ NextOf(p, f) # f
  BY <1>1, <1>9, <1>10, <1>6 DEF Linked
<1>12. own2 \in [Items -> Owners] /\ rank \in [Items -> 0 .. B]
       /\ \A i \in Items : own2[i] = IF i = f THEN t ELSE own[i]
  BY <1>1, <1>6, <1>9 DEF Linked
<1> HIDE DEF own2
<1>13. \A i \in Items : NextOf(q, i) # max_idx =>
            own2[NextOf(q, i)] = own2[i] /\ rank[i] < rank[NextOf(q, i)]
  <2>1. ASSUME NEW i \in Items, NextOf(q, i) # max_idx
        PROVE  own2[NextOf(q, i)] = own2[i] /\ rank[i] < rank[NextOf(q, i)]
    <3>1. i # f /\ NextOf(q, i) = NextOf(p, i) /\ NextOf(p, i) \in Items
      BY <2>1, <1>5, <1>1, PointerTypes
    <3>2. NextOf(p, i) # f  BY <3>1, <2>1, <1>6, <1>9 DEF Linked
    <3> QED  BY <3>1, <3>2, <2>1, <1>12, <1>9 DEF Linked
  <2> QED  BY <2>1
<1>14. \A o \in Owners : HeadOf(q, o) # max_idx => own2[HeadOf(q, o)] = o
  <2>1. ASSUME NEW o \in Owners, HeadOf(q, o) # max_idx
        PROVE  own2[HeadOf(q, o)] = o
    <3>1. CASE o = 0
      BY <3>1, <2>1, <1>7, <1>11, <1>12, <1>1, PointerTypes
    <3>2. CASE o = t  BY <3>2, <1>7, <1>12, <1>6, <1>1
    <3>3. CASE o # 0 /\ o # t
      <4>1. HeadOf(q, o) = HeadOf(p, o) /\ HeadOf(p, o) \in Items
        BY <3>3, <2>1, <1>7, <1>1, PointerTypes
      <4>2. own[HeadOf(p, o)] = o  BY <4>1, <2>1, <1>9 DEF Linked
      <4> QED  BY <4>1, <4>2, <3>3, <1>10, <1>12
    <3> QED  BY <3>1, <3>2, <3>3
  <2> QED  BY <2>1
<1>15. \A i \in Items : i = HeadOf(q, own2[i]) \/ \E j \in Items : NextOf(q, j) = i
  <2>1. ASSUME NEW i \in Items
        PROVE  i = HeadOf(q, own2[i]) \/ \E j \in Items : NextOf(q, j) = i
    <3>1. CASE i = f  BY <3>1, <1>7, <1>12, <1>6
    <3>2. CASE i # f /\ i = HeadOf(p, own[i])
      BY <3>2, <1>6, <1>7, <1>9, <1>10, <1>12 DEF Linked
    <3>3. CASE i # f /\ \E j \in Items : NextOf(p, j) = i
      <4>1. PICK j \in Items : NextOf(p, j) = i  BY <3>3
      <4>2. CASE j = f
        <5>1. own[i] = 0  BY <4>1, <4>2, <1>11, NilIsNoItem
        <5> QED  BY <5>1, <4>1, <4>2, <3>3, <1>6, <1>7, <1>12
      <4>3. CASE j # f  BY <4>1, <4>3, <1>5
      <4> QED  BY <4>2, <4>3
    <3> QED  BY <3>1, <3>2, <3>3, <1>9 DEF Linked
  <2> QED  BY <2>1
<1>16. \A i, j \in Items : NextOf(q, i) = NextOf(q, j) /\ NextOf(q, i) # max_idx => i = j
  BY <1>5, <1>9 DEF Linked
<1>17. \A i \in Items, o \in Owners : NextOf(q, i) # max_idx => NextOf(q, i) # HeadOf(q, o)
  <2>1. ASSUME NEW i \in Items, NEW o \in Owners, NextOf(q, i) # max_idx
        PROVE  NextOf(q, i) # HeadOf(q, o)
    <3>1. i # f /\ NextOf(q, i) = NextOf(p, i)  BY <2>1, <1>5
    <3>2. \A u \in Owners : NextOf(p, i) # HeadOf(p, u)
      BY <2>1, <3>1, <1>9 DEF Linked
    <3>3. NextOf(p, i) # NextOf(p, f)  BY <3>1, <2>1, <1>1, <1>9 DEF Linked
    <3> QED  BY <3>1, <3>2, <3>3, <1>6, <1>7
  <2> QED  BY <2>1
<1>18. \A i, j \in Items : own2[i] = own2[j] /\ NextOf(q, i) = max_idx /\ NextOf(q, j) = max_idx => i = j
  <2>1. ASSUME NEW i \in Items, NEW j \in Items, own2[i] = own2[j],
               NextOf(q, i) = max_idx, NextOf(q, j) = max_idx
        PROVE  i = j
    <3>1. CASE i = f \/ j = f  BY <3>1, <2>1, <1>10, <1>12
    <3>2. CASE i # f /\ j # f
      <4>1. own[i] = own[j] /\ NextOf(p, i) = max_idx /\ NextOf(p, j) = max_idx
        BY <3>2, <2>1, <1>5, <1>12
      <4> QED  BY <4>1, <1>9 DEF Linked
    <3> QED  BY <3>1, <3>2
  <2> QED  BY <2>1
<1>19. Linked(q, own2, rank, B)
  BY <1>12, <1>13, <1>14, <1>15, <1>16, <1>17, <1>18 DEF Linked
<1> QED  BY <1>2, <1>4, <1>19 DEF WellFormed, q, f

\* The tail of a tree's chain gets the first free item as its successor.
LEMMA ExtendWellFormed ==
  ASSUME NEW p, WellFormed(p), p.free # max_idx,
         NEW t \in Partial(p),
         NEW d \in Blocks, NEW last \in 0 .. 8 \cup {ZeroLength},
         p.trees[t].frm \in SeqFrames
  PROVE  WellFormed(Extend(p, t, d, last))
<1> DEFINE f == p.free
           q == Extend(p, t, d, last)
           h == p.trees[t].head
           tail == LastOf(p, h)
           frm == p.trees[t].frm
           tree == [p.trees[t] EXCEPT !.to = Timeout, !.dlc = last,
                                      !.frm = IF last = 0 THEN SeqAfter(frm) ELSE frm]
<1>1. /\ p \in PoolType /\ f \in Items /\ t \in Trees /\ h # max_idx
      /\ t \in Owners /\ t # 0 /\ HeadOf(p, t) = h /\ 0 \in Owners /\ HeadOf(p, 0) = f
  BY SizesAssumption DEF WellFormed, PoolType, Partial, Used, Owners, Trees, HeadOf
<1>2. PICK own, rank : \E B \in Nat : Linked(p, own, rank, B)  BY DEF WellFormed
<1>3. PICK B \in Nat : Linked(p, own, rank, B)  BY <1>2
<1>4. tail \in Items /\ own[tail] = t /\ NextOf(p, tail) = max_idx
  BY <1>1, <1>3, LastIsTail
<1>5. own[f] = 0 /\ f # tail
  BY <1>1, <1>3, <1>4, NilIsNoItem DEF Linked
<1>6. /\ q.trees = [p.trees EXCEPT ![t] = tree]
      /\ q.items = [[p.items EXCEPT ![tail].next = f]
                        EXCEPT ![f] = [next |-> max_idx, data |-> d]]
      /\ q.free = NextOf(p, f)
      /\ q = [trees |-> q.trees, items |-> q.items, free |-> q.free]
  <2>1. q = [trees |-> [p.trees EXCEPT ![t] = tree],
             items |-> [[p.items EXCEPT ![tail].next = f]
                            EXCEPT ![f] = [next |-> max_idx, data |-> d]],
             free |-> [p.items EXCEPT ![tail].next = f][f].next]
    BY DEF Extend, Take, NextOf
  <2>2. [p.items EXCEPT ![tail].next = f][f] = p.items[f]
    BY <1>1, <1>4, <1>5 DEF PoolType
  <2> QED  BY <2>1, <2>2 DEF NextOf
<1>7. tree \in Tree
  <2>1. p.trees[t] \in Tree  BY <1>1 DEF PoolType
  <2>2. SeqAfter(frm) \in Frames
    BY SizesAssumption DEF SeqAfter, SeqFrames, Frames, frm_single
  <2>3. Timeout \in 0 .. Timeout  BY SizesAssumption
  <2> QED  BY <2>1, <2>2, <2>3 DEF Tree
<1>8. q \in PoolType
  <2>1. q.trees \in [Trees -> Tree]  BY <1>1, <1>6, <1>7 DEF PoolType
  <2>2. q.items \in [Items -> Item]  BY <1>1, <1>4, <1>6 DEF PoolType, Item
  <2>3. q.free \in Items \cup {max_idx}  BY <1>1, <1>6, PointerTypes
  <2> HIDE DEF q
  <2> QED  BY <1>6, <2>1, <2>2, <2>3 DEF PoolType
<1>9. \A i \in Items : NextOf(q, i) = IF i = f THEN max_idx
                                      ELSE IF i = tail THEN f ELSE NextOf(p, i)
  BY <1>1, <1>4, <1>6 DEF NextOf, PoolType, Item
<1>10. \A u \in Trees : q.trees[u].head = p.trees[u].head
  BY <1>1, <1>6 DEF PoolType, Tree
<1>11. \A o \in Owners : HeadOf(q, o) = IF o = 0 THEN NextOf(p, f) ELSE HeadOf(p, o)
  BY <1>6, <1>10, SizesAssumption DEF HeadOf, Owners, Trees
<1> DEFINE own2 == [own EXCEPT ![f] = t]
           rank2 == [rank EXCEPT ![f] = B + 1]
<1> HIDE DEF q, f, tail
<1>12. NextOf(p, f) # max_idx => own[NextOf(p, f)] = 0 /\ NextOf(p, f) # f
  BY <1>1, <1>3, <1>5 DEF Linked
<1>13. own2 \in [Items -> Owners] /\ \A i \in Items : own2[i] = IF i = f THEN t ELSE own[i]
  BY <1>1, <1>3 DEF Linked
<1>14. /\ rank2 \in [Items -> 0 .. B + 1]
       /\ \A i \in Items : rank[i] \in 0 .. B /\ rank2[i] = IF i = f THEN B + 1 ELSE rank[i]
  BY <1>1, <1>3 DEF Linked
<1> HIDE DEF own2, rank2
<1>15. \A i \in Items : NextOf(p, i) # f
  BY <1>1, <1>3, NilIsNoItem DEF Linked
<1>16. \A i \in Items : NextOf(q, i) # max_idx =>
            own2[NextOf(q, i)] = own2[i] /\ rank2[i] < rank2[NextOf(q, i)]
  <2>1. ASSUME NEW i \in Items, NextOf(q, i) # max_idx
        PROVE  own2[NextOf(q, i)] = own2[i] /\ rank2[i] < rank2[NextOf(q, i)]
    <3>1. CASE i = tail
      BY <3>1, <1>1, <1>4, <1>5, <1>9, <1>13, <1>14
    <3>2. CASE i # tail
      <4>1. i # f /\ NextOf(q, i) = NextOf(p, i) /\ NextOf(p, i) \in Items
        BY <3>2, <2>1, <1>9, <1>1, PointerTypes
      <4> QED  BY <4>1, <2>1, <1>13, <1>14, <1>15, <1>3 DEF Linked
    <3> QED  BY <3>1, <3>2
  <2> QED  BY <2>1
<1>17. \A o \in Owners : HeadOf(q, o) # max_idx => own2[HeadOf(q, o)] = o
  <2>1. ASSUME NEW o \in Owners, HeadOf(q, o) # max_idx
        PROVE  own2[HeadOf(q, o)] = o
    <3>1. CASE o = 0
      BY <3>1, <2>1, <1>11, <1>12, <1>13, <1>1, PointerTypes
    <3>2. CASE o # 0
      <4>1. HeadOf(q, o) = HeadOf(p, o) /\ HeadOf(p, o) \in Items
        BY <3>2, <2>1, <1>11, <1>1, PointerTypes
      <4>2. own[HeadOf(p, o)] = o  BY <4>1, <2>1, <1>3 DEF Linked
      <4> QED  BY <4>1, <4>2, <3>2, <1>5, <1>13
    <3> QED  BY <3>1, <3>2
  <2> QED  BY <2>1
<1>18. \A i \in Items : i = HeadOf(q, own2[i]) \/ \E j \in Items : NextOf(q, j) = i
  <2>1. ASSUME NEW i \in Items
        PROVE  i = HeadOf(q, own2[i]) \/ \E j \in Items : NextOf(q, j) = i
    <3>1. CASE i = f  BY <3>1, <1>4, <1>5, <1>9
    <3>2. CASE i # f /\ i = HeadOf(p, own[i])
      BY <3>2, <1>1, <1>3, <1>11, <1>13 DEF Linked
    <3>3. CASE i # f /\ \E j \in Items : NextOf(p, j) = i
      <4>1. PICK j \in Items : NextOf(p, j) = i  BY <3>3
      <4>2. CASE j = f
        <5>1. own[i] = 0  BY <4>1, <4>2, <1>12, NilIsNoItem
        <5> QED  BY <5>1, <4>1, <4>2, <3>3, <1>1, <1>11, <1>13
      <4>3. CASE j # f
        <5>1. j # tail  BY <4>1, <1>4, NilIsNoItem
        <5> QED  BY <5>1, <4>1, <4>3, <1>9
      <4> QED  BY <4>2, <4>3
    <3> QED  BY <3>1, <3>2, <3>3, <1>3 DEF Linked
  <2> QED  BY <2>1
<1>19. \A i, j \in Items : NextOf(q, i) = NextOf(q, j) /\ NextOf(q, i) # max_idx => i = j
  BY <1>3, <1>9, <1>15 DEF Linked
<1>20. \A i \in Items, o \in Owners : NextOf(q, i) # max_idx => NextOf(q, i) # HeadOf(q, o)
  <2>1. ASSUME NEW i \in Items, NEW o \in Owners, NextOf(q, i) # max_idx
        PROVE  NextOf(q, i) # HeadOf(q, o)
    <3>1. CASE i = tail
      <4>1. NextOf(q, i) = f  BY <3>1, <1>4, <1>5, <1>9
      <4>2. CASE o = 0  BY <4>1, <4>2, <1>1, <1>11, <1>15
      <4>3. CASE o # 0
        <5>1. HeadOf(p, o) # f
          BY <4>3, <1>1, <1>3, <1>5, NilIsNoItem DEF Linked
        <5> QED  BY <5>1, <4>1, <4>3, <1>11
      <4> QED  BY <4>2, <4>3
    <3>2. CASE i # tail
      <4>1. i # f /\ NextOf(q, i) = NextOf(p, i)  BY <3>2, <2>1, <1>9
      <4>2. \A u \in Owners : NextOf(p, i) # HeadOf(p, u)
        BY <2>1, <4>1, <1>3 DEF Linked
      <4>3. NextOf(p, i) # NextOf(p, f)  BY <4>1, <2>1, <1>1, <1>3 DEF Linked
      <4> QED  BY <4>1, <4>2, <4>3, <1>11
    <3> QED  BY <3>1, <3>2
  <2> QED  BY <2>1
<1>21. \A i, j \in Items : own2[i] = own2[j] /\ NextOf(q, i) = max_idx /\ NextOf(q, j) = max_idx => i = j
  <2>1. \A i \in Items : NextOf(q, i) = max_idx /\ i # f =>
            NextOf(p, i) = max_idx /\ i # tail /\ own2[i] = own[i]
    BY <1>1, <1>4, <1>5, <1>9, <1>13, NilIsNoItem
  <2>2. \A i \in Items : NextOf(p, i) = max_idx /\ own[i] = t => i = tail
    BY <1>3, <1>4 DEF Linked
  <2>3. own2[f] = t  BY <1>1, <1>13
  <2>4. \A i, j \in Items : own[i] = own[j] /\ NextOf(p, i) = max_idx /\ NextOf(p, j) = max_idx => i = j
    BY <1>3 DEF Linked
  <2> QED  BY <2>1, <2>2, <2>3, <2>4
<1>22. Linked(q, own2, rank2, B + 1) /\ B + 1 \in Nat
  BY <1>13, <1>14, <1>16, <1>17, <1>18, <1>19, <1>20, <1>21 DEF Linked
<1>23. WellFormed(q)  BY <1>8, <1>22 DEF WellFormed
<1> QED  BY <1>6, <1>23 DEF q

-----------------------------------------------------------------------------
(* The inductive invariant.  Besides the lists it says that the number a    *)
(* partial tree expects is one of the middle and that no two partial trees  *)
(* have the same key.                                                      *)

Good(p) ==
    /\ WellFormed(p)
    /\ \A t \in Trees : p.trees[t].dlc = 0 => p.trees[t].frm \in SeqFrames
    /\ \A s, t \in Partial(p) : p.trees[s].key = p.trees[t].key => s = t

\* The step from p to q leaves the complete packets alone.
Keeps(p, q) ==
    \A t \in Finished(p) :
        /\ q.trees[t] = p.trees[t]
        /\ \A i \in Chain(p, p.trees[t].head) : q.items[i] = p.items[i]

\* Calls in a row, as in push: what each keeps, all keep.
LEMMA KeepsTransitive ==
  ASSUME NEW p \in PoolType, NEW q, NEW r, Keeps(p, q), Keeps(q, r)
  PROVE  Keeps(p, r)
<1> SUFFICES ASSUME NEW t \in Finished(p)
             PROVE  /\ r.trees[t] = p.trees[t]
                    /\ \A i \in Chain(p, p.trees[t].head) : r.items[i] = p.items[i]
  BY DEF Keeps
<1> DEFINE h == p.trees[t].head
           C == Chain(p, h)
<1>1. q.trees[t] = p.trees[t] /\ \A i \in C : q.items[i] = p.items[i]  BY DEF Keeps
<1>2. t \in Finished(q) /\ q.trees[t].head = h
  BY <1>1 DEF Finished, Used, Partial
<1>3. r.trees[t] = q.trees[t] /\ \A i \in Chain(q, h) : r.items[i] = q.items[i]
  BY <1>2 DEF Keeps
<1>4. h \in Items  BY DEF Finished, Used, Partial, PoolType, Tree
<1>5. C \in SUBSET Items /\ h \in C /\ ClosedUnderNext(p, C)
  <2>1. C \in SUBSET Items /\ h \in C  BY <1>4, NilIsNoItem DEF Chain
  <2>2. ASSUME NEW j \in C, NextOf(p, j) # max_idx PROVE NextOf(p, j) \in C
    BY <2>1, <2>2, PointerTypes DEF Chain, ClosedUnderNext
  <2> QED  BY <2>1, <2>2 DEF ClosedUnderNext
<1>6. ASSUME NEW i \in C, NEW S \in SUBSET Items, h \in S \cup {max_idx},
             ClosedUnderNext(q, S)
      PROVE  i \in S
  <2>1. \A j \in C : NextOf(q, j) = NextOf(p, j)  BY <1>1 DEF NextOf
  <2>2. ClosedUnderNext(p, S \cap C)
    BY <2>1, <1>5, <1>6 DEF ClosedUnderNext
  <2>3. h \in (S \cap C) \cup {max_idx} /\ S \cap C \in SUBSET Items
    BY <1>4, <1>5, <1>6, NilIsNoItem
  <2>4. i \in S \cap C  BY <2>2, <2>3, <1>6 DEF Chain
  <2> QED  BY <2>4
<1>7. C \in SUBSET Chain(q, h)
  BY <1>5, <1>6 DEF Chain
<1> QED  BY <1>1, <1>3, <1>7

\* A call that changes nothing keeps everything.
LEMMA KeepsRefl == ASSUME NEW p PROVE Keeps(p, p)
BY DEF Keeps

\* Releasing partial trees: of a key, or those whose countdown ended.
LEMMA ReleaseGood ==
  ASSUME NEW p, Good(p), NEW R \in SUBSET Partial(p)
  PROVE  /\ Good(Release(p, R))
         /\ Keeps(p, Release(p, R))
         /\ p.free # max_idx => Release(p, R).free # max_idx
         /\ Partial(Release(p, R)) = Partial(p) \ R
         /\ \A t \in Trees \ R : Release(p, R).trees[t] = p.trees[t]
<1> DEFINE q == Release(p, R)
<1>1. R \in SUBSET Used(p) /\ WellFormed(p) /\ p.trees \in [Trees -> Tree]
  BY DEF Partial, Good, WellFormed, PoolType
<1>2. /\ WellFormed(q)
      /\ q.trees = [t \in Trees |-> IF t \in R THEN [p.trees[t] EXCEPT !.head = max_idx]
                                    ELSE p.trees[t]]
      /\ p.free # max_idx => q.free # max_idx
      /\ \A t \in Used(p) \ R : \A i \in Chain(p, p.trees[t].head) :
             q.items[i] = p.items[i]
  BY <1>1, ReleaseWellFormed
<1> HIDE DEF q
<1>3. \A t \in Trees \ R : q.trees[t] = p.trees[t]  BY <1>2
<1>4. \A t \in R : t \in Trees /\ q.trees[t] = [p.trees[t] EXCEPT !.head = max_idx]
  BY <1>1, <1>2 DEF Used
<1>5. \A t \in R : q.trees[t].head = max_idx /\ q.trees[t].dlc = p.trees[t].dlc
                   /\ q.trees[t].frm = p.trees[t].frm
  BY <1>1, <1>4 DEF Tree
<1>6. Partial(q) = Partial(p) \ R
  BY <1>3, <1>4, <1>5 DEF Partial, Used
<1>7. \A t \in Finished(p) : t \in Used(p) \ R /\ t \in Trees \ R
  BY DEF Finished, Used, Partial
<1>8. Keeps(p, q)  BY <1>2, <1>3, <1>7 DEF Keeps
<1>9. \A s, t \in Partial(q) : q.trees[s].key = q.trees[t].key => s = t
  <2>1. \A t \in Partial(q) : t \in Partial(p) /\ q.trees[t] = p.trees[t]
    BY <1>3, <1>6 DEF Partial, Used
  <2> QED  BY <2>1 DEF Good
<1>10. \A t \in Trees : q.trees[t].dlc = 0 => q.trees[t].frm \in SeqFrames
  BY <1>3, <1>5 DEF Good
<1> QED  BY <1>2, <1>3, <1>6, <1>8, <1>9, <1>10 DEF Good, q

\* Pool::remove(extid): afterwards no tree collects frames of k.
LEMMA RemoveGood ==
  ASSUME NEW p, Good(p), NEW k
  PROVE  /\ Good(Remove(p, k))
         /\ Keeps(p, Remove(p, k))
         /\ p.free # max_idx => Remove(p, k).free # max_idx
         /\ Working(Remove(p, k), k) = {}
<1>1. Working(p, k) \in SUBSET Partial(p)  BY DEF Working
<1>2. Partial(Remove(p, k)) = Partial(p) \ Working(p, k)
      /\ \A t \in Trees \ Working(p, k) : Remove(p, k).trees[t] = p.trees[t]
  BY <1>1, ReleaseGood DEF Remove
<1>3. \A t \in Partial(p) \ Working(p, k) : Remove(p, k).trees[t].key # k
  BY <1>2 DEF Working, Partial, Used
<1>4. Working(Remove(p, k), k) = {}
  BY <1>2, <1>3 DEF Working
<1> QED  BY <1>1, <1>4, ReleaseGood DEF Remove

\* Pool::timeout(): it counts down and frees partial trees only.
LEMMA TimeoutGood ==
  ASSUME NEW p, Good(p)
  PROVE  Good(TimeoutAll(p)) /\ Keeps(p, TimeoutAll(p))
<1> DEFINE R == Expired(p)
           q == Release(p, R)
           T == [t \in Trees |-> IF t \in Partial(q)
                                 THEN [q.trees[t] EXCEPT !.to = @ - 1] ELSE q.trees[t]]
           r == TimeoutAll(p)
<1>1. R \in SUBSET Partial(p)  BY DEF Expired
<1>2. /\ Good(q) /\ Keeps(p, q)
      /\ Partial(q) = Partial(p) \ R
      /\ \A t \in Trees \ R : q.trees[t] = p.trees[t]
  BY <1>1, ReleaseGood
<1>3. q \in PoolType /\ p \in PoolType  BY <1>2 DEF Good, WellFormed
<1>4. r = [q EXCEPT !.trees = T]  BY DEF TimeoutAll
<1>5. \A t \in Partial(q) : t \in Trees /\ q.trees[t] \in Tree /\ q.trees[t].to # 0
  BY <1>2, <1>3 DEF Partial, Used, Expired, PoolType
<1> HIDE DEF q, R, r
<1>6. r.trees = T /\ r.items = q.items /\ r.free = q.free
      /\ r = [trees |-> T, items |-> q.items, free |-> q.free]
  BY <1>3, <1>4 DEF PoolType
<1>7. \A t \in Partial(q) : [q.trees[t] EXCEPT !.to = @ - 1] \in Tree
  BY <1>5, SizesAssumption DEF Tree
<1>8. T \in [Trees -> Tree]  BY <1>3, <1>7 DEF PoolType
<1>9. r \in PoolType  BY <1>3, <1>6, <1>8 DEF PoolType
<1>10. \A t \in Trees : /\ r.trees[t].head = q.trees[t].head
                        /\ r.trees[t].dlc = q.trees[t].dlc
                        /\ r.trees[t].key = q.trees[t].key
                        /\ r.trees[t].frm = q.trees[t].frm
  BY <1>3, <1>6, <1>5 DEF PoolType, Tree
<1>11. WellFormed(r)  BY <1>2, <1>6, <1>9, <1>10, SameHeads DEF Good
<1>12. Partial(r) = Partial(q)  BY <1>10 DEF Partial, Used
<1>13. Good(r)
  <2>1. \A s, t \in Partial(r) : r.trees[s].key = r.trees[t].key => s = t
    BY <1>2, <1>10, <1>12 DEF Good, Partial, Used
  <2>2. \A t \in Trees : r.trees[t].dlc = 0 => r.trees[t].frm \in SeqFrames
    BY <1>2, <1>10 DEF Good
  <2> QED  BY <1>11, <2>1, <2>2 DEF Good
<1>14. Keeps(q, r)  BY <1>6 DEF Keeps, Finished, Used
<1>15. Keeps(p, r)  BY <1>2, <1>3, <1>14, KeepsTransitive
<1> QED  BY <1>13, <1>15 DEF r

\* The items of a complete packet are neither free nor the tail of a partial one.
LEMMA FinishedApart ==
  ASSUME NEW p, WellFormed(p), NEW t \in Finished(p), NEW i \in Chain(p, p.trees[t].head)
  PROVE  /\ i # p.free
         /\ \A u \in Partial(p) : i # LastOf(p, p.trees[u].head)
<1>1. PICK own, rank : \E B \in Nat : Linked(p, own, rank, B)  BY DEF WellFormed
<1>2. PICK B \in Nat : Linked(p, own, rank, B)  BY <1>1
<1>3. /\ p \in PoolType
      /\ \A u \in Used(p) : u \in Owners /\ u # 0 /\ HeadOf(p, u) = p.trees[u].head
                            /\ HeadOf(p, u) # max_idx
      /\ 0 \in Owners /\ HeadOf(p, 0) = p.free
      /\ t \in Used(p) /\ t \notin Partial(p) /\ Partial(p) \in SUBSET Used(p)
  BY SizesAssumption DEF WellFormed, Used, Finished, Partial, Owners, Trees, HeadOf
<1>4. i \in Items /\ own[i] = t  BY <1>2, <1>3, ChainIsOwned
<1>5. i # p.free  BY <1>2, <1>3, <1>4, NilIsNoItem DEF Linked
<1>6. ASSUME NEW u \in Partial(p) PROVE i # LastOf(p, p.trees[u].head)
  <2>1. own[LastOf(p, p.trees[u].head)] = u  BY <1>2, <1>3, LastIsTail
  <2> QED  BY <2>1, <1>3, <1>4
<1> QED  BY <1>5, <1>6

\* push_new: a first frame, after the trees of its id were removed.
LEMMA BeginGood ==
  ASSUME NEW p, Good(p), p.free # max_idx, NEW t \in Unused(p),
         NEW k \in Keys, Working(p, k) = {},
         NEW d \in Blocks, NEW last \in 0 .. 8 \cup {ZeroLength}
  PROVE  Good(Begin(p, t, k, d, last)) /\ Keeps(p, Begin(p, t, k, d, last))
<1> DEFINE q == Begin(p, t, k, d, last)
           tree == [key |-> k, frm |-> IF last = 0 THEN 0 ELSE frm_single,
                    head |-> p.free, dlc |-> last, to |-> Timeout]
<1>1. WellFormed(p) /\ p \in PoolType /\ t \in Trees /\ p.trees[t].head = max_idx
  BY DEF Good, WellFormed, Unused, Used
<1>2. WellFormed(q) /\ q.trees = [p.trees EXCEPT ![t] = tree]
  <2>1. p.free # max_idx /\ k \in Keys /\ d \in Blocks /\ last \in 0 .. 8 \cup {ZeroLength}
    OBVIOUS
  <2> HIDE DEF q
  <2>2. WellFormed(Begin(p, t, k, d, last))
    BY <1>1, <2>1, BeginWellFormed
  <2>3. Begin(p, t, k, d, last).trees = [p.trees EXCEPT ![t] = tree]
    BY DEF Begin, Take
  <2> QED  BY <2>2, <2>3 DEF q
<1>3. q.items = [p.items EXCEPT ![p.free] = [next |-> max_idx, data |-> d]]
  BY DEF Begin, Take
<1> HIDE DEF q
<1>4. q.trees[t] = tree /\ \A u \in Trees \ {t} : q.trees[u] = p.trees[u]
  BY <1>1, <1>2 DEF PoolType
<1>5. 0 \in SeqFrames  BY SizesAssumption DEF SeqFrames
<1>6. \A u \in Trees : q.trees[u].dlc = 0 => q.trees[u].frm \in SeqFrames
  BY <1>4, <1>5 DEF Good
<1>7. \A u \in Partial(q) : u # t => u \in Partial(p) /\ q.trees[u] = p.trees[u]
  BY <1>4 DEF Partial, Used
<1>8. \A u \in Partial(p) : p.trees[u].key # k
  BY DEF Working
<1>9. \A u, v \in Partial(q) : q.trees[u].key = q.trees[v].key => u = v
  BY <1>4, <1>7, <1>8 DEF Good
<1>10. Keeps(p, q)
  <2>1. ASSUME NEW u \in Finished(p)
        PROVE  /\ q.trees[u] = p.trees[u]
               /\ \A i \in Chain(p, p.trees[u].head) : q.items[i] = p.items[i]
    <3>1. u \in Trees \ {t}  BY <1>1 DEF Finished, Used
    <3>2. ASSUME NEW i \in Chain(p, p.trees[u].head) PROVE q.items[i] = p.items[i]
      <4>1. i # p.free /\ i \in Items  BY <1>1, FinishedApart DEF Chain
      <4> QED  BY <4>1, <1>1, <1>3 DEF PoolType
    <3> QED  BY <3>1, <3>2, <1>4
  <2> QED  BY <2>1 DEF Keeps
<1> QED  BY <1>2, <1>6, <1>9, <1>10 DEF Good, q

\* push_next: the expected frame, or the end.
LEMMA ExtendGood ==
  ASSUME NEW p, Good(p), p.free # max_idx, NEW t \in Partial(p),
         NEW d \in Blocks, NEW last \in 0 .. 8
  PROVE  Good(Extend(p, t, d, last)) /\ Keeps(p, Extend(p, t, d, last))
<1> DEFINE q == Extend(p, t, d, last)
           frm == p.trees[t].frm
           tree == [p.trees[t] EXCEPT !.to = Timeout, !.dlc = last,
                                      !.frm = IF last = 0 THEN SeqAfter(frm) ELSE frm]
           tail == LastOf(p, p.trees[t].head)
<1>1. WellFormed(p) /\ p \in PoolType /\ t \in Trees /\ p.trees[t].dlc = 0 /\ p.free \in Items
  BY DEF Good, WellFormed, Partial, Used, PoolType
<1>2. frm \in SeqFrames  BY <1>1 DEF Good
<1>3. WellFormed(q) /\ q.trees = [p.trees EXCEPT ![t] = tree]
  <2>1. last \in 0 .. 8 \cup {ZeroLength}  OBVIOUS
  <2> HIDE DEF q
  <2>2. WellFormed(Extend(p, t, d, last))
    BY <1>1, <1>2, <2>1, ExtendWellFormed
  <2>3. Extend(p, t, d, last).trees = [p.trees EXCEPT ![t] = tree]
    BY DEF Extend, Take
  <2> QED  BY <2>2, <2>3 DEF q
<1>4. q.items = [[p.items EXCEPT ![tail].next = p.free]
                     EXCEPT ![p.free] = [next |-> max_idx, data |-> d]]
  BY DEF Extend, Take
<1> HIDE DEF q
<1>5. p.trees[t] \in Tree  BY <1>1 DEF PoolType
<1>6. /\ q.trees[t].key = p.trees[t].key
      /\ q.trees[t].dlc = last
      /\ q.trees[t].frm = IF last = 0 THEN SeqAfter(frm) ELSE frm
      /\ \A u \in Trees \ {t} : q.trees[u] = p.trees[u]
  BY <1>1, <1>3, <1>5 DEF PoolType, Tree
<1>7. SeqAfter(frm) \in SeqFrames
  BY <1>2, SizesAssumption DEF SeqAfter, SeqFrames
<1>8. \A u \in Trees : q.trees[u].dlc = 0 => q.trees[u].frm \in SeqFrames
  BY <1>6, <1>7 DEF Good
<1>9. \A u \in Partial(q) : u \in Partial(p) /\ q.trees[u].key = p.trees[u].key
  BY <1>6 DEF Partial, Used
<1>10. \A u, v \in Partial(q) : q.trees[u].key = q.trees[v].key => u = v
  BY <1>9 DEF Good
<1>11. Keeps(p, q)
  <2>1. ASSUME NEW u \in Finished(p)
        PROVE  /\ q.trees[u] = p.trees[u]
               /\ \A i \in Chain(p, p.trees[u].head) : q.items[i] = p.items[i]
    <3>1. u \in Trees \ {t}  BY <1>1 DEF Finished, Used, Partial
    <3>2. ASSUME NEW i \in Chain(p, p.trees[u].head) PROVE q.items[i] = p.items[i]
      <4>1. i # p.free /\ i # tail /\ i \in Items  BY <1>1, FinishedApart DEF Chain
      <4> QED  BY <4>1, <1>1, <1>4 DEF PoolType
    <3> QED  BY <3>1, <3>2, <1>6
  <2> QED  BY <2>1 DEF Keeps
<1> QED  BY <1>3, <1>8, <1>10, <1>11 DEF Good, q

-----------------------------------------------------------------------------
(* The specification.                                                      *)

\* The inductive invariant of the specification.
IInv == Good(Pool) /\ rv \in Results

\* Pool::init(): one list of all items, the free one.
LEMMA InitGood == Init => IInv
<1> SUFFICES ASSUME Init PROVE Good(Pool) /\ rv \in Results  BY DEF IInv
<1> DEFINE own  == [i \in Items |-> 0]
           rank == [i \in Items |-> i]
<1>1. NumItems \in 1 .. 255 /\ NumTrees \in Nat \ {0}  BY SizesAssumption
<1>2. /\ Pool.trees = [t \in Trees |-> [key |-> ZeroKey, frm |-> 0, head |-> max_idx,
                                        dlc |-> 0, to |-> 0]]
      /\ Pool.items = [i \in Items |-> [next |-> IF i = NumItems - 1 THEN max_idx ELSE i + 1,
                                        data |-> ZeroBlock]]
      /\ Pool.free = 0
      /\ Pool = [trees |-> Pool.trees, items |-> Pool.items, free |-> Pool.free]
  BY DEF Init, Pool
<1> DEFINE p == Pool
<1> HIDE DEF p
<1>3. \A i \in Items : NextOf(p, i) = IF i = NumItems - 1 THEN max_idx ELSE i + 1
  BY <1>2 DEF NextOf, p
<1>4. \A t \in Trees : /\ p.trees[t].head = max_idx /\ p.trees[t].dlc = 0
                       /\ p.trees[t].frm = 0
  BY <1>2 DEF p
<1>5. \A o \in Owners : HeadOf(p, o) = IF o = 0 THEN 0 ELSE max_idx
  BY <1>2, <1>4, SizesAssumption DEF HeadOf, Owners, Trees, p
<1>6. p \in PoolType
  <2>1. [key |-> ZeroKey, frm |-> 0, head |-> max_idx, dlc |-> 0, to |-> 0] \in Tree
    BY SizesAssumption DEF Tree, Frames, frm_single
  <2>2. p.trees \in [Trees -> Tree]  BY <1>2, <2>1 DEF p
  <2>3. p.items \in [Items -> Item]
    <3>1. ASSUME NEW i \in Items
          PROVE  (IF i = NumItems - 1 THEN max_idx ELSE i + 1) \in Items \cup {max_idx}
      BY <1>1 DEF Items
    <3> QED  BY <1>2, <3>1, DataAssumption DEF p, Item
  <2>4. p.free \in Items
    <3>1. 0 \in Items  BY <1>1 DEF Items
    <3> QED  BY <1>2, <3>1 DEF p
  <2> QED  BY <1>2, <2>2, <2>3, <2>4 DEF PoolType, p
<1>7. Linked(p, own, rank, NumItems)
  <2>1. own \in [Items -> Owners] /\ rank \in [Items -> 0 .. NumItems]
    BY <1>1 DEF Items, Owners
  <2>2. \A i \in Items : own[i] = 0 /\ rank[i] = i  OBVIOUS
  <2>3. \A i \in Items : i = 0 \/ \E j \in Items : NextOf(p, j) = i
    <3>1. ASSUME NEW i \in Items, i # 0 PROVE \E j \in Items : NextOf(p, j) = i
      <4>1. i - 1 \in Items /\ i - 1 # NumItems - 1 /\ (i - 1) + 1 = i
        BY <1>1, <3>1 DEF Items
      <4>2. NextOf(p, i - 1) = i  BY <4>1, <1>3
      <4> QED  BY <4>1, <4>2
    <3> QED  BY <3>1
  <2>4. \A i \in Items : NextOf(p, i) # max_idx => NextOf(p, i) = i + 1 /\ i + 1 \in Items
    BY <1>1, <1>3 DEF Items
  <2>5. \A i \in Items : NextOf(p, i) = max_idx => i = NumItems - 1
    BY <1>1, <1>3 DEF Items, max_idx
  <2>6. \A i \in Items : i \in Nat  BY <1>1 DEF Items
  <2> HIDE DEF own, rank
  <2>7. \A i \in Items : NextOf(p, i) # max_idx =>
            own[NextOf(p, i)] = own[i] /\ rank[i] < rank[NextOf(p, i)]
    BY <2>2, <2>4, <2>6
  <2>8. \A o \in Owners : HeadOf(p, o) # max_idx => own[HeadOf(p, o)] = o
    BY <1>1, <1>5, <2>2 DEF Items
  <2>9. \A i \in Items : i = HeadOf(p, own[i]) \/ \E j \in Items : NextOf(p, j) = i
    BY <1>1, <1>5, <2>2, <2>3 DEF Owners
  <2>10. \A i, j \in Items : NextOf(p, i) = NextOf(p, j) /\ NextOf(p, i) # max_idx => i = j
    BY <2>4, <2>6
  <2>11. \A i \in Items, o \in Owners : NextOf(p, i) # max_idx => NextOf(p, i) # HeadOf(p, o)
    BY <1>5, <2>4, <2>6
  <2>12. \A i, j \in Items :
             own[i] = own[j] /\ NextOf(p, i) = max_idx /\ NextOf(p, j) = max_idx => i = j
    BY <2>5
  <2> QED  BY <2>1, <2>7, <2>8, <2>9, <2>10, <2>11, <2>12 DEF Linked
<1>8. WellFormed(p)  BY <1>1, <1>6, <1>7 DEF WellFormed
<1>9. 0 \in SeqFrames  BY SizesAssumption DEF SeqFrames
<1>10. Partial(p) = {}  BY <1>4 DEF Partial, Used
<1>11. Good(p)  BY <1>4, <1>8, <1>9, <1>10 DEF Good
<1>12. rv \in Results  BY DEF Init, Results
<1> QED  BY <1>11, <1>12 DEF p

\* The three variables are the pool.
LEMMA BecomePool == ASSUME NEW p \in PoolType, Become(p) PROVE Pool' = p
BY DEF Become, Pool, PoolType

\* The tree that push_next finds.
LEMMA WorkingTree ==
  ASSUME NEW p, NEW k, Working(p, k) # {}
  PROVE  Min(Working(p, k)) \in Working(p, k) /\ Min(Working(p, k)) \in Partial(p)
<1>1. Working(p, k) \in SUBSET Nat  BY SizesAssumption DEF Working, Partial, Used, Trees
<1> QED  BY <1>1, MinIsLeast DEF Working

\* read_packet: the chain of a complete packet is freed, the others stay.
LEMMA ReadGood ==
  ASSUME NEW p, Good(p), NEW t \in Finished(p)
  PROVE  /\ Good(Release(p, {t}))
         /\ \A u \in Finished(p) \ {t} :
                /\ Release(p, {t}).trees[u] = p.trees[u]
                /\ \A i \in Chain(p, p.trees[u].head) : Release(p, {t}).items[i] = p.items[i]
<1> DEFINE q == Release(p, {t})
<1>1. {t} \in SUBSET Used(p) /\ WellFormed(p) /\ p \in PoolType /\ t \in Trees
      /\ t \notin Partial(p)
  BY DEF Finished, Used, Good, WellFormed
<1>2. /\ WellFormed(q)
      /\ q.trees = [u \in Trees |-> IF u \in {t} THEN [p.trees[u] EXCEPT !.head = max_idx]
                                    ELSE p.trees[u]]
      /\ \A u \in Used(p) \ {t} : \A i \in Chain(p, p.trees[u].head) :
             q.items[i] = p.items[i]
  BY <1>1, ReleaseWellFormed
<1> HIDE DEF q
<1>3. \A u \in Trees \ {t} : q.trees[u] = p.trees[u]  BY <1>2
<1>4. /\ q.trees[t].head = max_idx /\ q.trees[t].dlc = p.trees[t].dlc
      /\ q.trees[t].frm = p.trees[t].frm
  BY <1>1, <1>2 DEF PoolType, Tree
<1>5. \A u \in Partial(q) : u \in Partial(p) /\ q.trees[u] = p.trees[u]
  BY <1>3, <1>4 DEF Partial, Used
<1>6. \A u, v \in Partial(q) : q.trees[u].key = q.trees[v].key => u = v
  BY <1>5 DEF Good
<1>7. \A u \in Trees : q.trees[u].dlc = 0 => q.trees[u].frm \in SeqFrames
  BY <1>3, <1>4 DEF Good
<1>8. \A u \in Finished(p) \ {t} : u \in Trees \ {t} /\ u \in Used(p) \ {t}
  BY DEF Finished, Used
<1>9. \A u \in Finished(p) \ {t} :
          /\ q.trees[u] = p.trees[u]
          /\ \A i \in Chain(p, p.trees[u].head) : q.items[i] = p.items[i]
  BY <1>2, <1>3, <1>8
<1> QED  BY <1>2, <1>6, <1>7, <1>9 DEF Good, q

\* A call of push that turns the pool into q.
LEMMA CallKeeps ==
  ASSUME NEW q, Become(q), Good(q), Keeps(Pool, q), NEW r \in Results, Return(r)
  PROVE  IInv' /\ Keeps(Pool, Pool')
<1>1. Pool' = q  BY BecomePool DEF Good, WellFormed
<1> QED  BY <1>1 DEF IInv, Return

\* push without a free item: a timeout and a removal.
LEMMA OverflowKeeps ==
  ASSUME IInv, NEW k \in Keys, PushOverflow(k)
  PROVE  IInv' /\ Keeps(Pool, Pool')
<1> DEFINE p == Pool
<1>1. Good(p) /\ p \in PoolType  BY DEF IInv, Good, WellFormed
<1>2. Become(Remove(TimeoutAll(p), k)) /\ Return("ErrorSlotsOverflow")
  BY DEF PushOverflow
<1> HIDE DEF p
<1>3. Good(TimeoutAll(p)) /\ Keeps(p, TimeoutAll(p))  BY <1>1, TimeoutGood
<1>4. Good(Remove(TimeoutAll(p), k)) /\ Keeps(TimeoutAll(p), Remove(TimeoutAll(p), k))
  BY <1>3, RemoveGood
<1>5. Keeps(p, Remove(TimeoutAll(p), k))  BY <1>1, <1>3, <1>4, KeepsTransitive
<1> QED  BY <1>2, <1>4, <1>5, CallKeeps DEF Results, p

\* Every other call of push keeps all complete packets, too.
LEMMA PushKeeps ==
  ASSUME IInv, NEW k \in Keys, NEW f \in Frames, NEW d \in Blocks, NEW n \in Dlcs,
         PushNew(k, f, d, n) \/ PushOrphan(k, f, n) \/ PushNext(k, f, d, n)
  PROVE  IInv' /\ Keeps(Pool, Pool')
<1> DEFINE p == Pool
<1>1. Good(p) /\ p \in PoolType /\ p.free = free /\ p.trees = trees
  BY DEF IInv, Good, WellFormed, Pool
<1>2. ASSUME NEW q, Become(q), Good(q), Keeps(p, q), NEW r \in Results, Return(r)
      PROVE  IInv' /\ Keeps(Pool, Pool')
  BY <1>2, CallKeeps
<1> HIDE DEF p
<1>4. CASE PushNew(k, f, d, n)
  <2> DEFINE last == IF f = frm_start THEN 0 ELSE IF n > 0 THEN n ELSE ZeroLength
             q == Remove(p, k)
  <2>1. free # max_idx  BY <1>4 DEF PushNew
  <2>2. Good(q) /\ Keeps(p, q) /\ q.free # max_idx /\ Working(q, k) = {}
    BY <1>1, <2>1, RemoveGood
  <2>3. last \in 0 .. 8 \cup {ZeroLength}  BY DataAssumption
  <2>4. \/ Become(TimeoutAll(q)) /\ Return("ErrorTreeOverflow")
        \/ /\ Unused(q) # {}
           /\ Become(Begin(q, Min(Unused(q)), k, d, last))
           /\ \E r \in Results : Return(r)
    BY <1>4 DEF PushNew, p, Results
  <2> HIDE DEF q, last
  <2>5. CASE Become(TimeoutAll(q)) /\ Return("ErrorTreeOverflow")
    <3>1. Good(TimeoutAll(q)) /\ Keeps(q, TimeoutAll(q))  BY <2>2, TimeoutGood
    <3>2. Keeps(p, TimeoutAll(q))  BY <1>1, <2>2, <3>1, KeepsTransitive
    <3> QED  BY <1>2, <2>5, <3>1, <3>2 DEF Results
  <2>6. CASE /\ Unused(q) # {}
             /\ Become(Begin(q, Min(Unused(q)), k, d, last))
             /\ \E r \in Results : Return(r)
    <3> DEFINE t == Min(Unused(q))
    <3>1. Unused(q) \in SUBSET Nat  BY SizesAssumption DEF Unused, Trees
    <3>2. t \in Unused(q)  BY <2>6, <3>1, MinIsLeast
    <3> HIDE DEF t
    <3>3. Good(Begin(q, t, k, d, last)) /\ Keeps(q, Begin(q, t, k, d, last))
      BY <2>2, <2>3, <3>2, BeginGood
    <3>4. Keeps(p, Begin(q, t, k, d, last))  BY <1>1, <2>2, <3>3, KeepsTransitive
    <3> QED  BY <1>2, <2>6, <3>3, <3>4 DEF t
  <2> QED  BY <2>4, <2>5, <2>6
<1>5. CASE PushOrphan(k, f, n)
  <2>1. Good(Remove(p, k)) /\ Keeps(p, Remove(p, k))  BY <1>1, RemoveGood
  <2>2. Good(TimeoutAll(Remove(p, k))) /\ Keeps(Remove(p, k), TimeoutAll(Remove(p, k)))
    BY <2>1, TimeoutGood
  <2>3. Keeps(p, TimeoutAll(Remove(p, k)))  BY <1>1, <2>1, <2>2, KeepsTransitive
  <2>4. Become(TimeoutAll(Remove(p, k))) /\ Return("ErrorOrphan")
    BY <1>5 DEF PushOrphan, p
  <2> QED  BY <1>2, <2>2, <2>3, <2>4 DEF Results
<1>6. CASE PushNext(k, f, d, n)
  <2> DEFINE t == Min(Working(p, k))
  <2>1. free # max_idx /\ Working(p, k) # {}  BY <1>6 DEF PushNext, p
  <2>2. t \in Partial(p)  BY <2>1, WorkingTree
  <2>3. \E last \in 0 .. 8, r \in Results : Become(Extend(p, t, d, last)) /\ Return(r)
    <3>1. n \in 0 .. 8 /\ 0 \in 0 .. 8  BY DataAssumption
    <3> QED  BY <1>6, <3>1 DEF PushNext, p, Results
  <2>4. PICK last \in 0 .. 8, r \in Results : Become(Extend(p, t, d, last)) /\ Return(r)
    BY <2>3
  <2> HIDE DEF t
  <2>5. Good(Extend(p, t, d, last)) /\ Keeps(p, Extend(p, t, d, last))
    BY <1>1, <2>1, <2>2, ExtendGood
  <2> QED  BY <1>2, <2>4, <2>5
<1> QED  BY <1>4, <1>5, <1>6

\* A step of the specification.
LEMMA StepKeeps ==
  ASSUME IInv, [Next]_vars
  PROVE  /\ IInv'
         /\ \/ Keeps(Pool, Pool')
            \/ /\ got' # <<>>
               /\ \A t \in Finished(Pool) \ {Min(Finished(Pool))} :
                      /\ trees'[t] = trees[t]
                      /\ \A i \in Chain(Pool, trees[t].head) : items'[i] = items[i]
<1>1. Good(Pool) /\ Pool \in PoolType /\ rv \in Results
  BY DEF IInv, Good, WellFormed
<1>2. ASSUME NEW r \in Results, rv' = r, UNCHANGED <<trees, items, free>>
      PROVE  IInv' /\ Keeps(Pool, Pool')
  <2>1. Pool' = Pool  BY <1>2 DEF Pool
  <2> QED  BY <2>1, <1>1, <1>2, KeepsRefl DEF IInv
<1>3. CASE UNCHANGED vars
  BY <1>1, <1>2, <1>3 DEF vars
<1>4. ASSUME NEW k \in Keys, PushOverflow(k)
      PROVE  IInv' /\ Keeps(Pool, Pool')
  BY <1>4, OverflowKeeps
<1>5. CASE \E f \in Frames, n \in Dlcs : PushBadLength(f, n)
  BY <1>5, <1>2 DEF PushBadLength, Return, Results
<1>6. CASE \E k \in Keys, f \in Frames, n \in Dlcs : PushOrphan(k, f, n) \/ PushRepeated(k, f, n)
  <2>1. CASE \E k \in Keys, f \in Frames, n \in Dlcs : PushOrphan(k, f, n)
    BY <2>1, PushKeeps, DataAssumption
  <2>2. CASE \E k \in Keys, f \in Frames, n \in Dlcs : PushRepeated(k, f, n)
    BY <2>2, <1>2 DEF PushRepeated, Return, Results
  <2> QED  BY <1>6, <2>1, <2>2
<1>7. CASE \E k \in Keys, f \in Frames, d \in Blocks, n \in Dlcs :
               PushNew(k, f, d, n) \/ PushNext(k, f, d, n)
  BY <1>7, PushKeeps
<1>8. CASE \E sz \in DestSizes : ReadPacket(sz)
  <2> DEFINE t == Min(Finished(Pool))
             q == Release(Pool, {t})
  <2>1. Finished(Pool) # {} /\ Become(q) /\ got' # <<>> /\ rv' = "-"
    BY <1>8 DEF ReadPacket
  <2>2. t \in Finished(Pool)
    <3>1. Finished(Pool) \in SUBSET Nat  BY SizesAssumption DEF Finished, Used, Trees
    <3> QED  BY <3>1, <2>1, MinIsLeast
  <2> HIDE DEF t
  <2>3. /\ Good(q)
        /\ \A u \in Finished(Pool) \ {t} :
               /\ q.trees[u] = Pool.trees[u]
               /\ \A i \in Chain(Pool, Pool.trees[u].head) : q.items[i] = Pool.items[i]
    BY <1>1, <2>2, ReadGood
  <2> HIDE DEF q
  <2>4. Pool' = q  BY <2>1, <2>3, BecomePool DEF Good, WellFormed
  <2>5. /\ q.trees = trees' /\ q.items = items' /\ Pool.trees = trees /\ Pool.items = items
    BY <2>1 DEF Become, Pool
  <2>6. IInv'  BY <2>1, <2>3, <2>4 DEF IInv, Results
  <2> QED  BY <2>1, <2>3, <2>5, <2>6 DEF t
<1>9. CASE ReadNothing
  BY <1>9, <1>2 DEF ReadNothing, Return, Results
<1>10. CASE TimeoutCall
  <2>1. Good(TimeoutAll(Pool)) /\ Keeps(Pool, TimeoutAll(Pool))  BY <1>1, TimeoutGood
  <2>2. Pool' = TimeoutAll(Pool)
    BY <1>10, <2>1, BecomePool DEF TimeoutCall, Good, WellFormed
  <2> QED  BY <1>10, <2>1, <2>2 DEF TimeoutCall, Return, Results, IInv
<1> QED  BY <1>3, <1>4, <1>5, <1>6, <1>7, <1>8, <1>9, <1>10 DEF Next

\* The invariant says of the variables what the properties ask.
LEMMA IInvImplies ==
  ASSUME IInv
  PROVE  TypeOK /\ ItemsOwnedOnce /\ ChainsEnd /\ OnePartialPerKey
<1> DEFINE p == Pool
<1>1. p \in PoolType /\ Good(p) /\ rv \in Results  BY DEF IInv, Good, WellFormed
<1>2. p.trees = trees /\ p.items = items /\ p.free = free  BY DEF Pool
<1>3. TypeOK  BY <1>1, <1>2 DEF TypeOK, PoolType
<1> HIDE DEF p
<1>4. PICK own, rank : \E B \in Nat : Linked(p, own, rank, B)
  BY <1>1 DEF Good, WellFormed
<1>5. PICK B \in Nat : Linked(p, own, rank, B)  BY <1>4
<1>6. \A o \in Owners : Chain(p, HeadOf(p, o)) = {i \in Items : own[i] = o}
  BY <1>1, <1>5, ChainIsOwned
<1>7. own \in [Items -> Owners]  BY <1>5 DEF Linked
<1>8. ItemsOwnedOnce
  <2>1. UNION {Chain(p, HeadOf(p, o)) : o \in Owners} = Items
    BY <1>6, <1>7
  <2>2. ASSUME NEW o \in Owners, NEW u \in Owners, o < u
        PROVE  Chain(p, HeadOf(p, o)) \cap Chain(p, HeadOf(p, u)) = {}
    BY <2>2, <1>6 DEF Owners
  <2> QED  BY <2>1, <2>2 DEF ItemsOwnedOnce, p
<1>9. ChainsEnd
  <2>1. ASSUME NEW o \in Owners, HeadOf(p, o) # max_idx
        PROVE  \E i \in Chain(p, HeadOf(p, o)) : \A j \in Chain(p, HeadOf(p, o)) :
                   NextOf(p, j) = max_idx <=> j = i
    <3> DEFINE i == LastOf(p, HeadOf(p, o))
    <3>1. i \in Items /\ own[i] = o /\ NextOf(p, i) = max_idx
      BY <2>1, <1>1, <1>5, LastIsTail
    <3> HIDE DEF i
    <3>2. \A j \in Items : own[j] = o /\ NextOf(p, j) = max_idx => j = i
      BY <3>1, <1>5 DEF Linked
    <3> QED  BY <3>1, <3>2, <1>6
  <2> QED  BY <2>1 DEF ChainsEnd, p
<1>10. OnePartialPerKey  BY <1>1, <1>2 DEF OnePartialPerKey, Good, p
<1> QED  BY <1>3, <1>8, <1>9, <1>10

\* The inductive invariant holds in every reachable state.
LEMMA Invariance == Spec => []IInv
<1>1. Init => IInv  BY InitGood
<1>2. IInv /\ [Next]_vars => IInv'  BY StepKeeps
<1> QED  BY <1>1, <1>2, PTL DEF Spec

\* The variables of the pool have their types: every index is in its array or nil,
\* no countdown passes zero (Tree::to is unsigned), no frame number leaves its range.
THEOREM TypeCorrect == Spec => []TypeOK
<1>1. IInv => TypeOK  BY IInvImplies
<1> QED  BY <1>1, Invariance, PTL

\* No call of push, read_packet or timeout leaks an item or gives it to two
\* packets, for every number of items and trees.
THEOREM Ownership == Spec => []ItemsOwnedOnce
<1>1. IInv => ItemsOwnedOnce  BY IInvImplies
<1> QED  BY <1>1, Invariance, PTL

\* No call closes a chain of items to a cycle or opens it: remove(), append() and
\* read_packet() come to the end of every list they follow.
THEOREM EveryChainEnds == Spec => []ChainsEnd
<1>1. IInv => ChainsEnd  BY IInvImplies
<1> QED  BY <1>1, Invariance, PTL

\* No two trees collect frames with the same id, so "the" tree that push_next
\* looks for is the only one.
THEOREM OnePartial == Spec => []OnePartialPerKey
<1>1. IInv => OnePartialPerKey  BY IInvImplies
<1> QED  BY <1>1, Invariance, PTL

\* A complete packet is neither dropped nor overwritten before read_packet
\* returns it.
THEOREM CompleteKept == Spec => FinishedKept
<1> DEFINE Kept == \A t \in Finished(Pool) :
                       \/ /\ trees'[t] = trees[t]
                          /\ \A i \in Chain(Pool, trees[t].head) : items'[i] = items[i]
                       \/ got' # <<>> /\ t = Min(Finished(Pool))
<1>1. IInv /\ [Next]_vars => Kept
  <2> SUFFICES ASSUME IInv, [Next]_vars PROVE Kept  OBVIOUS
  <2>1. CASE Keeps(Pool, Pool')
    <3>1. Pool.trees = trees /\ Pool.items = items /\ Pool'.trees = trees' /\ Pool'.items = items'
      BY DEF Pool
    <3> QED  BY <2>1, <3>1 DEF Keeps
  <2> QED  BY <2>1, StepKeeps
<1>2. IInv /\ [Next]_vars => [Kept]_vars  BY <1>1
<1> QED  BY <1>2, Invariance, PTL DEF Spec, FinishedKept

-----------------------------------------------------------------------------
(* Paths                                                                   *)

\* The items from h to the end of the list, in order.
Path(p, h, s) ==
    /\ s \in Seq(Items) /\ s # <<>>
    /\ s[1] = h
    /\ \A j \in 1 .. Len(s) - 1 : NextOf(p, s[j]) = s[j + 1]
    /\ NextOf(p, s[Len(s)]) = max_idx

\* Their data.
DataOf(p, s) == [j \in 1 .. Len(s) |-> p.items[s[j]].data]

\* A path has at least one item.
LEMMA PathLength ==
  ASSUME NEW p, NEW h, NEW s, Path(p, h, s)
  PROVE  /\ Len(s) \in Nat \ {0} /\ DOMAIN s = 1 .. Len(s)
         /\ \A j \in 1 .. Len(s) : s[j] \in Items
BY EmptySeq, LenProperties, ElementOfSeq DEF Path

\* One item more in front of a path.
LEMMA PathStep ==
  ASSUME NEW p \in PoolType, NEW i \in Items
  PROVE  /\ NextOf(p, i) = max_idx => Path(p, i, <<i>>) /\ DataOf(p, <<i>>) = <<p.items[i].data>>
         /\ \A s : NextOf(p, i) # max_idx /\ Path(p, NextOf(p, i), s) =>
                /\ Path(p, i, <<i>> \o s)
                /\ DataOf(p, <<i>> \o s) = <<p.items[i].data>> \o DataOf(p, s)
<1>1. ASSUME NextOf(p, i) = max_idx
      PROVE  Path(p, i, <<i>>) /\ DataOf(p, <<i>>) = <<p.items[i].data>>
  <2>1. Path(p, i, <<i>>)  BY <1>1 DEF Path
  <2>2. DataOf(p, <<i>>) = <<p.items[i].data>>  BY DEF DataOf
  <2> QED  BY <2>1, <2>2
<1>2. ASSUME NEW s, NextOf(p, i) # max_idx, Path(p, NextOf(p, i), s)
      PROVE  /\ Path(p, i, <<i>> \o s)
             /\ DataOf(p, <<i>> \o s) = <<p.items[i].data>> \o DataOf(p, s)
  <2> DEFINE q == <<i>> \o s
             n == Len(s)
  <2>1. n \in Nat \ {0} /\ s \in Seq(Items)  BY <1>2, PathLength DEF Path
  <2>2. /\ q \in Seq(Items) /\ Len(q) = n + 1
        /\ q[1] = i /\ \A j \in 1 .. n : q[j + 1] = s[j]
    BY <2>1
  <2> HIDE DEF q, n
  <2>3. ASSUME NEW j \in 1 .. Len(q) - 1 PROVE NextOf(p, q[j]) = q[j + 1]
    <3>1. CASE j = 1  BY <1>2, <2>1, <2>2, <3>1 DEF Path
    <3>2. CASE j # 1
      <4>1. j - 1 \in 1 .. n - 1 /\ j - 1 \in 1 .. n /\ j \in 1 .. n /\ (j - 1) + 1 = j  BY <2>1, <2>2, <3>2
      <4>2. NextOf(p, s[j - 1]) = s[j]  BY <1>2, <4>1 DEF Path, n
      <4>3. q[j] = s[j - 1] /\ q[j + 1] = s[j]  BY <2>2, <4>1
      <4> QED  BY <4>2, <4>3
    <3> QED  BY <3>1, <3>2
  <2>4. NextOf(p, q[Len(q)]) = max_idx  BY <1>2, <2>1, <2>2 DEF Path, n
  <2>5. Path(p, i, q)
    <3>1. q # <<>>  BY <2>1, <2>2
    <3> QED  BY <2>2, <2>3, <2>4, <3>1 DEF Path
  <2>6. DataOf(p, q) = <<p.items[i].data>> \o DataOf(p, s)
    <3> DEFINE a == DataOf(p, q)
               b == DataOf(p, s)
               c == <<p.items[i].data>> \o b
    <3>1. a \in Seq(Blocks) /\ b \in Seq(Blocks) /\ Len(a) = n + 1 /\ Len(b) = n
      <4>1. \A x \in Items : p.items[x].data \in Blocks  BY DEF PoolType, Item
      <4>2. \A j \in 1 .. n : s[j] \in Items  BY <2>1, ElementOfSeq DEF n
      <4>3. \A j \in 1 .. n + 1 : q[j] \in Items  BY <2>2, ElementOfSeq
      <4>4. b \in [1 .. n -> Blocks] /\ a \in [1 .. n + 1 -> Blocks]
        BY <2>2, <4>1, <4>2, <4>3 DEF DataOf, n
      <4>5. b \in Seq(Blocks) /\ a \in Seq(Blocks)  BY <2>1, <4>4, SeqDef
      <4>6. Len(b) = n /\ Len(a) = n + 1
        <5>1. DOMAIN b = 1 .. n /\ DOMAIN a = 1 .. n + 1  BY <4>4
        <5>2. DOMAIN b = 1 .. Len(b) /\ DOMAIN a = 1 .. Len(a) /\ Len(a) \in Nat /\ Len(b) \in Nat
          BY <4>5, LenProperties
        <5> QED  BY <2>1, <5>1, <5>2
      <4> QED  BY <4>5, <4>6
    <3>2. p.items[i].data \in Blocks  BY DEF PoolType, Item
    <3>3. \A j \in 1 .. n : a[j + 1] = b[j]
      <4>1. \A j \in 1 .. n : b[j] = p.items[s[j]].data  BY DEF DataOf, n
      <4>2. \A j \in 1 .. n + 1 : a[j] = p.items[q[j]].data  BY <2>2 DEF DataOf
      <4>3. \A j \in 1 .. n : j + 1 \in 1 .. n + 1  BY <2>1
      <4> QED  BY <2>2, <4>1, <4>2, <4>3
    <3>4. a[1] = p.items[i].data
      <4>1. 1 \in 1 .. Len(q)  BY <2>1, <2>2
      <4> QED  BY <2>2, <4>1 DEF DataOf
    <3> HIDE DEF a, b
    <3>5. c \in Seq(Blocks) /\ Len(c) = n + 1 /\ c[1] = p.items[i].data /\ \A j \in 1 .. n : c[j + 1] = b[j]
      BY <2>1, <3>1, <3>2
    <3> HIDE DEF c
    <3>6. ASSUME NEW j \in 1 .. n + 1 PROVE a[j] = c[j]
      <4>1. CASE j = 1  BY <3>4, <3>5, <4>1
      <4>2. CASE j # 1
        <5>1. j - 1 \in 1 .. n /\ (j - 1) + 1 = j  BY <2>1, <4>2
        <5> QED  BY <3>3, <3>5, <5>1
      <4> QED  BY <4>1, <4>2
    <3>7. a = c  BY <3>1, <3>5, <3>6, SeqEqual
    <3> QED  BY <3>7 DEF a, b, c
  <2> QED  BY <2>5, <2>6 DEF q
<1> QED  BY <1>1, <1>2

\* From every item a path leads to the end, through items of the same owner.
LEMMA PathExists ==
  ASSUME NEW p \in PoolType, NEW own, NEW rank, NEW B \in Nat, Linked(p, own, rank, B)
  PROVE  \A i \in Items : \E s : Path(p, i, s) /\ \A j \in 1 .. Len(s) : own[s[j]] = own[i]
<1> DEFINE Leads(i) == \E s : Path(p, i, s) /\ \A j \in 1 .. Len(s) : own[s[j]] = own[i]
           Bad == {i \in Items : ~Leads(i)}
           M == {rank[i] : i \in Bad}
<1>1. SUFFICES ASSUME Bad # {} PROVE FALSE  OBVIOUS
<1>2. M \in SUBSET (0 .. B) /\ M # {}  BY <1>1 DEF Linked
<1>3. PICK m \in M : \A n \in M : n <= m  BY <1>2, MaxIsGreatest
<1>4. PICK i \in Bad : rank[i] = m  BY <1>3
<1>5. CASE NextOf(p, i) = max_idx
  <2>1. Path(p, i, <<i>>)  BY <1>5, PathStep
  <2>2. \A j \in 1 .. Len(<<i>>) : own[<<i>>[j]] = own[i]  OBVIOUS
  <2>3. Leads(i)  BY <2>1, <2>2
  <2> QED  BY <1>4, <2>3
<1>6. CASE NextOf(p, i) # max_idx
  <2> DEFINE n == NextOf(p, i)
  <2>1. n \in Items /\ own[n] = own[i] /\ rank[i] < rank[n]  BY <1>6, PointerTypes DEF Linked
  <2>2. n \notin Bad
    <3>1. SUFFICES ASSUME n \in Bad PROVE FALSE  OBVIOUS
    <3>2. rank[n] \in M /\ rank[i] \in M  BY <1>4, <3>1
    <3>3. rank[n] <= m  BY <1>3, <3>2
    <3>4. rank[i] \in Nat /\ rank[n] \in Nat /\ m \in Nat  BY <1>2, <1>3, <3>2
    <3> HIDE DEF n, Bad, M
    <3> QED  BY <1>4, <2>1, <3>3, <3>4
  <2>3. PICK s : Path(p, n, s) /\ \A j \in 1 .. Len(s) : own[s[j]] = own[n]  BY <2>1, <2>2
  <2>4. Path(p, i, <<i>> \o s)  BY <1>6, <2>3, PathStep
  <2>5. ASSUME NEW j \in 1 .. Len(<<i>> \o s) PROVE own[(<<i>> \o s)[j]] = own[i]
    <3>1. s \in Seq(Items) /\ Len(s) \in Nat  BY <2>3, PathLength DEF Path
    <3>2. CASE j = 1  BY <3>1, <3>2
    <3>3. CASE j # 1
      <4>1. j - 1 \in 1 .. Len(s) /\ (<<i>> \o s)[j] = s[j - 1]  BY <3>1, <3>3
      <4> QED  BY <2>1, <2>3, <4>1
    <3> QED  BY <3>2, <3>3
  <2>6. Leads(i)  BY <2>4, <2>5
  <2> QED  BY <1>4, <2>6
<1> QED  BY <1>5, <1>6

\* There is only one.
LEMMA PathUnique ==
  ASSUME NEW p, NEW h, NEW s, NEW t, Path(p, h, s), Path(p, h, t)
  PROVE  s = t
<1>1. /\ Len(s) \in Nat \ {0} /\ \A j \in 1 .. Len(s) : s[j] \in Items
      /\ Len(t) \in Nat \ {0} /\ \A j \in 1 .. Len(t) : t[j] \in Items
  BY PathLength
<1> DEFINE Bad == {j \in Nat : j \in 1 .. Len(s) /\ j \in 1 .. Len(t) /\ s[j] # t[j]}
<1>2. Bad = {}
  <2>1. SUFFICES ASSUME Bad # {} PROVE FALSE  OBVIOUS
  <2>2. PICK j \in Bad : \A n \in Bad : j <= n  BY <2>1, LeastNat
  <2>3. j # 1  BY <2>2 DEF Path
  <2>4. j - 1 \in 1 .. Len(s) - 1 /\ j - 1 \in 1 .. Len(t) - 1 /\ j - 1 \notin Bad  BY <1>1, <2>2, <2>3
  <2>5. s[j - 1] = t[j - 1]  BY <1>1, <2>4
  <2>6. NextOf(p, s[j - 1]) = s[(j - 1) + 1] /\ NextOf(p, t[j - 1]) = t[(j - 1) + 1]  BY <2>4 DEF Path
  <2>7. (j - 1) + 1 = j  BY <2>2
  <2>8. s[j] = t[j]  BY <2>5, <2>6, <2>7
  <2> QED  BY <2>2, <2>8
<1>3. \A j \in 1 .. Len(s) : j \in 1 .. Len(t) => s[j] = t[j]  BY <1>1, <1>2
<1>4. ASSUME Len(s) < Len(t) PROVE FALSE
  <2>1. /\ Len(s) \in 1 .. Len(s) /\ Len(s) \in 1 .. Len(t) - 1 /\ Len(s) \in 1 .. Len(t)
        /\ Len(s) + 1 \in 1 .. Len(t)
    BY <1>1, <1>4
  <2>2. NextOf(p, s[Len(s)]) = max_idx /\ NextOf(p, t[Len(s)]) = t[Len(s) + 1]  BY <2>1 DEF Path
  <2>3. s[Len(s)] = t[Len(s)]  BY <1>3, <2>1
  <2> QED  BY <1>1, <2>1, <2>2, <2>3, NilIsNoItem
<1>5. ASSUME Len(t) < Len(s) PROVE FALSE
  <2>1. /\ Len(t) \in 1 .. Len(t) /\ Len(t) \in 1 .. Len(s) - 1 /\ Len(t) \in 1 .. Len(s)
        /\ Len(t) + 1 \in 1 .. Len(s)
    BY <1>1, <1>5
  <2>2. NextOf(p, t[Len(t)]) = max_idx /\ NextOf(p, s[Len(t)]) = s[Len(t) + 1]  BY <2>1 DEF Path
  <2>3. s[Len(t)] = t[Len(t)]  BY <1>3, <2>1
  <2> QED  BY <1>1, <2>1, <2>2, <2>3, NilIsNoItem
<1>6. Len(s) = Len(t)  BY <1>1, <1>4, <1>5
<1> QED  BY <1>3, <1>6, SeqEqual DEF Path

-----------------------------------------------------------------------------
(* Bodies                                                                  *)

\* What Body asks of the function that it reads.
Reads(p, f) ==
    f = [i \in Items \cup {max_idx} |->
            IF i = max_idx THEN <<>> ELSE <<p.items[i].data>> \o f[NextOf(p, i)]]

\* There is such a function, and its values are the data of the paths.
LEMMA ReadsPath ==
  ASSUME NEW p, WellFormed(p)
  PROVE  /\ \E f : Reads(p, f)
         /\ \A f : Reads(p, f) => \A i \in Items : \A s : Path(p, i, s) => f[i] = DataOf(p, s)
<1>1. PICK own, rank : \E B \in Nat : Linked(p, own, rank, B)  BY DEF WellFormed
<1>2. PICK B \in Nat : Linked(p, own, rank, B)  BY <1>1
<1>3. p \in PoolType  BY DEF WellFormed
<1> DEFINE P(i) == CHOOSE s : Path(p, i, s)
<1>4. \A i \in Items : Path(p, i, P(i))  BY <1>2, <1>3, PathExists
<1>5. \A i \in Items : \A s : Path(p, i, s) => s = P(i)  BY <1>4, PathUnique
<1>6. \A i \in Items : /\ NextOf(p, i) = max_idx => DataOf(p, P(i)) = <<p.items[i].data>>
                       /\ NextOf(p, i) # max_idx =>
                              DataOf(p, P(i)) = <<p.items[i].data>> \o DataOf(p, P(NextOf(p, i)))
  <2> SUFFICES ASSUME NEW i \in Items
               PROVE  /\ NextOf(p, i) = max_idx => DataOf(p, P(i)) = <<p.items[i].data>>
                      /\ NextOf(p, i) # max_idx =>
                             DataOf(p, P(i)) = <<p.items[i].data>> \o DataOf(p, P(NextOf(p, i)))
    OBVIOUS
  <2> HIDE DEF P
  <2>1. CASE NextOf(p, i) = max_idx
    <3>1. Path(p, i, <<i>>) /\ DataOf(p, <<i>>) = <<p.items[i].data>>  BY <1>3, <2>1, PathStep
    <3>2. <<i>> = P(i)  BY <1>5, <3>1
    <3> QED  BY <2>1, <3>1, <3>2
  <2>2. CASE NextOf(p, i) # max_idx
    <3>1. NextOf(p, i) \in Items  BY <1>3, <2>2, PointerTypes
    <3>2. Path(p, NextOf(p, i), P(NextOf(p, i)))  BY <1>4, <3>1
    <3>3. /\ Path(p, i, <<i>> \o P(NextOf(p, i)))
          /\ DataOf(p, <<i>> \o P(NextOf(p, i))) = <<p.items[i].data>> \o DataOf(p, P(NextOf(p, i)))
      BY <1>3, <2>2, <3>2, PathStep
    <3>4. <<i>> \o P(NextOf(p, i)) = P(i)  BY <1>5, <3>3
    <3> QED  BY <2>2, <3>3, <3>4
  <2> QED  BY <2>1, <2>2
<1> HIDE DEF P
<1>7. \A d : <<d>> \o <<>> = <<d>>  OBVIOUS
<1>8. \E f : Reads(p, f)
  <2> DEFINE f == [i \in Items \cup {max_idx} |-> IF i = max_idx THEN <<>> ELSE DataOf(p, P(i))]
  <2>1. ASSUME NEW i \in Items \cup {max_idx}
        PROVE  f[i] = IF i = max_idx THEN <<>> ELSE <<p.items[i].data>> \o f[NextOf(p, i)]
    <3>1. CASE i = max_idx  BY <3>1
    <3>2. CASE i # max_idx
      <4>1. i \in Items /\ NextOf(p, i) \in Items \cup {max_idx}  BY <1>3, <3>2, PointerTypes
      <4>2. f[i] = DataOf(p, P(i))  BY <3>2
      <4>3. CASE NextOf(p, i) = max_idx
        <5>1. f[NextOf(p, i)] = <<>>  BY <4>3
        <5> QED  BY <1>6, <1>7, <3>2, <4>1, <4>2, <4>3, <5>1
      <4>4. CASE NextOf(p, i) # max_idx
        <5>1. f[NextOf(p, i)] = DataOf(p, P(NextOf(p, i)))  BY <4>1, <4>4
        <5> QED  BY <1>6, <3>2, <4>1, <4>2, <4>4, <5>1
      <4> QED  BY <4>3, <4>4
    <3> QED  BY <3>1, <3>2
  <2>2. f = [i \in Items \cup {max_idx} |->
                 IF i = max_idx THEN <<>> ELSE <<p.items[i].data>> \o f[NextOf(p, i)]]
    <3>1. f = [i \in Items \cup {max_idx} |-> f[i]]  OBVIOUS
    <3> HIDE DEF f
    <3> QED  BY <2>1, <3>1
  <2>3. Reads(p, f)  BY <2>2 DEF Reads
  <2> QED  BY <2>3
<1>9. ASSUME NEW f, Reads(p, f) PROVE \A i \in Items : f[i] = DataOf(p, P(i))
  <2>1. /\ f[max_idx] = <<>>
        /\ \A i \in Items : f[i] = <<p.items[i].data>> \o f[NextOf(p, i)]
    <3>1. \A i \in Items \cup {max_idx} :
              f[i] = IF i = max_idx THEN <<>> ELSE <<p.items[i].data>> \o f[NextOf(p, i)]
      BY <1>9, Zenon DEF Reads
    <3> QED  BY <3>1, NilIsNoItem
  <2> DEFINE Bad == {i \in Items : f[i] # DataOf(p, P(i))}
             M == {rank[i] : i \in Bad}
  <2>2. SUFFICES ASSUME Bad # {} PROVE FALSE  OBVIOUS
  <2>3. M \in SUBSET (0 .. B) /\ M # {}  BY <1>2, <2>2 DEF Linked
  <2>4. PICK m \in M : \A n \in M : n <= m  BY <2>3, MaxIsGreatest
  <2>5. PICK i \in Bad : rank[i] = m  BY <2>4
  <2>6. CASE NextOf(p, i) = max_idx
    <3>1. f[i] = <<p.items[i].data>>  BY <1>7, <2>1, <2>5, <2>6
    <3> QED  BY <1>6, <2>5, <2>6, <3>1
  <2>7. CASE NextOf(p, i) # max_idx
    <3> DEFINE n == NextOf(p, i)
    <3>1. n \in Items /\ rank[i] < rank[n]  BY <1>2, <1>3, <2>5, <2>7, PointerTypes DEF Linked
    <3>2. n \notin Bad
      <4>1. SUFFICES ASSUME n \in Bad PROVE FALSE  OBVIOUS
      <4>2. rank[n] \in M /\ rank[i] \in M  BY <2>5, <4>1
      <4>3. rank[n] <= m  BY <2>4, <4>2
      <4> QED  BY <2>3, <2>5, <3>1, <4>2, <4>3
    <3>3. f[n] = DataOf(p, P(n))  BY <3>1, <3>2
    <3>4. f[i] = <<p.items[i].data>> \o DataOf(p, P(n))  BY <2>1, <2>5, <3>3
    <3> QED  BY <1>6, <2>5, <2>7, <3>4
  <2> QED  BY <2>6, <2>7
<1>10. \A f : Reads(p, f) => \A i \in Items : \A s : Path(p, i, s) => f[i] = DataOf(p, s)
  BY <1>5, <1>9
<1> QED  BY <1>8, <1>10

\* Body is the data of the path of the tree, whose items are in its chain.
LEMMA BodyIsPath ==
  ASSUME NEW p, WellFormed(p), NEW t \in Used(p)
  PROVE  \E s : /\ Path(p, p.trees[t].head, s)
                /\ Body(p, t) = DataOf(p, s)
                /\ \A j \in 1 .. Len(s) : s[j] \in Chain(p, p.trees[t].head)
<1> DEFINE h == p.trees[t].head
<1>1. PICK own, rank : \E B \in Nat : Linked(p, own, rank, B)  BY DEF WellFormed
<1>2. PICK B \in Nat : Linked(p, own, rank, B)  BY <1>1
<1>3. p \in PoolType /\ t \in Owners /\ h \in Items /\ h # max_idx /\ HeadOf(p, t) = h
  BY SizesAssumption DEF WellFormed, Used, Owners, Trees, HeadOf, PoolType, Tree
<1>4. own[h] = t  BY <1>2, <1>3 DEF Linked
<1>5. PICK s : Path(p, h, s) /\ \A j \in 1 .. Len(s) : own[s[j]] = own[h]
  BY <1>2, <1>3, PathExists
<1>6. \A j \in 1 .. Len(s) : s[j] \in Chain(p, h)
  <2>1. Chain(p, h) = {i \in Items : own[i] = t}  BY <1>2, <1>3, ChainIsOwned
  <2> QED  BY <1>4, <1>5, <2>1, PathLength
<1> DEFINE f == CHOOSE f : Reads(p, f)
<1>7. Reads(p, f)  BY ReadsPath
<1>8. Body(p, t) = f[h]  BY DEF Body, Reads
<1>9. f[h] = DataOf(p, s)  BY <1>3, <1>5, <1>7, ReadsPath
<1> QED  BY <1>5, <1>6, <1>8, <1>9

\* A body consists of blocks, at least one.
LEMMA BodyType ==
  ASSUME NEW p, WellFormed(p), NEW t \in Used(p)
  PROVE  /\ Body(p, t) \in Seq(Blocks) /\ Len(Body(p, t)) \in Nat \ {0}
         /\ \A s : Path(p, p.trees[t].head, s) => Len(Body(p, t)) = Len(s)
<1>1. PICK s : Path(p, p.trees[t].head, s) /\ Body(p, t) = DataOf(p, s)  BY BodyIsPath
<1>2. Len(s) \in Nat \ {0} /\ \A j \in 1 .. Len(s) : p.items[s[j]].data \in Blocks
  BY <1>1, PathLength DEF WellFormed, PoolType, Item
<1>3. DataOf(p, s) \in [1 .. Len(s) -> Blocks]  BY <1>2 DEF DataOf
<1>4. DataOf(p, s) \in Seq(Blocks)  BY <1>2, <1>3, SeqDef
<1>5. Len(DataOf(p, s)) = Len(s)
  <2>1. DOMAIN DataOf(p, s) = 1 .. Len(s)  BY <1>3
  <2>2. DOMAIN DataOf(p, s) = 1 .. Len(DataOf(p, s)) /\ Len(DataOf(p, s)) \in Nat
    BY <1>4, LenProperties
  <2> QED  BY <1>2, <2>1, <2>2
<1> QED  BY <1>1, <1>2, <1>4, <1>5, PathUnique

\* A tree whose head and items stay, keeps its body.
LEMMA SameBody ==
  ASSUME NEW p, NEW q, WellFormed(p), WellFormed(q), NEW t \in Used(p),
         q.trees[t].head = p.trees[t].head,
         \A i \in Chain(p, p.trees[t].head) : q.items[i] = p.items[i]
  PROVE  t \in Used(q) /\ Body(q, t) = Body(p, t)
<1> DEFINE h == p.trees[t].head
<1>1. t \in Used(q)  BY DEF Used
<1>2. PICK s : /\ Path(p, h, s) /\ Body(p, t) = DataOf(p, s)
               /\ \A j \in 1 .. Len(s) : s[j] \in Chain(p, h)
  BY BodyIsPath
<1>3. Len(s) \in Nat \ {0}  BY <1>2, PathLength
<1>4. \A j \in 1 .. Len(s) : q.items[s[j]] = p.items[s[j]]  BY <1>2
<1>5. \A j \in 1 .. Len(s) : NextOf(q, s[j]) = NextOf(p, s[j])  BY <1>4 DEF NextOf
<1>6. Path(q, h, s)
  <2>1. \A j \in 1 .. Len(s) - 1 : j \in 1 .. Len(s)  BY <1>3
  <2>2. Len(s) \in 1 .. Len(s)  BY <1>3
  <2> QED  BY <1>2, <1>5, <2>1, <2>2 DEF Path
<1>7. DataOf(q, s) = DataOf(p, s)  BY <1>4 DEF DataOf
<1>8. PICK r : Path(q, h, r) /\ Body(q, t) = DataOf(q, r)  BY <1>1, BodyIsPath
<1>9. r = s  BY <1>6, <1>8, PathUnique
<1> QED  BY <1>1, <1>2, <1>7, <1>8, <1>9

\* The chain of a tree that is in use, and what is not in it.
LEMMA ChainApart ==
  ASSUME NEW p, WellFormed(p), NEW t \in Used(p), NEW i \in Chain(p, p.trees[t].head)
  PROVE  /\ i \in Items /\ i # p.free
         /\ \A u \in Used(p) \ {t} : i # LastOf(p, p.trees[u].head)
<1>1. PICK own, rank : \E B \in Nat : Linked(p, own, rank, B)  BY DEF WellFormed
<1>2. PICK B \in Nat : Linked(p, own, rank, B)  BY <1>1
<1>3. /\ p \in PoolType
      /\ \A u \in Used(p) : u \in Owners /\ u # 0 /\ HeadOf(p, u) = p.trees[u].head
                            /\ HeadOf(p, u) # max_idx
      /\ 0 \in Owners /\ HeadOf(p, 0) = p.free
  BY SizesAssumption DEF WellFormed, Used, Owners, Trees, HeadOf
<1>4. i \in Items /\ own[i] = t  BY <1>2, <1>3, ChainIsOwned
<1>5. i # p.free  BY <1>2, <1>3, <1>4, NilIsNoItem DEF Linked
<1>6. ASSUME NEW u \in Used(p) \ {t} PROVE i # LastOf(p, p.trees[u].head)
  <2>1. own[LastOf(p, p.trees[u].head)] = u  BY <1>2, <1>3, LastIsTail
  <2> QED  BY <2>1, <1>4
<1> QED  BY <1>4, <1>5, <1>6

-----------------------------------------------------------------------------
(* What the private functions do to bodies                                 *)

\* remove(Tree &) of other trees.
LEMMA ReleaseBodies ==
  ASSUME NEW p, WellFormed(p), NEW R \in SUBSET Used(p)
  PROVE  \A t \in Used(p) \ R : /\ t \in Used(Release(p, R))
                                 /\ Release(p, R).trees[t] = p.trees[t]
                                 /\ Body(Release(p, R), t) = Body(p, t)
<1> SUFFICES ASSUME NEW t \in Used(p) \ R
             PROVE  /\ t \in Used(Release(p, R))
                    /\ Release(p, R).trees[t] = p.trees[t]
                    /\ Body(Release(p, R), t) = Body(p, t)
  OBVIOUS
<1> DEFINE q == Release(p, R)
<1>1. /\ WellFormed(q)
      /\ q.trees = [u \in Trees |-> IF u \in R THEN [p.trees[u] EXCEPT !.head = max_idx] ELSE p.trees[u]]
      /\ \A i \in Chain(p, p.trees[t].head) : q.items[i] = p.items[i]
  BY ReleaseWellFormed
<1> HIDE DEF q
<1>2. t \in Trees  BY DEF Used
<1>3. q.trees[t] = p.trees[t]  BY <1>1, <1>2
<1>4. t \in Used(q) /\ Body(q, t) = Body(p, t)  BY <1>1, <1>3, SameBody
<1> QED  BY <1>3, <1>4 DEF q

\* timeout(): of the trees that are left only the countdown changes.
LEMMA TimeoutBodies ==
  ASSUME NEW p, Good(p)
  PROVE  \A t \in Used(p) \ Expired(p) :
             /\ t \in Used(TimeoutAll(p))
             /\ TimeoutAll(p).trees[t].key = p.trees[t].key
             /\ TimeoutAll(p).trees[t].dlc = p.trees[t].dlc
             /\ TimeoutAll(p).trees[t].frm = p.trees[t].frm
             /\ Body(TimeoutAll(p), t) = Body(p, t)
<1> SUFFICES ASSUME NEW t \in Used(p) \ Expired(p)
             PROVE  /\ t \in Used(TimeoutAll(p))
                    /\ TimeoutAll(p).trees[t].key = p.trees[t].key
                    /\ TimeoutAll(p).trees[t].dlc = p.trees[t].dlc
                    /\ TimeoutAll(p).trees[t].frm = p.trees[t].frm
                    /\ Body(TimeoutAll(p), t) = Body(p, t)
  OBVIOUS
<1> DEFINE q == Release(p, Expired(p))
           r == TimeoutAll(p)
<1>1. WellFormed(p) /\ WellFormed(r)  BY TimeoutGood DEF Good
<1>2. Expired(p) \in SUBSET Used(p)  BY DEF Expired, Partial
<1>3. WellFormed(q)  BY <1>1, <1>2, ReleaseWellFormed
<1>4. t \in Used(q) /\ q.trees[t] = p.trees[t] /\ Body(q, t) = Body(p, t)
  BY <1>1, <1>2, ReleaseBodies
<1>5. r = [q EXCEPT !.trees = [u \in Trees |-> IF u \in Partial(q) THEN [q.trees[u] EXCEPT !.to = @ - 1]
                                                ELSE q.trees[u]]]
  BY DEF TimeoutAll
<1> HIDE DEF q, r
<1>6. q \in PoolType /\ t \in Trees  BY <1>3, <1>4 DEF WellFormed, Used
<1>7. r.items = q.items /\ r.trees[t] = IF t \in Partial(q) THEN [q.trees[t] EXCEPT !.to = @ - 1] ELSE q.trees[t]
  BY <1>5, <1>6 DEF PoolType
<1>8. /\ r.trees[t].key = q.trees[t].key /\ r.trees[t].dlc = q.trees[t].dlc
      /\ r.trees[t].frm = q.trees[t].frm /\ r.trees[t].head = q.trees[t].head
  BY <1>6, <1>7 DEF PoolType, Tree
<1>9. t \in Used(r) /\ Body(r, t) = Body(q, t)
  <2>1. \A i \in Chain(q, q.trees[t].head) : r.items[i] = q.items[i]  BY <1>7
  <2> QED  BY <1>1, <1>3, <1>4, <1>8, <2>1, SameBody
<1> QED  BY <1>4, <1>8, <1>9 DEF r

\* push_new.
LEMMA BeginBodies ==
  ASSUME NEW p, Good(p), p.free # max_idx, NEW t \in Unused(p),
         NEW k \in Keys, Working(p, k) = {},
         NEW d \in Blocks, NEW last \in 0 .. 8 \cup {ZeroLength}
  PROVE  /\ t \in Used(Begin(p, t, k, d, last)) /\ Body(Begin(p, t, k, d, last), t) = <<d>>
         /\ Begin(p, t, k, d, last).trees[t].key = k
         /\ Begin(p, t, k, d, last).trees[t].dlc = last
         /\ last = 0 => Begin(p, t, k, d, last).trees[t].frm = 0
         /\ Used(Begin(p, t, k, d, last)) = Used(p) \cup {t}
         /\ \A u \in Used(p) : /\ Begin(p, t, k, d, last).trees[u] = p.trees[u]
                                /\ Body(Begin(p, t, k, d, last), u) = Body(p, u)
<1> DEFINE q == Begin(p, t, k, d, last)
           tree == [key |-> k, frm |-> IF last = 0 THEN 0 ELSE frm_single,
                    head |-> p.free, dlc |-> last, to |-> Timeout]
<1>1. /\ WellFormed(p) /\ p \in PoolType /\ p.free \in Items /\ t \in Trees /\ t \notin Used(p)
  BY DEF Good, WellFormed, PoolType, Unused
<1>2. WellFormed(q)  BY BeginGood DEF Good
<1>3. /\ q.trees = [p.trees EXCEPT ![t] = tree]
      /\ q.items = [p.items EXCEPT ![p.free] = [next |-> max_idx, data |-> d]]
  BY DEF Begin, Take
<1> HIDE DEF q
<1>4. q.trees[t] = tree /\ \A u \in Trees \ {t} : q.trees[u] = p.trees[u]
  BY <1>1, <1>3 DEF PoolType
<1>5. q.items[p.free] = [next |-> max_idx, data |-> d] /\ \A i \in Items \ {p.free} : q.items[i] = p.items[i]
  BY <1>1, <1>3 DEF PoolType
<1>6. Used(q) = Used(p) \cup {t}  BY <1>1, <1>4 DEF Used
<1>7. Body(q, t) = <<d>>
  <2>1. NextOf(q, p.free) = max_idx /\ q.items[p.free].data = d  BY <1>5 DEF NextOf
  <2>2. Path(q, p.free, <<p.free>>) /\ DataOf(q, <<p.free>>) = <<d>>
    BY <1>1, <1>2, <2>1, PathStep DEF WellFormed
  <2>3. PICK s : Path(q, p.free, s) /\ Body(q, t) = DataOf(q, s)  BY <1>2, <1>4, <1>6, BodyIsPath
  <2> QED  BY <2>2, <2>3, PathUnique
<1>8. ASSUME NEW u \in Used(p) PROVE q.trees[u] = p.trees[u] /\ Body(q, u) = Body(p, u)
  <2>1. u \in Trees \ {t}  BY <1>1 DEF Used
  <2>2. q.trees[u] = p.trees[u]  BY <1>4, <2>1
  <2>3. \A i \in Chain(p, p.trees[u].head) : q.items[i] = p.items[i]  BY <1>1, <1>5, ChainApart
  <2> QED  BY <1>1, <1>2, <2>2, <2>3, SameBody
<1> QED  BY <1>4, <1>6, <1>7, <1>8 DEF q

\* Tree t of p has one block more in q, and the other trees are the same.
Longer(p, q, t, d, last) ==
    /\ Body(q, t) = Append(Body(p, t), d)
    /\ q.trees[t].key = p.trees[t].key /\ q.trees[t].dlc = last
    /\ last = 0 => q.trees[t].frm = SeqAfter(p.trees[t].frm)
    /\ Used(q) = Used(p)
    /\ \A u \in Used(p) \ {t} : q.trees[u] = p.trees[u] /\ Body(q, u) = Body(p, u)

\* push_next.
LEMMA ExtendBodies ==
  ASSUME NEW p, Good(p), p.free # max_idx, NEW t \in Partial(p),
         NEW d \in Blocks, NEW last \in 0 .. 8
  PROVE  Longer(p, Extend(p, t, d, last), t, d, last)
<1> DEFINE q == Extend(p, t, d, last)
           h == p.trees[t].head
           frm == p.trees[t].frm
           f == p.free
           tree == [p.trees[t] EXCEPT !.to = Timeout, !.dlc = last,
                                      !.frm = IF last = 0 THEN SeqAfter(frm) ELSE frm]
           tail == LastOf(p, h)
<1>1. /\ WellFormed(p) /\ p \in PoolType /\ f \in Items /\ t \in Trees /\ t \in Used(p)
      /\ h \in Items /\ h # max_idx
  BY DEF Good, WellFormed, PoolType, Partial, Used, Tree
<1>2. WellFormed(q)  BY ExtendGood DEF Good
<1>3. /\ q.trees = [p.trees EXCEPT ![t] = tree]
      /\ q.items = [[p.items EXCEPT ![tail].next = f] EXCEPT ![f] = [next |-> max_idx, data |-> d]]
  BY DEF Extend, Take
<1> HIDE DEF q
<1>4. p.trees[t] \in Tree  BY <1>1 DEF PoolType
<1>5. /\ q.trees[t].key = p.trees[t].key /\ q.trees[t].head = h /\ q.trees[t].dlc = last
      /\ q.trees[t].frm = IF last = 0 THEN SeqAfter(frm) ELSE frm
      /\ \A u \in Trees \ {t} : q.trees[u] = p.trees[u]
  BY <1>1, <1>3, <1>4 DEF PoolType, Tree
<1>6. Used(q) = Used(p)  BY <1>1, <1>5 DEF Used
<1>7. PICK s : /\ Path(p, h, s) /\ Body(p, t) = DataOf(p, s)
               /\ \A j \in 1 .. Len(s) : s[j] \in Chain(p, h)
  BY <1>1, BodyIsPath
<1>8. Len(s) \in Nat \ {0} /\ s \in Seq(Items) /\ \A j \in 1 .. Len(s) : s[j] \in Items /\ s[j] # f
  BY <1>1, <1>7, PathLength, ChainApart DEF Path
<1> DEFINE n == Len(s)
<1>9. tail = s[n] /\ tail \in Items
  <2>1. PICK own, rank : \E B \in Nat : Linked(p, own, rank, B)  BY <1>1 DEF WellFormed
  <2>2. PICK B \in Nat : Linked(p, own, rank, B)  BY <2>1
  <2>3. t \in Owners /\ HeadOf(p, t) = h  BY <1>1, SizesAssumption DEF Owners, Trees, HeadOf
  <2>4. tail \in Items /\ own[tail] = t /\ NextOf(p, tail) = max_idx
    BY <1>1, <2>2, <2>3, LastIsTail
  <2>5. s[n] \in Chain(p, h) /\ NextOf(p, s[n]) = max_idx  BY <1>7, <1>8 DEF Path
  <2>6. own[s[n]] = t  BY <1>1, <2>2, <2>3, <2>5, ChainIsOwned
  <2>7. s[n] \in Items  BY <1>8
  <2> QED  BY <2>2, <2>4, <2>5, <2>6, <2>7 DEF Linked
<1>10. /\ q.items[f] = [next |-> max_idx, data |-> d]
       /\ q.items[tail].next = f /\ q.items[tail].data = p.items[tail].data
       /\ \A i \in Items \ {f, tail} : q.items[i] = p.items[i]
  <2>1. tail # f  BY <1>8, <1>9
  <2> QED  BY <1>1, <1>3, <1>9, <2>1 DEF PoolType, Item
<1> DEFINE r == Append(s, f)
<1>11. /\ r \in Seq(Items) /\ Len(r) = n + 1 /\ r[n + 1] = f
       /\ \A j \in 1 .. n : r[j] = s[j]
  BY <1>1, <1>8
<1> HIDE DEF r, tail
<1>12. \A j \in 1 .. n - 1 : s[j] # tail
  <2>1. \A j \in 1 .. n - 1 : NextOf(p, s[j]) = s[j + 1] /\ s[j + 1] \in Items  BY <1>7, <1>8 DEF Path
  <2>2. NextOf(p, tail) = max_idx  BY <1>7, <1>9 DEF Path
  <2> QED  BY <2>1, <2>2, NilIsNoItem
<1>13. Path(q, h, r)
  <2>1. ASSUME NEW j \in 1 .. Len(r) - 1 PROVE NextOf(q, r[j]) = r[j + 1]
    <3>1. j \in 1 .. n /\ r[j] = s[j]  BY <1>8, <1>11
    <3>2. CASE j = n  BY <1>9, <1>10, <1>11, <3>1, <3>2 DEF NextOf
    <3>3. CASE j # n
      <4>1. j \in 1 .. n - 1 /\ j + 1 \in 1 .. n  BY <1>8, <3>1, <3>3
      <4>2. q.items[s[j]] = p.items[s[j]]  BY <1>8, <1>10, <1>12, <3>1, <4>1
      <4>3. NextOf(p, s[j]) = s[j + 1]  BY <1>7, <4>1 DEF Path
      <4> QED  BY <1>11, <3>1, <4>1, <4>2, <4>3 DEF NextOf
    <3> QED  BY <3>2, <3>3
  <2>2. NextOf(q, r[Len(r)]) = max_idx  BY <1>10, <1>11 DEF NextOf
  <2>3. r # <<>> /\ r[1] = h  BY <1>7, <1>8, <1>11 DEF Path
  <2> QED  BY <1>11, <2>1, <2>2, <2>3 DEF Path
<1>14. Body(q, t) = DataOf(q, r)
  <2>1. PICK x : Path(q, h, x) /\ Body(q, t) = DataOf(q, x)  BY <1>1, <1>2, <1>5, <1>6, BodyIsPath
  <2> QED  BY <1>13, <2>1, PathUnique
<1>15. DataOf(q, r) = Append(DataOf(p, s), d)
  <2> DEFINE a == DataOf(q, r)
             b == DataOf(p, s)
  <2>1. a \in Seq(Blocks) /\ Len(a) = n + 1
    BY <1>1, <1>2, <1>5, <1>6, <1>11, <1>13, <1>14, BodyType
  <2>2. b \in Seq(Blocks) /\ Len(b) = n  BY <1>1, <1>7, BodyType
  <2>3. \A j \in 1 .. n : a[j] = b[j]
    <3> SUFFICES ASSUME NEW j \in 1 .. n PROVE a[j] = b[j]  OBVIOUS
    <3>1. j \in 1 .. Len(r) /\ r[j] = s[j] /\ s[j] \in Items /\ s[j] # f  BY <1>8, <1>11
    <3>2. q.items[s[j]].data = p.items[s[j]].data  BY <1>10, <3>1
    <3> QED  BY <3>1, <3>2 DEF DataOf
  <2>4. a[n + 1] = d
    <3>1. n + 1 \in 1 .. Len(r)  BY <1>8, <1>11
    <3> QED  BY <1>10, <1>11, <3>1 DEF DataOf
  <2> DEFINE c == Append(b, d)
  <2> HIDE DEF a, b
  <2>5. c \in Seq(Blocks) /\ Len(c) = n + 1 /\ c[n + 1] = d /\ \A j \in 1 .. n : c[j] = b[j]
    BY <1>8, <2>2
  <2> HIDE DEF c
  <2>6. \A j \in 1 .. n + 1 : a[j] = c[j]  BY <1>8, <2>3, <2>4, <2>5
  <2>7. a = c  BY <2>1, <2>5, <2>6, SeqEqual
  <2> QED  BY <2>7 DEF a, b, c
<1>16. ASSUME NEW u \in Used(p) \ {t} PROVE q.trees[u] = p.trees[u] /\ Body(q, u) = Body(p, u)
  <2>1. u \in Trees \ {t}  BY DEF Used
  <2>2. q.trees[u] = p.trees[u]  BY <1>5, <2>1
  <2>3. \A i \in Chain(p, p.trees[u].head) : q.items[i] = p.items[i]
    BY <1>1, <1>10, ChainApart DEF tail
  <2> QED  BY <1>1, <1>2, <2>2, <2>3, SameBody
<1>17. Body(q, t) = Append(Body(p, t), d)  BY <1>7, <1>14, <1>15
<1> QED  BY <1>5, <1>6, <1>16, <1>17 DEF q, Longer

-----------------------------------------------------------------------------
(* What the calls leave alone                                              *)

\* Tree t is the same packet in both pools, but for its countdown.
Same(p, q, t) ==
    /\ t \in Used(p) /\ t \in Used(q)
    /\ q.trees[t].key = p.trees[t].key
    /\ q.trees[t].dlc = p.trees[t].dlc
    /\ q.trees[t].frm = p.trees[t].frm
    /\ Body(q, t) = Body(p, t)

\* One call after the other.
LEMMA SameTransitive ==
  ASSUME NEW p, NEW q, NEW r, NEW t, Same(p, q, t), Same(q, r, t)
  PROVE  Same(p, r, t)
BY DEF Same

\* A packet stays partial or finished.
LEMMA SameKind ==
  ASSUME NEW p, NEW q, NEW t, Same(p, q, t)
  PROVE  /\ t \in Partial(p) <=> t \in Partial(q)
         /\ t \in Finished(p) <=> t \in Finished(q)
         /\ \A k : t \in Working(p, k) <=> t \in Working(q, k)
BY DEF Same, Partial, Finished, Working

\* Pool::remove(extid).
LEMMA RemoveSame ==
  ASSUME NEW p, Good(p), NEW k
  PROVE  /\ Used(Remove(p, k)) = Used(p) \ Working(p, k)
         /\ \A t \in Used(p) \ Working(p, k) : Same(p, Remove(p, k), t)
<1> DEFINE R == Working(p, k)
           q == Release(p, R)
<1>1. WellFormed(p) /\ R \in SUBSET Used(p)  BY DEF Good, Working, Partial
<1>2. \A t \in Used(p) \ R : t \in Used(q) /\ q.trees[t] = p.trees[t] /\ Body(q, t) = Body(p, t)
  BY <1>1, ReleaseBodies
<1>3. q.trees = [u \in Trees |-> IF u \in R THEN [p.trees[u] EXCEPT !.head = max_idx] ELSE p.trees[u]]
  BY <1>1, ReleaseWellFormed
<1>4. \A u \in R : q.trees[u].head = max_idx
  BY <1>1, <1>3 DEF WellFormed, PoolType, Tree, Used
<1>5. \A u \in Trees \ Used(p) : q.trees[u].head = max_idx  BY <1>1, <1>3 DEF Used
<1> HIDE DEF q, R
<1>6. Used(q) = Used(p) \ R  BY <1>2, <1>4, <1>5 DEF Used
<1> QED  BY <1>2, <1>6 DEF Same, Remove, q, R

\* Pool::timeout().
LEMMA TimeoutSame ==
  ASSUME NEW p, Good(p)
  PROVE  /\ Used(TimeoutAll(p)) = Used(p) \ Expired(p)
         /\ \A t \in Used(p) \ Expired(p) : Same(p, TimeoutAll(p), t)
<1> DEFINE R == Expired(p)
           q == Release(p, R)
           r == TimeoutAll(p)
<1>1. WellFormed(p) /\ R \in SUBSET Used(p)  BY DEF Good, Expired, Partial
<1>2. \A t \in Used(p) \ R : Same(p, r, t)  BY TimeoutBodies DEF Same
<1>3. /\ WellFormed(q)
      /\ q.trees = [u \in Trees |-> IF u \in R THEN [p.trees[u] EXCEPT !.head = max_idx] ELSE p.trees[u]]
  BY <1>1, ReleaseWellFormed
<1>4. \A u \in R : q.trees[u].head = max_idx
  BY <1>1, <1>3 DEF WellFormed, PoolType, Tree, Used
<1>5. \A u \in Trees \ Used(p) : q.trees[u].head = max_idx  BY <1>1, <1>3 DEF Used
<1>6. r = [q EXCEPT !.trees = [u \in Trees |-> IF u \in Partial(q) THEN [q.trees[u] EXCEPT !.to = @ - 1]
                                                ELSE q.trees[u]]]
  BY DEF TimeoutAll
<1> HIDE DEF q, r, R
<1>7. \A u \in Trees : r.trees[u].head = q.trees[u].head
  <2>1. q \in PoolType  BY <1>3 DEF WellFormed
  <2>2. \A u \in Trees : r.trees[u] = IF u \in Partial(q) THEN [q.trees[u] EXCEPT !.to = @ - 1] ELSE q.trees[u]
    BY <1>6, <2>1 DEF PoolType
  <2> QED  BY <2>1, <2>2 DEF PoolType, Tree
<1>8. Used(r) = Used(p) \ R
  <2>1. \A u \in Used(p) \ R : u \in Used(r)  BY <1>2 DEF Same
  <2>2. \A u \in R : r.trees[u].head = max_idx  BY <1>1, <1>4, <1>7 DEF Used
  <2>3. \A u \in Trees \ Used(p) : r.trees[u].head = max_idx  BY <1>5, <1>7
  <2> QED  BY <2>1, <2>2, <2>3 DEF Used
<1> QED  BY <1>2, <1>8 DEF r, R

\* Both, in this order or the other, as the errors of push make them.
LEMMA GivenUp ==
  ASSUME NEW p, Good(p), NEW k
  PROVE  /\ \A q \in {Remove(TimeoutAll(p), k), TimeoutAll(Remove(p, k))} :
                /\ Good(q) /\ Working(q, k) = {}
                /\ \A t \in Used(q) : Same(p, q, t)
                /\ \A t \in Finished(p) : Same(p, q, t)
                /\ \A t \in Partial(p) \ Expired(p) : p.trees[t].key # k => Same(p, q, t)
<1> DEFINE a == TimeoutAll(p)
           b == Remove(a, k)
           c == Remove(p, k)
           d == TimeoutAll(c)
<1>1. \A x : Partial(x) \in SUBSET Used(x) /\ Finished(x) = Used(x) \ Partial(x)  BY DEF Partial, Finished
<1>2. \A x : Expired(x) \in SUBSET Partial(x) /\ Working(x, k) \in SUBSET Partial(x)
  BY DEF Expired, Working
<1>3. Good(a) /\ Good(c) /\ Working(c, k) = {}  BY TimeoutGood, RemoveGood
<1>4. Good(b) /\ Working(b, k) = {} /\ Good(d)  BY <1>3, TimeoutGood, RemoveGood
<1>5. /\ \A t \in Used(a) : Same(p, a, t)
      /\ \A t \in Finished(p) : t \in Finished(a)
  <2>1. Used(a) = Used(p) \ Expired(p) /\ \A t \in Used(p) \ Expired(p) : Same(p, a, t)
    BY TimeoutSame
  <2> QED  BY <1>1, <1>2, <2>1, SameKind
<1>6. /\ \A t \in Used(b) : Same(a, b, t)
      /\ \A t \in Finished(a) : t \in Finished(b)
  <2>1. Used(b) = Used(a) \ Working(a, k) /\ \A t \in Used(a) \ Working(a, k) : Same(a, b, t)
    BY <1>3, RemoveSame
  <2> QED  BY <1>1, <1>2, <2>1, SameKind
<1>7. /\ \A t \in Used(c) : Same(p, c, t)
      /\ \A t \in Finished(p) : t \in Finished(c)
  <2>1. Used(c) = Used(p) \ Working(p, k) /\ \A t \in Used(p) \ Working(p, k) : Same(p, c, t)
    BY RemoveSame
  <2> QED  BY <1>1, <1>2, <2>1, SameKind
<1>8. /\ \A t \in Used(d) : Same(c, d, t)
      /\ \A t \in Finished(c) : t \in Finished(d)
  <2>1. Used(d) = Used(c) \ Expired(c) /\ \A t \in Used(c) \ Expired(c) : Same(c, d, t)
    BY <1>3, TimeoutSame
  <2> QED  BY <1>1, <1>2, <2>1, SameKind
<1> HIDE DEF a, b, c, d
<1>9. \A t \in Used(b) : Same(p, b, t)
  <2>1. \A t \in Used(b) : t \in Used(a)  BY <1>6 DEF Same
  <2> QED  BY <1>5, <1>6, <2>1, SameTransitive
<1>10. \A t \in Used(d) : Same(p, d, t)
  <2>1. \A t \in Used(d) : t \in Used(c)  BY <1>8 DEF Same
  <2> QED  BY <1>7, <1>8, <2>1, SameTransitive
<1>11. /\ \A t \in Finished(p) : t \in Used(b) /\ t \in Used(d)
  BY <1>1, <1>5, <1>6, <1>7, <1>8
<1>12. Working(d, k) = {}
  <2>1. \A t \in Working(d, k) : t \in Used(d)  BY <1>1, <1>2
  <2>2. \A t \in Working(d, k) : t \in Working(c, k)  BY <1>8, <2>1, SameKind
  <2> QED  BY <1>3, <2>2
<1>13. ASSUME NEW t \in Partial(p) \ Expired(p), p.trees[t].key # k
       PROVE  Same(p, b, t) /\ Same(p, d, t)
  <2>1. t \in Used(p) \ Expired(p) /\ t \notin Working(p, k)  BY <1>1, <1>13 DEF Working
  <2>2. Same(p, a, t) /\ Same(p, c, t)  BY <2>1, TimeoutSame, RemoveSame DEF a, c
  <2>3. t \notin Working(a, k)  BY <2>1, <2>2, SameKind
  <2>4. t \in Used(b)  BY <1>3, <2>2, <2>3, RemoveSame DEF b, Same
  <2>5. c.trees[t].to = p.trees[t].to
    <3>1. Working(p, k) \in SUBSET Partial(p) /\ t \in Trees \ Working(p, k)
      BY <2>1 DEF Working, Used
    <3>2. c.trees[t] = p.trees[t]  BY <3>1, ReleaseGood DEF c, Remove
    <3> QED  BY <3>2
  <2>6. t \notin Expired(c)  BY <1>13, <2>5 DEF Expired
  <2>7. t \in Used(d)  BY <1>3, <2>2, <2>6, TimeoutSame DEF d, Same
  <2> QED  BY <1>9, <1>10, <2>4, <2>7
<1> QED  BY <1>4, <1>9, <1>10, <1>11, <1>12, <1>13 DEF a, b, c, d

-----------------------------------------------------------------------------
(* What the calls do                                                       *)

\* push refuses a frame of k and gives up the packets whose time is over.
Refused(p, q, k) ==
    /\ Working(q, k) = {}
    /\ \A t \in Used(q) : Same(p, q, t)
    /\ \A t \in Finished(p) : Same(p, q, t)
    /\ \A t \in Partial(p) \ Expired(p) : p.trees[t].key # k => Same(p, q, t)

\* push_new: tree t of k has one block; an earlier packet of k in progress is gone.
Begun(p, q, t, k, d, last) ==
    /\ t \in Trees \ Finished(p)
    /\ Body(q, t) = <<d>> /\ q.trees[t].key = k /\ q.trees[t].dlc = last
    /\ last = 0 => q.trees[t].frm = 0
    /\ Used(q) = (Used(p) \ Working(p, k)) \cup {t}
    /\ \A u \in Used(p) \ Working(p, k) : u # t /\ Same(p, q, u)

\* push_next: the tree of k has one block more.
Extended(p, q, t, k, d, last) ==
    /\ Working(p, k) = {t}
    /\ Body(q, t) = Append(Body(p, t), d)
    /\ q.trees[t].key = k /\ q.trees[t].dlc = last
    /\ last = 0 => q.trees[t].frm = SeqAfter(p.trees[t].frm)
    /\ Used(q) = Used(p)
    /\ \A u \in Used(p) \ {t} : Same(p, q, u)

\* A call that fails with a timeout().
LEMMA RefusedCall ==
  ASSUME IInv, NEW k \in Keys, NEW r \in Results, Return(r),
         \/ Become(Remove(TimeoutAll(Pool), k))
         \/ Become(TimeoutAll(Remove(Pool, k)))
  PROVE  IInv' /\ Refused(Pool, Pool', k)
<1> DEFINE p == Pool
<1>1. Good(p)  BY DEF IInv
<1>2. PICK q \in {Remove(TimeoutAll(p), k), TimeoutAll(Remove(p, k))} : Become(q)  OBVIOUS
<1> HIDE DEF p
<1>3. Good(q) /\ Refused(p, q, k)  BY <1>1, <1>2, GivenUp DEF Refused
<1>4. q = Pool'  BY <1>2, <1>3, BecomePool DEF Good, WellFormed
<1> QED  BY <1>3, <1>4 DEF IInv, Return, p

\* A first frame.
LEMMA NewCall ==
  ASSUME IInv, NEW k \in Keys, NEW f \in Frames, NEW d \in Blocks, NEW n \in Dlcs,
         PushNew(k, f, d, n)
  PROVE  /\ IInv'
         /\ \/ rv' = "ErrorTreeOverflow" /\ Refused(Pool, Pool', k)
            \/ /\ rv' \in {"MsgAccepted", "PacketAvailable"}
               /\ \E t : Begun(Pool, Pool', t, k, d,
                              IF f = frm_start THEN 0 ELSE IF n > 0 THEN n ELSE ZeroLength)
<1> DEFINE last == IF f = frm_start THEN 0 ELSE IF n > 0 THEN n ELSE ZeroLength
           p == Pool
           q == Remove(p, k)
           t == Min(Unused(q))
           r == Begin(q, t, k, d, last)
<1>1. \/ Become(TimeoutAll(q)) /\ Return("ErrorTreeOverflow")
      \/ /\ Unused(q) # {} /\ Become(r)
         /\ Return(IF last = 0 THEN "MsgAccepted" ELSE "PacketAvailable")
  BY DEF PushNew
<1>2. CASE Become(TimeoutAll(q)) /\ Return("ErrorTreeOverflow")
  <2>1. IInv' /\ Refused(Pool, Pool', k)  BY <1>2, RefusedCall DEF Results
  <2> QED  BY <1>2, <2>1 DEF Return
<1>3. CASE /\ Unused(q) # {} /\ Become(r)
           /\ Return(IF last = 0 THEN "MsgAccepted" ELSE "PacketAvailable")
  <2>1. Good(p) /\ p.free # max_idx  BY DEF PushNew, Pool, IInv
  <2>2. last \in 0 .. 8 \cup {ZeroLength}  BY DataAssumption
  <2> HIDE DEF p, last
  <2>3. Good(q) /\ q.free # max_idx /\ Working(q, k) = {}  BY <2>1, RemoveGood
  <2>4. /\ Used(q) = Used(p) \ Working(p, k)
        /\ \A u \in Used(p) \ Working(p, k) : Same(p, q, u)
    BY <2>1, RemoveSame
  <2> HIDE DEF q
  <2>5. t \in Unused(q)
    <3>1. Unused(q) \in SUBSET Nat  BY SizesAssumption DEF Unused, Trees
    <3> QED  BY <1>3, <3>1, MinIsLeast
  <2> HIDE DEF t
  <2>6. Good(r)  BY <2>2, <2>3, <2>5, BeginGood
  <2>7. Pool' = r  BY <1>3, <2>6, BecomePool DEF Good, WellFormed
  <2>8. /\ t \in Used(r) /\ Body(r, t) = <<d>> /\ r.trees[t].key = k /\ r.trees[t].dlc = last
        /\ last = 0 => r.trees[t].frm = 0
        /\ Used(r) = Used(q) \cup {t}
        /\ \A u \in Used(q) : r.trees[u] = q.trees[u] /\ Body(r, u) = Body(q, u)
    BY <2>2, <2>3, <2>5, BeginBodies
  <2> HIDE DEF r
  <2>9. \A u \in Used(q) : u # t /\ Same(q, r, u)  BY <2>5, <2>8 DEF Unused, Same
  <2>10. \A u \in Used(p) \ Working(p, k) : u # t /\ Same(p, r, u)
    BY <2>4, <2>9, SameTransitive
  <2>11. t \in Trees \ Finished(p)
    <3>1. Finished(p) \subseteq Used(p) \ Working(p, k)  BY DEF Finished, Working
    <3> QED  BY <2>4, <2>5, <3>1 DEF Unused
  <2>12. Begun(p, r, t, k, d, last)  BY <2>4, <2>8, <2>10, <2>11 DEF Begun
  <2> QED  BY <1>3, <2>6, <2>7, <2>12 DEF IInv, Return, Results, p, last
<1> QED  BY <1>1, <1>2, <1>3

\* A frame that continues a packet.
LEMMA NextCall ==
  ASSUME IInv, NEW k \in Keys, NEW f \in Frames, NEW d \in Blocks, NEW n \in Dlcs,
         PushNext(k, f, d, n)
  PROVE  /\ IInv' /\ rv' \in {"MsgAccepted", "PacketAvailable"}
         /\ \E t : /\ Extended(Pool, Pool', t, k, d, IF f = frm_end THEN n ELSE 0)
                   /\ f # frm_end => f = trees[t].frm
<1> DEFINE p == Pool
           t == Min(Working(p, k))
           last == IF f = frm_end THEN n ELSE 0
           q == Extend(p, t, d, last)
<1>1. Good(p) /\ p.free # max_idx /\ Working(p, k) # {}  BY DEF PushNext, Pool, IInv
<1>2. t \in Working(p, k) /\ t \in Partial(p)  BY <1>1, WorkingTree
<1>3. trees[t].frm \in SeqFrames /\ p.trees = trees  BY <1>1, <1>2 DEF Good, Partial, Used, Pool
<1>4. Become(q) /\ rv' \in {"MsgAccepted", "PacketAvailable"} /\ (f # frm_end => f = trees[t].frm)
  <2>1. frm_end \notin SeqFrames  BY SizesAssumption DEF frm_end, SeqFrames
  <2> QED  BY <1>3, <2>1 DEF PushNext, Return
<1> HIDE DEF p, t
<1>5. last \in 0 .. 8 /\ n \in 0 .. 8  BY DataAssumption
<1>6. Good(q) /\ Longer(p, q, t, d, last)
  <2> HIDE DEF last
  <2> QED  BY <1>1, <1>2, <1>5, ExtendGood, ExtendBodies
<1> HIDE DEF q, last
<1>7. Pool' = q  BY <1>4, <1>6, BecomePool DEF Good, WellFormed
<1>8. Working(p, k) = {t}
  <2>1. \A u \in Working(p, k) : u \in Partial(p) /\ p.trees[u].key = k  BY DEF Working
  <2> QED  BY <1>1, <1>2, <2>1 DEF Good
<1>9. p.trees[t].key = k  BY <1>2 DEF Working
<1>10. Extended(p, q, t, k, d, last)  BY <1>6, <1>8, <1>9 DEF Extended, Longer, Same
<1> QED  BY <1>4, <1>6, <1>7, <1>10 DEF IInv, Results, p, last

\* Every way that push can end.
LEMMA PushCases ==
  ASSUME IInv, NEW k \in Keys, NEW f \in Frames, NEW d \in Blocks, NEW n \in Dlcs,
         Push(k, f, d, n)
  PROVE  /\ IInv'
         /\ \/ /\ \/ rv' = "ErrorSlotsOverflow"
                  \/ rv' = "ErrorTreeOverflow" /\ f \in {frm_start, frm_single}
                  \/ rv' = "ErrorOrphan" /\ f \in SeqFrames \cup {frm_end} /\ Orphan(k, f)
               /\ Refused(Pool, Pool', k)
            \/ /\ rv' \in {"ErrorDLC", "MsgDropped"} /\ Pool' = Pool
               /\ \/ BadLength(f, n)
                  \/ /\ f \in SeqFrames /\ Working(Pool, k) # {}
                     /\ f = SeqBefore(trees[Min(Working(Pool, k))].frm)
            \/ /\ rv' \in {"MsgAccepted", "PacketAvailable"} /\ f \in {frm_start, frm_single}
               /\ \E t : Begun(Pool, Pool', t, k, d,
                              IF f = frm_start THEN 0 ELSE IF n > 0 THEN n ELSE ZeroLength)
            \/ /\ rv' \in {"MsgAccepted", "PacketAvailable"} /\ f \in SeqFrames \cup {frm_end}
               /\ ~BadLength(f, n)
               /\ \E t : /\ Extended(Pool, Pool', t, k, d, IF f = frm_end THEN n ELSE 0)
                         /\ f # frm_end => f = trees[t].frm
<1>1. CASE PushOverflow(k)
  BY <1>1, RefusedCall DEF PushOverflow, Return, Results
<1>2. CASE PushBadLength(f, n) \/ PushRepeated(k, f, n)
  <2>1. Pool' = Pool /\ rv' \in Results  BY <1>2 DEF PushBadLength, PushRepeated, Pool, Return, Results
  <2>2. IInv'  BY <2>1 DEF IInv
  <2> QED  BY <1>2, <2>1, <2>2 DEF PushBadLength, PushRepeated, Return
<1>3. CASE PushNew(k, f, d, n)
  <2>1. f \in {frm_start, frm_single}  BY <1>3 DEF PushNew
  <2> QED  BY <1>3, <2>1, NewCall
<1>4. CASE PushOrphan(k, f, n)
  BY <1>4, RefusedCall DEF PushOrphan, Return, Results
<1>5. CASE PushNext(k, f, d, n)
  <2>1. f \in SeqFrames \cup {frm_end} /\ ~BadLength(f, n)  BY <1>5 DEF PushNext
  <2> QED  BY <1>5, <2>1, NextCall
<1> QED  BY <1>1, <1>2, <1>3, <1>4, <1>5 DEF Push

\* read_packet: the tree that was read is gone.
LEMMA ReadCall ==
  ASSUME IInv, NEW sz, ReadPacket(sz)
  PROVE  \E t \in Finished(Pool) :
             /\ IInv' /\ got' = <<Copy(Pool, t, sz)>>
             /\ Used(Pool)' = Used(Pool) \ {t}
             /\ \A u \in Used(Pool) \ {t} : Same(Pool, Pool', u)
<1> DEFINE p == Pool
           t == Min(Finished(p))
           q == Release(p, {t})
<1>1. Good(p) /\ Finished(p) # {} /\ Become(q) /\ got' = <<Copy(p, t, sz)>> /\ rv' \in Results
  BY DEF ReadPacket, IInv, Results
<1>2. t \in Finished(p)
  <2>1. Finished(p) \in SUBSET Nat  BY SizesAssumption DEF Finished, Used, Trees
  <2> QED  BY <2>1, <1>1, MinIsLeast
<1> HIDE DEF p, t
<1>3. Good(q)  BY <1>1, <1>2, ReadGood
<1>4. WellFormed(p) /\ {t} \in SUBSET Used(p)  BY <1>1, <1>2 DEF Good, Finished
<1>5. \A u \in Used(p) \ {t} : u \in Used(q) /\ q.trees[u] = p.trees[u] /\ Body(q, u) = Body(p, u)
  BY <1>4, ReleaseBodies
<1>6. q.trees = [u \in Trees |-> IF u \in {t} THEN [p.trees[u] EXCEPT !.head = max_idx] ELSE p.trees[u]]
  BY <1>4, ReleaseWellFormed
<1> HIDE DEF q
<1>7. Used(q) = Used(p) \ {t}
  <2>1. p \in PoolType /\ t \in Trees  BY <1>4 DEF WellFormed, Used
  <2>2. q.trees[t].head = max_idx  BY <1>6, <2>1 DEF PoolType, Tree
  <2>3. \A u \in Trees \ {t} : q.trees[u] = p.trees[u]  BY <1>6
  <2> QED  BY <1>5, <2>2, <2>3 DEF Used
<1>8. Pool' = q  BY <1>1, <1>3, BecomePool DEF Good, WellFormed
<1>9. \A u \in Used(p) \ {t} : Same(p, q, u)  BY <1>5 DEF Same
<1>10. Used(Pool)' = Used(q)  BY <1>8 DEF Used
<1> QED  BY <1>1, <1>2, <1>3, <1>7, <1>8, <1>9, <1>10 DEF IInv, p

\* What read_packet(Tree &, void *, size_t) copies of a body of n blocks.
CopyOf(c, body, n, last, sz, full, fits) ==
    /\ full \in 0 .. n - 1 /\ 8 * full + 2 <= sz /\ (full < n - 1 => sz < 8 * full + 10)
    /\ (fits <=> full = n - 1 /\ last \in 1 .. 8 /\ 2 + 8 * full + last <= sz)
    /\ c.size = 2 + 8 * full + (IF fits THEN last ELSE 0)
    /\ c.blocks = SubSeq(body, 1, IF fits THEN n ELSE full)
    /\ \A j \in 1 .. (IF fits THEN n ELSE full) : c.blocks[j] = body[j]

\* The copy of a complete packet.
LEMMA CopyIs ==
  ASSUME NEW p, WellFormed(p), NEW t \in Finished(p), NEW sz \in Nat \ {0, 1}
  PROVE  LET body == Body(p, t)
             last == p.trees[t].dlc
         IN  /\ body \in Seq(Blocks) /\ Len(body) \in Nat \ {0}
             /\ last \in 1 .. 8 \cup {ZeroLength}
             /\ Copy(p, t, sz).key = p.trees[t].key
             /\ \E full \in Nat, fits \in BOOLEAN :
                    CopyOf(Copy(p, t, sz), body, Len(body), last, sz, full, fits)
<1> DEFINE body  == Body(p, t)
           last  == p.trees[t].dlc
           x     == (sz - 2) \div 8
           full  == Min({Len(body) - 1, x})
           fits  == full = Len(body) - 1 /\ last # ZeroLength /\ 2 + 8 * full + last <= sz
           c     == Copy(p, t, sz)
<1>1. t \in Used(p) /\ t \in Trees /\ last # 0  BY DEF Finished, Partial, Used
<1>2. body \in Seq(Blocks) /\ Len(body) \in Nat \ {0}  BY <1>1, BodyType
<1>3. last \in 1 .. 8 \cup {ZeroLength}
  <2>1. p.trees[t] \in Tree  BY <1>1 DEF WellFormed, PoolType
  <2>2. last \in 0 .. 8 \cup {ZeroLength}  BY <2>1 DEF Tree
  <2> QED  BY <1>1, <2>2
<1>4. /\ c.key = p.trees[t].key
      /\ c.blocks = SubSeq(body, 1, IF fits THEN full + 1 ELSE full)
      /\ c.size = IF fits THEN 2 + 8 * full + last ELSE 2 + 8 * full
  BY DEF Copy
<1>5. PICK n \in Nat : n = Len(body) /\ n > 0  BY <1>2
<1>6. x \in Nat /\ 8 * x <= sz - 2 /\ sz - 2 < 8 * x + 8
  <2>1. sz - 2 \in Nat /\ 8 \in Nat \ {0}  OBVIOUS
  <2>2. x \in Nat /\ (sz - 2) % 8 \in 0 .. 7 /\ sz - 2 = 8 * x + ((sz - 2) % 8)
    BY <2>1, Division
  <2> QED  BY <2>2
<1> HIDE DEF x
<1>7. full \in Nat /\ full <= n - 1 /\ full <= x /\ (full = n - 1 \/ full = x)
  <2>1. {n - 1, x} \in SUBSET Nat  BY <1>5, <1>6
  <2> HIDE DEF full
  <2>2. full = Min({n - 1, x})  BY <1>5 DEF full
  <2> QED  BY <2>1, <2>2, MinIsLeast
<1> HIDE DEF full, last, body, c
<1>8. fits \in BOOLEAN /\ (fits <=> full = n - 1 /\ last \in 1 .. 8 /\ 2 + 8 * full + last <= sz)
  BY <1>3, <1>5 DEF ZeroLength
<1> HIDE DEF fits
<1>9. PICK k \in Nat : k = (IF fits THEN n ELSE full) /\ k <= n
  BY <1>5, <1>7
<1>10. c.blocks = SubSeq(body, 1, k)
  <2>1. k = IF fits THEN full + 1 ELSE full  BY <1>5, <1>7, <1>8, <1>9
  <2> QED  BY <1>4, <2>1
<1>11. \A j \in 1 .. k : c.blocks[j] = body[j]
  BY <1>2, <1>5, <1>9, <1>10, SubSeqProperties
<1>12. c.size = 2 + 8 * full + (IF fits THEN last ELSE 0)
  BY <1>3, <1>4, <1>7, <1>8
<1>13. 8 * full + 2 <= sz /\ (full < n - 1 => sz < 8 * full + 10) /\ full \in 0 .. n - 1
  BY <1>5, <1>6, <1>7
<1>14. CopyOf(c, body, n, last, sz, full, fits)
  BY <1>8, <1>9, <1>10, <1>11, <1>12, <1>13 DEF CopyOf
<1> QED  BY <1>2, <1>3, <1>4, <1>5, <1>7, <1>8, <1>14 DEF body, last, c

=============================================================================
