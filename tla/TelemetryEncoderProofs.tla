----------------------- MODULE TelemetryEncoderProofs -----------------------
(***************************************************************************)
(* Proofs about the table of a telemetry encoder, for an array of any size, *)
(* any fields, any dictionary and any order of calls.                       *)
(***************************************************************************)
EXTENDS TelemetryEncoder, NumberLemmas

-----------------------------------------------------------------------------
(* The place of a new field                                                *)

\* The order of the table.
Before(f, g) == Rank(f.fmt) < Rank(g.fmt) \/ (Rank(f.fmt) = Rank(g.fmt) /\ f.uid < g.uid)

TypedSlots == slots \in [Index -> Slot] /\ slots_cnt \in 0 .. slots_size

\* Constants are what the lemmas take them for.
LEMMA Constants ==
  /\ slots_size \in Nat \ {0} /\ Uids \in SUBSET Nat /\ 0 \notin Uids
  /\ Bytes \in Nat \ {0} /\ Words \in Nat \ {0} /\ Values \in SUBSET Nat
BY EncoderAssumption

\* Of two fields of different uids one is before the other.
LEMMA FieldOrder ==
  ASSUME NEW f \in Field
  PROVE  f.uid \in Nat /\ f.fmt \in Formats /\ Rank(f.fmt) \in 0 .. 2
<1>1. f.uid \in Uids \cup {0} /\ f.fmt \in Formats  BY DEF Field
<1>2. f.uid \in Nat
  <2> DEFINE uid == f.uid
  <2>1. uid \in Uids \cup {0}  BY <1>1
  <2> HIDE DEF uid
  <2>2. uid \in Nat  BY <2>1, Constants
  <2> QED  BY <2>2 DEF uid
<1>3. Rank(f.fmt) \in 0 .. 2  BY DEF Rank
<1> QED  BY <1>1, <1>2, <1>3

\* The order is transitive.
LEMMA BeforeTransitive ==
  ASSUME NEW f \in Field, NEW g \in Field, NEW h \in Field, Before(f, g), Before(g, h)
  PROVE  Before(f, h)
<1>1. f.uid \in Nat /\ g.uid \in Nat /\ h.uid \in Nat  BY FieldOrder
<1>2. Rank(f.fmt) \in 0 .. 2 /\ Rank(g.fmt) \in 0 .. 2 /\ Rank(h.fmt) \in 0 .. 2  BY FieldOrder
<1> QED  BY <1>1, <1>2 DEF Before

\* The loops that look for a place stop where they say, and not before.
LEMMA UntilStops ==
  ASSUME TypedSlots, NEW from \in 0 .. slots_cnt, NEW fmts, NEW uid \in Nat
  PROVE  /\ Until(from, fmts, uid) \in from .. slots_cnt
         /\ Until(from, fmts, uid) < slots_cnt =>
                \/ slots[Until(from, fmts, uid)].field.fmt \in fmts
                \/ slots[Until(from, fmts, uid)].field.uid > uid
         /\ \A i \in from .. slots_cnt : i < Until(from, fmts, uid) =>
                slots[i].field.fmt \notin fmts /\ ~(slots[i].field.uid > uid)
<1> DEFINE Stop(i) == \/ i = slots_cnt
                      \/ slots[i].field.fmt \in fmts
                      \/ slots[i].field.uid > uid
           S == {i \in from .. slots_cnt : Stop(i)}
<1>1. Until(from, fmts, uid) = Min(S)  BY DEF Until
<1>2. slots_cnt \in Nat /\ from \in Nat  BY Constants DEF TypedSlots
<1>3. S \in SUBSET Nat /\ slots_cnt \in S  BY <1>2
<1>4. Min(S) \in S /\ \A i \in S : Min(S) <= i
  <2> HIDE DEF S
  <2>1. S # {}  BY <1>3
  <2> QED  BY <1>3, <2>1, MinIsLeast
<1> DEFINE n == Min(S)
<1>5. n \in from .. slots_cnt /\ Stop(n)  BY <1>4
<1>6. \A i \in from .. slots_cnt : Stop(i) => n <= i  BY <1>4
<1> HIDE DEF n, S
<1>7. \A i \in from .. slots_cnt : i < n => ~Stop(i)  BY <1>2, <1>5, <1>6
<1> QED  BY <1>1, <1>2, <1>5, <1>7 DEF n

\* So do the loops that look for a group.
LEMMA GroupStops ==
  ASSUME TypedSlots, NEW fmts
  PROVE  /\ Group(fmts) \in 0 .. slots_cnt
         /\ Group(fmts) < slots_cnt => slots[Group(fmts)].field.fmt \in fmts
         /\ \A i \in 0 .. slots_cnt : i < Group(fmts) => slots[i].field.fmt \notin fmts
<1> DEFINE Stop(i) == i = slots_cnt \/ slots[i].field.fmt \in fmts
           S == {i \in 0 .. slots_cnt : Stop(i)}
<1>1. Group(fmts) = Min(S)  BY DEF Group
<1>2. slots_cnt \in Nat  BY Constants DEF TypedSlots
<1>3. S \in SUBSET Nat /\ slots_cnt \in S  BY <1>2
<1>4. Min(S) \in S /\ \A i \in S : Min(S) <= i
  <2> HIDE DEF S
  <2>1. S # {}  BY <1>3
  <2> QED  BY <1>3, <2>1, MinIsLeast
<1> DEFINE n == Min(S)
<1>5. n \in 0 .. slots_cnt /\ Stop(n)  BY <1>4
<1>6. \A i \in 0 .. slots_cnt : Stop(i) => n <= i  BY <1>4
<1> HIDE DEF n, S
<1>7. \A i \in 0 .. slots_cnt : i < n => ~Stop(i)  BY <1>2, <1>5, <1>6
<1> QED  BY <1>1, <1>2, <1>5, <1>7 DEF n

SortedBefore == \A i, j \in InTable : i < j => Before(slots[i].field, slots[j].field)

\* A place that a loop finds among the fields of rank r separates the table.
LEMMA UntilSplits ==
  ASSUME TypedSlots, SortedBefore, NEW f \in Field, ~Known(f.uid),
         NEW from \in 0 .. slots_cnt, NEW fmts,
         \A fmt \in Formats : fmt \in fmts <=> Rank(fmt) > Rank(f.fmt),
         \A i \in InTable : i < from => Rank(slots[i].field.fmt) < Rank(f.fmt),
         \A i \in InTable : i >= from => Rank(slots[i].field.fmt) >= Rank(f.fmt)
  PROVE  LET n == Until(from, fmts, f.uid)
         IN  /\ n \in 0 .. slots_cnt
             /\ \A i \in InTable : i < n => Before(slots[i].field, f)
             /\ \A i \in InTable : i >= n => Before(f, slots[i].field)
<1> DEFINE n == Until(from, fmts, f.uid)
<1>1. slots_cnt \in Nat  BY Constants DEF TypedSlots
<1>2. \A i \in InTable : i \in Nat /\ slots[i].field \in Field /\ slots[i].field.uid # f.uid
  <2> SUFFICES ASSUME NEW i \in InTable
               PROVE  i \in Nat /\ slots[i].field \in Field /\ slots[i].field.uid # f.uid
    OBVIOUS
  <2>1. i \in Nat /\ i \in Index  BY <1>1, Constants DEF InTable, Index, TypedSlots
  <2>2. slots[i] \in Slot  BY <2>1 DEF TypedSlots
  <2> QED  BY <2>1, <2>2 DEF Slot, Known
<1>3. f.uid \in Nat /\ Rank(f.fmt) \in 0 .. 2  BY FieldOrder
<1>4. /\ n \in from .. slots_cnt
      /\ n < slots_cnt => slots[n].field.fmt \in fmts \/ slots[n].field.uid > f.uid
      /\ \A i \in from .. slots_cnt : i < n =>
             slots[i].field.fmt \notin fmts /\ ~(slots[i].field.uid > f.uid)
  BY <1>3, UntilStops
<1> HIDE DEF n
<1>5. ASSUME NEW i \in InTable, i < n PROVE Before(slots[i].field, f)
  <2>1. /\ slots[i].field.uid \in Nat /\ slots[i].field.uid # f.uid
        /\ slots[i].field.fmt \in Formats /\ Rank(slots[i].field.fmt) \in 0 .. 2
    BY <1>2, FieldOrder
  <2>2. CASE i < from  BY <1>3, <2>1, <2>2 DEF Before
  <2>3. CASE i >= from
    <3>1. i \in from .. slots_cnt  BY <1>1, <1>2, <2>3 DEF InTable
    <3>2. ~(Rank(slots[i].field.fmt) > Rank(f.fmt)) /\ ~(slots[i].field.uid > f.uid)
      BY <1>4, <1>5, <2>1, <3>1
    <3> QED  BY <1>3, <2>1, <2>3, <3>2 DEF Before
  <2> QED  BY <1>1, <1>2, <2>2, <2>3
<1>6. ASSUME n < slots_cnt PROVE n \in InTable /\ Before(f, slots[n].field)
  <2>1. n \in InTable /\ n >= from  BY <1>1, <1>4, <1>6 DEF InTable
  <2>2. /\ slots[n].field.uid \in Nat
        /\ slots[n].field.fmt \in Formats /\ Rank(slots[n].field.fmt) \in 0 .. 2
    BY <1>2, <2>1, FieldOrder
  <2>3. Rank(slots[n].field.fmt) > Rank(f.fmt) \/ slots[n].field.uid > f.uid
    BY <1>4, <1>6, <2>2
  <2>4. Rank(slots[n].field.fmt) >= Rank(f.fmt)  BY <2>1
  <2> QED  BY <1>3, <2>1, <2>2, <2>3, <2>4 DEF Before
<1>7. ASSUME NEW i \in InTable, i >= n PROVE Before(f, slots[i].field)
  <2>1. n \in InTable /\ Before(f, slots[n].field)  BY <1>1, <1>2, <1>4, <1>6, <1>7 DEF InTable
  <2>2. CASE i = n  BY <2>1, <2>2
  <2>3. CASE i # n
    <3>1. n < i  BY <1>1, <1>2, <1>7, <2>1, <2>3
    <3>2. Before(slots[n].field, slots[i].field)  BY <2>1, <3>1 DEF SortedBefore
    <3> QED  BY <1>2, <2>1, <3>2, BeforeTransitive
  <2> QED  BY <2>2, <2>3
<1> QED  BY <1>1, <1>4, <1>5, <1>7 DEF n

\* The first field of a group is behind all of lower rank and before all others.
LEMMA GroupSplits ==
  ASSUME TypedSlots, SortedBefore, NEW r \in 0 .. 2, NEW fmts,
         \A fmt \in Formats : fmt \in fmts <=> Rank(fmt) >= r
  PROVE  LET g == Group(fmts)
         IN  /\ g \in 0 .. slots_cnt
             /\ \A i \in InTable : i < g => Rank(slots[i].field.fmt) < r
             /\ \A i \in InTable : i >= g => Rank(slots[i].field.fmt) >= r
<1> DEFINE g == Group(fmts)
<1>1. slots_cnt \in Nat  BY Constants DEF TypedSlots
<1>2. \A i \in InTable : /\ i \in Nat /\ slots[i].field.fmt \in Formats
                         /\ Rank(slots[i].field.fmt) \in 0 .. 2
  <2> SUFFICES ASSUME NEW i \in InTable
               PROVE /\ i \in Nat /\ slots[i].field.fmt \in Formats
                     /\ Rank(slots[i].field.fmt) \in 0 .. 2
    OBVIOUS
  <2>1. i \in Nat /\ i \in Index  BY <1>1, Constants DEF InTable, Index, TypedSlots
  <2>2. slots[i] \in Slot  BY <2>1 DEF TypedSlots
  <2>3. slots[i].field \in Field  BY <2>2 DEF Slot
  <2> QED  BY <2>1, <2>3, FieldOrder
<1>3. /\ g \in 0 .. slots_cnt
      /\ g < slots_cnt => slots[g].field.fmt \in fmts
      /\ \A i \in 0 .. slots_cnt : i < g => slots[i].field.fmt \notin fmts
  BY GroupStops
<1> HIDE DEF g
<1>4. ASSUME NEW i \in InTable, i < g PROVE Rank(slots[i].field.fmt) < r
  <2>1. slots[i].field.fmt \notin fmts  BY <1>1, <1>3, <1>4 DEF InTable
  <2> QED  BY <1>2, <2>1
<1>5. ASSUME NEW i \in InTable, i >= g PROVE Rank(slots[i].field.fmt) >= r
  <2>1. g \in InTable /\ g < slots_cnt  BY <1>1, <1>2, <1>3, <1>5 DEF InTable
  <2>2. Rank(slots[g].field.fmt) >= r  BY <1>2, <1>3, <2>1
  <2>3. CASE i = g  BY <2>2, <2>3
  <2>4. CASE i # g
    <3>1. Before(slots[g].field, slots[i].field)  BY <1>2, <1>5, <2>1, <2>4 DEF SortedBefore
    <3> QED  BY <1>2, <2>1, <2>2, <3>1 DEF Before
  <2> QED  BY <2>3, <2>4
<1> QED  BY <1>1, <1>3, <1>4, <1>5 DEF g

\* add() finds the place of a field.
LEMMA PlaceSplits ==
  ASSUME TypedSlots, SortedBefore, NEW f \in Field, ~Known(f.uid)
  PROVE  /\ Place(f) \in 0 .. slots_cnt
         /\ \A i \in InTable : i < Place(f) => Before(slots[i].field, f)
         /\ \A i \in InTable : i >= Place(f) => Before(f, slots[i].field)
<1>1. f.fmt \in Formats /\ slots_cnt \in Nat  BY FieldOrder, Constants DEF TypedSlots
<1>2. CASE f.fmt = "bit"
  <2>1. Rank(f.fmt) = 2  BY <1>2 DEF Rank
  <2>2. \A fmt \in Formats : fmt \in {"bit"} <=> Rank(fmt) >= 2  BY DEF Rank, Formats
  <2>3. \A fmt \in Formats : fmt \in {} <=> Rank(fmt) > Rank(f.fmt)  BY <2>1 DEF Rank, Formats
  <2> DEFINE g == Group({"bit"})
  <2>4. Place(f) = Until(g, {}, f.uid)  BY <1>2 DEF Place
  <2>5. /\ g \in 0 .. slots_cnt
        /\ \A i \in InTable : i < g => Rank(slots[i].field.fmt) < 2
        /\ \A i \in InTable : i >= g => Rank(slots[i].field.fmt) >= 2
    BY <2>2, GroupSplits
  <2> HIDE DEF g
  <2> QED  BY <2>1, <2>3, <2>4, <2>5, UntilSplits
<1>3. CASE f.fmt = "u4"
  <2>1. Rank(f.fmt) = 1  BY <1>3 DEF Rank
  <2>2. \A fmt \in Formats : fmt \in {"bit", "u4"} <=> Rank(fmt) >= 1  BY DEF Rank, Formats
  <2>3. \A fmt \in Formats : fmt \in {"bit"} <=> Rank(fmt) > Rank(f.fmt)  BY <2>1 DEF Rank, Formats
  <2> DEFINE g == Group({"bit", "u4"})
  <2>4. Place(f) = Until(g, {"bit"}, f.uid)  BY <1>3 DEF Place
  <2>5. /\ g \in 0 .. slots_cnt
        /\ \A i \in InTable : i < g => Rank(slots[i].field.fmt) < 1
        /\ \A i \in InTable : i >= g => Rank(slots[i].field.fmt) >= 1
    BY <2>2, GroupSplits
  <2> HIDE DEF g
  <2> QED  BY <2>1, <2>3, <2>4, <2>5, UntilSplits
<1>4. CASE ~(f.fmt = "bit") /\ ~(f.fmt = "u4")
  <2>1. Rank(f.fmt) = 0  BY <1>4 DEF Rank
  <2>2. \A fmt \in Formats : fmt \in {"bit", "u4"} <=> Rank(fmt) > Rank(f.fmt)
    BY <2>1 DEF Rank, Formats
  <2>3. \A i \in InTable : i >= 0 /\ Rank(slots[i].field.fmt) >= 0  BY <1>1 DEF InTable, Rank
  <2>4. Place(f) = Until(0, {"bit", "u4"}, f.uid)  BY <1>4 DEF Place
  <2>5. \A i \in InTable : ~(i < 0)  BY <1>1 DEF InTable
  <2> QED  BY <1>1, <2>1, <2>2, <2>3, <2>4, <2>5, UntilSplits
<1> QED  BY <1>2, <1>3, <1>4

-----------------------------------------------------------------------------
(* Slots                                                                   *)

\* A slot keeps its values when it gets another field.
LEMMA FieldSet ==
  ASSUME NEW s \in Slot, NEW f \in Field
  PROVE  /\ [s EXCEPT !.field = f] \in Slot
         /\ [s EXCEPT !.field = f].field = f
         /\ [s EXCEPT !.field = f].value = s.value
BY DEF Slot

\* A slot that is new.
LEMMA SlotNew ==
  ASSUME NEW f \in Field
  PROVE  NewSlot(f) \in Slot
BY Constants DEF NewSlot, Slot, Raws

\* A value that is set leaves the field.
LEMMA DataSet ==
  ASSUME NEW s \in Slot, NEW v \in Values
  PROVE  SetData(s, v) \in Slot /\ SetData(s, v).field = s.field
<1> DEFINE b == s.upd \/ (s.value # v /\ s.field.seq # "scheduled")
<1>1. b \in BOOLEAN  BY DEF Slot
<1>2. SetData(s, v) = [s EXCEPT !.value = v, !.upd = b]  BY Zenon DEF SetData
<1> HIDE DEF b
<1> QED  BY <1>1, <1>2 DEF Slot

\* The table after add() has got field f.
LEMMA SlotAdded ==
  ASSUME TypedSlots, slots_cnt < slots_size, NEW f \in Field, NEW s \in Slot,
         Place(f) \in 0 .. slots_cnt, AddSlot(f, s)
  PROVE  /\ TypedSlots' /\ slots_cnt' = slots_cnt + 1
         /\ slots'[Place(f)].field = f
         /\ \A i \in Index : i < Place(f) \/ i > slots_cnt => slots'[i] = slots[i]
         /\ \A i \in Index : Place(f) < i /\ i <= slots_cnt => slots'[i] = slots[i - 1]
<1> DEFINE n == Place(f)
           t == Inserted(n, f)
           u == [s EXCEPT !.field = f]
<1>1. slots_cnt \in Nat /\ slots_cnt + 1 <= slots_size /\ slots_size \in Nat /\ n \in Index /\ n \in Nat
  BY Constants DEF TypedSlots, Index
<1>2. slots' = [t EXCEPT ![n] = u] /\ slots_cnt' = slots_cnt + 1  BY DEF AddSlot
<1>3. u \in Slot /\ u.field = f  BY FieldSet
<1>4. /\ DOMAIN t = Index
      /\ \A i \in Index : i # n /\ (i < n \/ i > slots_cnt) => t[i] = slots[i]
      /\ \A i \in Index : i # n /\ ~(i < n \/ i > slots_cnt) => t[i] = slots[i - 1]
  BY DEF Inserted
<1> HIDE DEF n, t, u
<1>5. \A i \in Index : /\ i = n => slots'[i] = u
                       /\ i # n => slots'[i] = t[i]
  BY <1>2, <1>4
<1>6. ASSUME NEW i \in Index
      PROVE  /\ i < n \/ i > slots_cnt => slots'[i] = slots[i]
             /\ n < i /\ i <= slots_cnt => slots'[i] = slots[i - 1] /\ i - 1 \in Index
  <2>1. i \in Nat /\ i < slots_size /\ n <= slots_cnt  BY <1>1 DEF Index, n
  <2>2. CASE i < n \/ i > slots_cnt
    <3>1. i # n  BY <1>1, <2>1, <2>2
    <3>2. slots'[i] = slots[i]  BY <1>4, <1>5, <2>2, <3>1
    <3> QED  BY <1>1, <2>1, <2>2, <3>2
  <2>3. CASE n < i /\ i <= slots_cnt
    <3>1. i # n /\ ~(i < n \/ i > slots_cnt)  BY <1>1, <2>1, <2>3
    <3>2. slots'[i] = slots[i - 1]  BY <1>4, <1>5, <3>1
    <3>3. i - 1 \in Index  BY <1>1, <2>1, <2>3 DEF Index
    <3> QED  BY <3>1, <3>2, <3>3
  <2> QED  BY <2>2, <2>3
<1>7. ASSUME NEW i \in Index PROVE slots'[i] \in Slot
  <2>1. i \in Nat  BY <1>1 DEF Index
  <2>2. CASE i = n  BY <1>3, <1>5, <2>2
  <2>3. CASE i < n \/ i > slots_cnt  BY <1>6, <2>3 DEF TypedSlots
  <2>4. CASE n < i /\ i <= slots_cnt  BY <1>6, <2>4 DEF TypedSlots
  <2> QED  BY <1>1, <2>1, <2>2, <2>3, <2>4
<1>8. slots' \in [Index -> Slot]
  <2>1. [t EXCEPT ![n] = u] = [i \in Index |-> [t EXCEPT ![n] = u][i]]  BY <1>4
  <2> QED  BY <1>2, <1>7, <2>1
<1>9. TypedSlots'
  <2>1. slots_cnt' \in 0 .. slots_size  BY <1>1, <1>2
  <2> QED  BY <1>8, <2>1 DEF TypedSlots
<1> QED  BY <1>1, <1>2, <1>3, <1>5, <1>6, <1>9 DEF n

-----------------------------------------------------------------------------
(* What add() keeps of the table                                           *)

\* What is computed from n slots, each of which has a field.
LEMMA UpdCountRight ==
  ASSUME NEW n \in Nat, NEW s,
         \A i, j \in 0 .. n - 1 : i < j /\ s[i].field.fmt = "bit" => s[j].field.fmt = "bit"
  PROVE  /\ UpdCount(s, n) \in 0 .. n
         /\ \A i \in 0 .. n - 1 : i < UpdCount(s, n) <=> s[i].field.fmt # "bit"
<1> DEFINE Stop(i) == i = n \/ s[i].field.fmt = "bit"
           S == {i \in 0 .. n : Stop(i)}
<1>1. UpdCount(s, n) = Min(S)  BY DEF UpdCount
<1>2. S \in SUBSET Nat /\ n \in S  OBVIOUS
<1>3. Min(S) \in S /\ \A i \in S : Min(S) <= i
  <2> HIDE DEF S
  <2>1. S # {}  BY <1>2
  <2> QED  BY <1>2, <2>1, MinIsLeast
<1> DEFINE m == Min(S)
<1>4. m \in 0 .. n /\ (m = n \/ s[m].field.fmt = "bit")  BY <1>3
<1>5. \A i \in 0 .. n - 1 : s[i].field.fmt = "bit" => m <= i  BY <1>3
<1> HIDE DEF m, S
<1>6. \A i \in 0 .. n - 1 : m <= i => s[i].field.fmt = "bit"  BY <1>4
<1> QED  BY <1>1, <1>4, <1>5, <1>6 DEF m

\* A place that is found is one with the uid.
LEMMA XpdrIndexRight ==
  ASSUME NEW n \in Nat, NEW s, NEW d \in DOMAIN Dataset
  PROVE  IF \E i \in 0 .. n - 1 : s[i].field.uid = Dataset[d]
         THEN /\ XpdrIndex(s, n)[d] \in 0 .. n - 1
              /\ s[XpdrIndex(s, n)[d]].field.uid = Dataset[d]
         ELSE XpdrIndex(s, n)[d] = xpdr_slot_idx[d]
<1> DEFINE S == {j \in 0 .. n - 1 : s[j].field.uid = Dataset[d]}
<1>1. XpdrIndex(s, n)[d] = IF S = {} THEN xpdr_slot_idx[d] ELSE Min(S)  BY DEF XpdrIndex
<1>2. CASE S = {}  BY <1>1, <1>2
<1>3. CASE S # {}
  <2>1. Min(S) \in S
    <3>1. S \in SUBSET Nat  OBVIOUS
    <3> HIDE DEF S
    <3> QED  BY <1>3, <3>1, MinIsLeast
  <2>2. XpdrIndex(s, n)[d] \in S  BY <1>1, <1>3, <2>1
  <2> HIDE DEF S
  <2> QED  BY <2>2 DEF S
<1> QED  BY <1>2, <1>3

TypedIndex == xpdr_slot_idx \in [DOMAIN Dataset -> Index \cup {no_slot}]

\* The parts of the invariant that speak of the table.
TableInv == /\ TypedSlots /\ TypedIndex /\ slots_upd_cnt \in 0 .. slots_size
            /\ SortedBefore /\ NoDuplicates /\ Cached

\* A new field keeps the order, the uids apart and what was computed right.
LEMMA AddKeeps ==
  ASSUME TableInv, slots_cnt < slots_size, NEW f \in Field, NEW s \in Slot,
         ~Known(f.uid), AddSlot(f, s)
  PROVE  TableInv'
<1> DEFINE n == Place(f)
<1>1. TypedSlots /\ SortedBefore  BY DEF TableInv
<1>2. /\ n \in 0 .. slots_cnt
      /\ \A i \in InTable : i < n => Before(slots[i].field, f)
      /\ \A i \in InTable : i >= n => Before(f, slots[i].field)
  BY <1>1, PlaceSplits
<1>3. /\ TypedSlots' /\ slots_cnt' = slots_cnt + 1
      /\ slots'[n].field = f
      /\ \A i \in Index : i < n \/ i > slots_cnt => slots'[i] = slots[i]
      /\ \A i \in Index : n < i /\ i <= slots_cnt => slots'[i] = slots[i - 1]
  BY <1>1, <1>2, SlotAdded
<1> HIDE DEF n
<1>4. slots_cnt \in Nat /\ slots_cnt + 1 <= slots_size /\ slots_size \in Nat
  BY <1>1, Constants DEF TypedSlots
<1>5. /\ n \in Nat /\ n <= slots_cnt
      /\ InTable = 0 .. slots_cnt - 1 /\ InTable' = 0 .. slots_cnt
  BY <1>2, <1>3, <1>4 DEF InTable
<1>6. ASSUME NEW i \in InTable'
      PROVE  /\ i \in Nat /\ i \in Index
             /\ i < n => i \in InTable /\ slots'[i] = slots[i]
             /\ i > n => i - 1 \in InTable /\ slots'[i] = slots[i - 1]
  <2>1. i \in Nat /\ i <= slots_cnt /\ i \in Index  BY <1>4, <1>5 DEF Index
  <2> QED  BY <1>3, <1>4, <1>5, <2>1
<1>7. SortedBefore'
  <2> SUFFICES ASSUME NEW i \in InTable', NEW j \in InTable', i < j
               PROVE  Before(slots'[i].field, slots'[j].field)
    BY DEF SortedBefore
  <2>1. CASE j < n  BY <1>1, <1>5, <1>6, <2>1 DEF SortedBefore
  <2>2. CASE j = n
    <3>1. i < n  BY <2>2
    <3> QED  BY <1>2, <1>3, <1>6, <2>2, <3>1
  <2>3. CASE j > n /\ i > n
    <3>1. i - 1 < j - 1  BY <1>6
    <3> QED  BY <1>1, <1>6, <2>3, <3>1 DEF SortedBefore
  <2>4. CASE j > n /\ i = n
    <3>1. j - 1 >= n  BY <1>5, <1>6, <2>4
    <3> QED  BY <1>2, <1>3, <1>6, <2>4, <3>1
  <2>5. CASE j > n /\ i < n
    <3>1. i < j - 1  BY <1>5, <1>6, <2>5
    <3> QED  BY <1>1, <1>6, <2>5, <3>1 DEF SortedBefore
  <2> QED  BY <1>5, <1>6, <2>1, <2>2, <2>3, <2>4, <2>5
<1>8. ASSUME NEW i \in InTable', i # n PROVE slots'[i].field.uid # f.uid
  <2>1. i < n \/ i > n  BY <1>5, <1>6, <1>8
  <2> QED  BY <1>6, <2>1 DEF Known
<1>9. NoDuplicates'
  <2> SUFFICES ASSUME NEW i \in InTable', NEW j \in InTable',
                      slots'[i].field.uid = slots'[j].field.uid
               PROVE  i = j
    BY DEF NoDuplicates
  <2>1. (i = n) <=> (j = n)  BY <1>3, <1>8
  <2> DEFINE old(k) == IF k < n THEN k ELSE k - 1
  <2>2. CASE i # n /\ j # n
    <3>1. /\ old(i) \in InTable /\ slots'[i] = slots[old(i)]
          /\ old(j) \in InTable /\ slots'[j] = slots[old(j)]
      BY <1>5, <1>6, <2>2
    <3>2. old(i) = old(j)
      <4> HIDE DEF old
      <4> QED  BY <3>1 DEF TableInv, NoDuplicates
    <3> QED  BY <1>5, <1>6, <2>2, <3>2
  <2> QED  BY <2>1, <2>2
<1>10. slots_cnt' \in Nat /\ InTable' = 0 .. slots_cnt' - 1  BY <1>3, <1>4 DEF InTable
<1>11. /\ slots_upd_cnt' \in 0 .. slots_cnt'
       /\ \A i \in InTable' : i < slots_upd_cnt' <=> slots'[i].field.fmt # "bit"
  <2>1. slots_upd_cnt' = UpdCount(slots', slots_cnt')  BY DEF AddSlot
  <2>2. ASSUME NEW i \in InTable', NEW j \in InTable', i < j, slots'[i].field.fmt = "bit"
        PROVE  slots'[j].field.fmt = "bit"
    <3>1. Before(slots'[i].field, slots'[j].field)  BY <1>7, <2>2 DEF SortedBefore
    <3> QED  BY <2>2, <3>1 DEF Before, Rank
  <2> QED  BY <1>10, <2>1, <2>2, UpdCountRight
<1>12. xpdr_slot_idx' = XpdrIndex(slots', slots_cnt')  BY DEF AddSlot
<1>13. ASSUME NEW d \in DOMAIN Dataset
       PROVE  IF Known(Dataset[d])'
              THEN xpdr_slot_idx'[d] \in InTable' /\ slots'[xpdr_slot_idx'[d]].field.uid = Dataset[d]
              ELSE xpdr_slot_idx'[d] = no_slot
  <2>1. Known(Dataset[d])' <=> \E i \in 0 .. slots_cnt' - 1 : slots'[i].field.uid = Dataset[d]
    BY <1>10 DEF Known
  <2>2. CASE Known(Dataset[d])'  BY <1>10, <1>12, <2>1, <2>2, XpdrIndexRight
  <2>3. CASE ~Known(Dataset[d])'
    <3>1. xpdr_slot_idx'[d] = xpdr_slot_idx[d]  BY <1>10, <1>12, <2>1, <2>3, XpdrIndexRight
    <3>2. ASSUME NEW i \in InTable PROVE slots[i].field.uid # Dataset[d]
      <4>1. CASE i < n
        <5>1. i \in InTable'  BY <1>4, <1>5
        <5> QED  BY <1>6, <2>3, <4>1, <5>1 DEF Known
      <4>2. CASE i >= n
        <5>1. i + 1 \in InTable' /\ i + 1 > n /\ (i + 1) - 1 = i  BY <1>4, <1>5, <4>2
        <5>2. slots'[i + 1] = slots[i]  BY <1>6, <5>1
        <5> QED  BY <2>3, <5>1, <5>2 DEF Known
      <4> QED  BY <1>4, <1>5, <4>1, <4>2
    <3>3. ~Known(Dataset[d])  BY <3>2 DEF Known
    <3> QED  BY <2>3, <3>1, <3>3 DEF TableInv, Cached
  <2> QED  BY <2>2, <2>3
<1>14. TypedIndex'
  <2>1. xpdr_slot_idx' = [d \in DOMAIN Dataset |-> xpdr_slot_idx'[d]]
    BY <1>12, Zenon DEF XpdrIndex
  <2>2. ASSUME NEW d \in DOMAIN Dataset PROVE xpdr_slot_idx'[d] \in Index \cup {no_slot}
    BY <1>6, <1>13
  <2> QED  BY <2>1, <2>2 DEF TypedIndex
<1>15. hash' = HashOf(slots, slots_cnt)'  BY DEF AddSlot
<1>16. Cached'  BY <1>11, <1>13, <1>15 DEF Cached
<1>17. slots_upd_cnt' \in 0 .. slots_size  BY <1>3, <1>4, <1>11
<1> QED  BY <1>3, <1>7, <1>9, <1>14, <1>16, <1>17 DEF TableInv

\* The table is as it was if its fields are.
LEMMA SameFields ==
  ASSUME TableInv, slots' \in [Index -> Slot],
         UNCHANGED <<slots_cnt, slots_upd_cnt, xpdr_slot_idx, hash>>,
         \A i \in InTable : slots'[i].field = slots[i].field
  PROVE  TableInv'
<1>1. InTable' = InTable  BY DEF InTable
<1>2. TypedSlots' /\ TypedIndex' /\ slots_upd_cnt' \in 0 .. slots_size
  BY DEF TableInv, TypedSlots, TypedIndex
<1>3. SortedBefore' /\ NoDuplicates'  BY <1>1 DEF TableInv, SortedBefore, NoDuplicates
<1>4. \A d \in DOMAIN Dataset : Known(Dataset[d])' <=> Known(Dataset[d])  BY <1>1 DEF Known
<1>5. HashOf(slots', slots_cnt') = HashOf(slots, slots_cnt)  BY DEF HashOf, InTable
<1>6. Cached'  BY <1>1, <1>4, <1>5 DEF TableInv, Cached
<1> QED  BY <1>2, <1>3, <1>6 DEF TableInv

-----------------------------------------------------------------------------
(* The invariant                                                           *)

\* The loop of sync_flush() counts up.
TypedFlush == flush = NoLoop \/ (flush.i \in Nat /\ flush \in [i : Int, pos : Int])

IInv == TableInv /\ TypeOK /\ TypedFlush

\* The calls that leave the table alone keep the rest of the types.
Counters == /\ sync_cnt \in 0 .. slots_size /\ enforced_upd \in Index /\ pseq \in 0 .. 3
            /\ TypedFlush

\* The invariant is that of the table and that of the counters.
LEMMA Parts == IInv <=> TableInv /\ Counters
BY DEF IInv, TypeOK, Counters, TableInv, TypedSlots, TypedIndex

\* The same after a step.
LEMMA PartsNext == (TableInv /\ Counters)' => IInv'
BY DEF IInv, TypeOK, Counters, TableInv, TypedSlots, TypedIndex

\* The table of an encoder that was cleared.
LEMMA Cleared ==
  ASSUME slots' = [i \in Index |-> NewSlot(ZeroField)],
         slots_cnt' = 0, slots_upd_cnt' = 0, hash' = HashOf(slots', 0),
         xpdr_slot_idx' = [d \in DOMAIN Dataset |-> no_slot]
  PROVE  TableInv'
<1>1. ZeroField \in Field  BY DEF ZeroField, Field, Formats, Seqs
<1>2. TypedSlots'  BY <1>1, SlotNew, Constants DEF TypedSlots
<1>3. InTable' = {}  BY DEF InTable
<1>4. \A u : ~Known(u)'  BY <1>3 DEF Known
<1>5. SortedBefore' /\ NoDuplicates' /\ Cached'
  BY <1>3, <1>4 DEF SortedBefore, NoDuplicates, Cached
<1> QED  BY <1>2, <1>5, Constants DEF TableInv, TypedIndex

\* An encoder starts like that.
LEMMA InitInv == Init => IInv
<1> SUFFICES ASSUME Init PROVE IInv  OBVIOUS
<1>1. ZeroField \in Field  BY DEF ZeroField, Field, Formats, Seqs
<1>2. TypedSlots  BY <1>1, SlotNew, Constants DEF TypedSlots, Init
<1>3. InTable = {}  BY DEF InTable, Init
<1>4. \A u : ~Known(u)  BY <1>3 DEF Known
<1>5. SortedBefore /\ NoDuplicates /\ Cached
  BY <1>3, <1>4 DEF SortedBefore, NoDuplicates, Cached, Init
<1>6. TableInv  BY <1>2, <1>5, Constants DEF TableInv, TypedIndex, Init
<1>7. Counters  BY Constants DEF Init, Counters, TypedFlush, Index
<1> QED  BY <1>6, <1>7, Parts

\* What every action can rely on.
LEMMA Facts ==
  ASSUME IInv
  PROVE  /\ slots \in [Index -> Slot] /\ slots_cnt \in Nat /\ slots_cnt <= slots_size
         /\ slots_size \in Nat \ {0} /\ sync_cnt \in Nat
         /\ \A i \in InTable : i \in Index
         /\ \A i \in Index : i \in Nat /\ slots[i] \in Slot /\ slots[i].field \in Field
BY Parts, Constants DEF TableInv, TypedSlots, Counters, InTable, Index, Slot

\* A value that is set leaves the fields alone.
LEMMA SetKeeps ==
  ASSUME IInv, NEW v \in Values, NEW i \in Index, slots' = [slots EXCEPT ![i] = SetData(@, v)],
         UNCHANGED <<slots_cnt, slots_upd_cnt, xpdr_slot_idx, hash>>
  PROVE  TableInv'
<1>1. slots \in [Index -> Slot] /\ slots[i] \in Slot /\ \A j \in InTable : j \in Index  BY Facts
<1>2. SetData(slots[i], v) \in Slot /\ SetData(slots[i], v).field = slots[i].field
  BY <1>1, DataSet
<1> DEFINE new == SetData(slots[i], v)
<1>3. slots' = [slots EXCEPT ![i] = new]  OBVIOUS
<1> HIDE DEF new
<1>4. new \in Slot /\ new.field = slots[i].field  BY <1>2 DEF new
<1>5. slots' \in [Index -> Slot]  BY <1>1, <1>3, <1>4
<1>6. \A j \in InTable : slots'[j].field = slots[j].field  BY <1>1, <1>3, <1>4
<1> QED  BY <1>5, <1>6, Parts, SameFields

\* So does what is written behind the array.
LEMMA BehindKeeps ==
  ASSUME IInv, NEW k, NEW flagged, slots' \in WrittenBehind(k, flagged),
         UNCHANGED <<slots_cnt, slots_upd_cnt, xpdr_slot_idx, hash>>
  PROVE  TableInv'
<1>1. slots \in [Index -> Slot] /\ \A j \in InTable : j \in Index  BY Facts
<1>2. PICK u \in BOOLEAN, v \in Values \cup {0}, p \in Raws : slots' = Overwritten(k, flagged, u, v, p)
  BY DEF WrittenBehind
<1>3. ASSUME NEW i \in Index PROVE slots'[i] \in Slot /\ slots'[i].field = slots[i].field
  <2>1. slots[i] \in Slot  BY <1>1
  <2> DEFINE b == IF i \in flagged THEN u ELSE slots[i].upd
             w == IF i = 0 \/ i \in flagged THEN v ELSE slots[i].value
             q == IF i = k THEN p ELSE slots[i].packed
  <2>2. slots'[i] = [slots[i] EXCEPT !.upd = b, !.value = w, !.packed = q]  BY <1>2, Zenon DEF Overwritten
  <2>3. b \in BOOLEAN /\ w \in Values \cup {0} /\ q \in Raws  BY <2>1 DEF Slot
  <2> HIDE DEF b, w, q
  <2> QED  BY <2>1, <2>2, <2>3 DEF Slot
<1>4. slots' \in [Index -> Slot]
  <2>1. slots' = [i \in Index |-> slots'[i]]  BY <1>2, Zenon DEF Overwritten
  <2> QED  BY <1>3, <2>1
<1> QED  BY <1>1, <1>3, <1>4, Parts, SameFields

\* The actions.
LEMMA AddStep ==
  ASSUME IInv, NEW f \in Fields, Add(f)
  PROVE  TableInv' /\ Counters'
<1>1. TableInv /\ Counters /\ f \in Field  BY Parts, EncoderAssumption
<1>2. Counters'  BY <1>1 DEF Add, Counters, TypedFlush, client
<1>3. CASE slots_cnt < slots_size /\ ~Known(f.uid) /\ AddSlot(f, NewSlot(f))
  BY <1>1, <1>2, <1>3, SlotNew, AddKeeps
<1>4. CASE UNCHANGED table
  BY <1>1, <1>2, <1>4, Facts, SameFields DEF table
<1> QED  BY <1>3, <1>4 DEF Add

LEMMA ClearStep ==
  ASSUME IInv, Clear
  PROVE  TableInv' /\ Counters'
<1>1. Counters /\ sync_cnt' = 0 /\ UNCHANGED <<enforced_upd, flush, pseq>>
  BY Parts, Zenon DEF Clear
<1>2. Counters'  BY <1>1, Constants DEF Counters, TypedFlush
<1> QED  BY <1>2, Cleared DEF Clear

LEMMA UpdateStep ==
  ASSUME IInv, NEW uid, NEW v \in Values, Update(uid, v) \/ UpdatePending(uid, v)
  PROVE  TableInv' /\ Counters'
<1>1. Counters'  BY Parts DEF Update, UpdatePending, Counters, TypedFlush, client
<1>2. PICK i \in Index : slots' = [slots EXCEPT ![i] = SetData(@, v)]
  BY Facts DEF Update, UpdatePending, Pending
<1> QED  BY <1>1, <1>2, SetKeeps DEF Update, UpdatePending

LEMMA UpdateBehindStep ==
  ASSUME IInv, NEW uid, UpdateBehind(uid)
  PROVE  TableInv' /\ Counters'
<1>1. Counters /\ UNCHANGED <<sync_cnt, enforced_upd, flush, pseq>>
  BY Parts, Zenon DEF UpdateBehind
<1>2. Counters'  BY <1>1 DEF Counters, TypedFlush
<1> QED  BY <1>2, BehindKeeps DEF UpdateBehind

LEMMA UpdateNewStep ==
  ASSUME IInv, NEW uid \in DOMAIN Dictionary, NEW v \in Values, UpdateNew(uid, v)
  PROVE  TableInv' /\ Counters'
<1> DEFINE pos == slots_cnt + sync_cnt + 1
           f   == [uid |-> uid, fmt |-> Dictionary[uid].fmt, seq |-> Dictionary[uid].seq]
<1>1. f \in Field
  <2>1. Dictionary[uid] \in [fmt : Formats, seq : Seqs, aux : BOOLEAN] /\ uid \in Uids
    BY EncoderAssumption DEF Uids
  <2> QED  BY <2>1 DEF Field
<1>2. Counters'
  <2>1. sync_cnt + 1 \in 0 .. slots_size  BY Facts DEF UpdateNew
  <2> QED  BY <2>1, Parts DEF UpdateNew, Counters, TypedFlush
<1>3. CASE pos < slots_size /\ slots' = [slots EXCEPT ![pos] = SetData([@ EXCEPT !.field = f], v)]
  <2>1. pos \in Index /\ pos \notin InTable  BY <1>3, Facts DEF Index, InTable
  <2> DEFINE new == SetData([slots[pos] EXCEPT !.field = f], v)
  <2>2. slots' = [slots EXCEPT ![pos] = new]  BY <1>3
  <2>3. new \in Slot
    <3> HIDE DEF f
    <3>1. [slots[pos] EXCEPT !.field = f] \in Slot  BY <1>1, <2>1, Facts, FieldSet
    <3> QED  BY <3>1, DataSet
  <2> HIDE DEF new, pos
  <2>4. slots' \in [Index -> Slot]  BY <2>1, <2>2, <2>3, Facts
  <2>5. \A j \in InTable : slots'[j].field = slots[j].field  BY <2>1, <2>2, Facts
  <2> QED  BY <1>2, <2>4, <2>5, Parts, SameFields DEF UpdateNew
<1>4. CASE slots' \in WrittenBehind(0, {i \in Index : i <= 2})
  BY <1>2, <1>4, BehindKeeps DEF UpdateNew
<1> QED  BY <1>3, <1>4 DEF UpdateNew

LEMMA FlushStep ==
  ASSUME IInv, SyncFlush \/ FlushEnd
  PROVE  TableInv' /\ Counters'
<1>1. TableInv /\ Counters  BY Parts
<1>2. UNCHANGED table  BY DEF SyncFlush, FlushEnd
<1>3. TableInv'  BY <1>1, <1>2, Facts, SameFields DEF table
<1>4. CASE SyncFlush
  <2>1. slots_cnt \in Nat /\ slots_cnt + sync_cnt \in Nat  BY Facts
  <2>2. flush' = [i |-> slots_cnt, pos |-> slots_cnt + sync_cnt]  BY <1>4 DEF SyncFlush
  <2>3. TypedFlush'  BY <2>1, <2>2 DEF TypedFlush
  <2> QED  BY <1>1, <1>3, <1>4, <2>3 DEF SyncFlush, Counters, client
<1>5. CASE FlushEnd
  BY <1>1, <1>3, <1>5, Constants DEF FlushEnd, Counters, TypedFlush
<1> QED  BY <1>4, <1>5

\* A slot that is read is one, even behind the array.
LEMMA SlotRead ==
  ASSUME IInv, NEW i \in Nat, NEW s \in SlotsAt(i)
  PROVE  s \in Slot /\ s.field \in Field
<1>1. CASE i < slots_size
  <2>1. i \in Index /\ s = slots[i]  BY <1>1, Facts DEF SlotsAt, Index
  <2> QED  BY <2>1, Facts
<1>2. CASE ~(i < slots_size)
  <2>1. s \in [field : [uid : Uids \cup {0}, fmt : Formats, seq : {"always"}], upd : BOOLEAN,
                value : Values \cup {0}, packed : Raws]
    BY <1>2, Zenon DEF SlotsAt
  <2>2. s.field \in Field  BY <2>1 DEF Field, Seqs
  <2>3. /\ s = [field |-> s.field, upd |-> s.upd, value |-> s.value, packed |-> s.packed]
        /\ s.upd \in BOOLEAN /\ s.value \in Values \cup {0} /\ s.packed \in Raws
    BY <2>1
  <2> QED  BY <2>2, <2>3 DEF Slot
<1> QED  BY <1>1, <1>2

LEMMA FlushTurnStep ==
  ASSUME IInv, FlushTurn
  PROVE  TableInv' /\ Counters'
<1>1. TableInv /\ Counters  BY Parts
<1>2. flush.i \in Nat /\ flush \in [i : Int, pos : Int]  BY <1>1 DEF FlushTurn, Counters, TypedFlush
<1>3. Counters'
  <2>1. flush' = [flush EXCEPT !.i = @ + 1]  BY DEF FlushTurn
  <2>2. TypedFlush'  BY <1>2, <2>1 DEF TypedFlush
  <2> QED  BY <1>1, <2>2 DEF FlushTurn, Counters, client
<1>4. PICK s \in SlotsAt(flush.i) :
        IF Known(s.field.uid) THEN UNCHANGED table ELSE AddSlot(s.field, s)
  BY Zenon DEF FlushTurn
<1>5. s \in Slot /\ s.field \in Field  BY <1>2, SlotRead
<1>6. CASE ~Known(s.field.uid)
  BY <1>1, <1>3, <1>4, <1>5, <1>6, AddKeeps DEF FlushTurn
<1>7. CASE Known(s.field.uid)
  BY <1>1, <1>3, <1>4, <1>7, Facts, SameFields DEF table
<1> QED  BY <1>6, <1>7

\* An enforced update leaves the fields alone.
LEMMA EnforcedKeeps ==
  ASSUME IInv
  PROVE  /\ Enforced(slots) \in [Index -> Slot]
         /\ \A i \in Index : Enforced(slots)[i].field = slots[i].field
<1> DEFINE e == enforced_upd
           q == Repacked(slots[e].packed)
           new == [slots[e] EXCEPT !.upd = TRUE, !.packed = q]
<1>1. slots \in [Index -> Slot] /\ e \in Index /\ slots[e] \in Slot
  BY Facts, Parts DEF Counters
<1>2. q \in Raws
  <2>1. slots[e].packed \in Nat  BY <1>1, Constants DEF Slot, Raws
  <2>2. slots[e].packed + Bytes + 1 \in Nat  BY <2>1, Constants
  <2> QED  BY <2>2, Constants, Division DEF Repacked, Raws
<1>3. Enforced(slots) = [slots EXCEPT ![e] = new]
  BY <1>1 DEF Enforced
<1> HIDE DEF e, q
<1>4. new \in Slot /\ new.field = slots[e].field  BY <1>1, <1>2 DEF Slot
<1> HIDE DEF new
<1> QED  BY <1>1, <1>3, <1>4

LEMMA EncodeStep ==
  ASSUME IInv, Encode
  PROVE  TableInv' /\ Counters'
<1>1. TableInv /\ Counters  BY Parts
<1> DEFINE s == Enforced(slots)
           upd == {i \in Due(pseq) : s[i].upd}
           new(raw) == [i \in Index |->
             IF i \in upd THEN [s[i] EXCEPT !.upd = FALSE, !.packed = raw[i]] ELSE s[i]]
<1>2. s \in [Index -> Slot] /\ \A i \in Index : s[i].field = slots[i].field  BY EnforcedKeeps
<1>3. PICK raw \in [upd -> Raws] : slots' = new(raw)  BY Zenon DEF Encode
<1> HIDE DEF s, upd
<1>4. ASSUME NEW i \in Index PROVE slots'[i] \in Slot /\ slots'[i].field = slots[i].field
  <2>1. slots'[i] = IF i \in upd THEN [s[i] EXCEPT !.upd = FALSE, !.packed = raw[i]] ELSE s[i]
    BY <1>3
  <2>2. CASE i \in upd
    <3>1. raw[i] \in Raws /\ s[i] \in Slot  BY <1>2, <1>3, <2>2
    <3> QED  BY <1>2, <2>1, <2>2, <3>1 DEF Slot
  <2>3. CASE i \notin upd  BY <1>2, <2>1, <2>3
  <2> QED  BY <2>2, <2>3
<1>5. slots' \in [Index -> Slot]
  <2>1. slots' = [i \in Index |-> slots'[i]]  BY <1>3
  <2> QED  BY <1>4, <2>1
<1>6. UNCHANGED <<slots_cnt, slots_upd_cnt, xpdr_slot_idx, hash, sync_cnt, flush>>
  BY Zenon DEF Encode
<1>7. TableInv'  BY <1>1, <1>4, <1>5, <1>6, Facts, SameFields
<1>8. enforced_upd' \in Index
  <2>1. enforced_upd' = NextEnforced  BY Zenon DEF Encode
  <2>2. enforced_upd \in Nat /\ slots_cnt \in Nat /\ slots_cnt <= slots_size /\ slots_size \in Nat \ {0}
    BY <1>1, Facts DEF Counters
  <2> QED  BY <2>1, <2>2 DEF NextEnforced, Index
<1>9. pseq' \in 0 .. 3
  <2>1. pseq' = (pseq + 1) % 4  BY Zenon DEF Encode
  <2>2. pseq + 1 \in Nat /\ 4 \in Nat \ {0}  BY <1>1 DEF Counters
  <2>3. (pseq + 1) % 4 \in 0 .. 4 - 1  BY <2>2, Division
  <2> QED  BY <2>1, <2>3
<1> QED  BY <1>1, <1>6, <1>7, <1>8, <1>9 DEF Counters, TypedFlush

\* No call breaks the invariant.
LEMMA StepInv == IInv /\ [Next]_vars => IInv'
<1> SUFFICES ASSUME IInv, [Next]_vars PROVE TableInv' /\ Counters'  BY PartsNext
<1>1. ASSUME NEW f \in Fields, Add(f) PROVE TableInv' /\ Counters'  BY <1>1, AddStep
<1>2. CASE Clear  BY <1>2, ClearStep
<1>3. ASSUME NEW u \in Uids, NEW v \in Values, Update(u, v) PROVE TableInv' /\ Counters'
  BY <1>3, UpdateStep
<1>4. ASSUME NEW u \in DOMAIN Dictionary, NEW v \in Values, UpdatePending(u, v)
      PROVE  TableInv' /\ Counters'
  BY <1>4, UpdateStep
<1>5. ASSUME NEW u \in DOMAIN Dictionary, NEW v \in Values, UpdateNew(u, v)
      PROVE  TableInv' /\ Counters'
  BY <1>5, UpdateNewStep
<1>6. ASSUME NEW u \in DOMAIN Dictionary, UpdateBehind(u) PROVE TableInv' /\ Counters'
  BY <1>6, UpdateBehindStep
<1>7. CASE SyncFlush \/ FlushEnd  BY <1>7, FlushStep
<1>8. CASE FlushTurn  BY <1>8, FlushTurnStep
<1>9. CASE Encode  BY <1>9, EncodeStep
<1>10. CASE UNCHANGED vars
  <2>1. TableInv'  BY <1>10, Parts, Facts, SameFields DEF vars, table
  <2> QED  BY <1>10, <2>1, Parts DEF vars, client, Counters, TypedFlush
<1> QED  BY <1>1, <1>2, <1>3, <1>4, <1>5, <1>6, <1>7, <1>8, <1>9, <1>10 DEF Next

\* The invariant of every behaviour.
LEMMA Always == Spec => []IInv
<1>1. IInv /\ [Next]_vars => IInv'  BY StepInv
<1> QED  BY <1>1, InitInv, PTL DEF Spec

\* Slots, counts, indices and packet numbers stay in their ranges: add() writes
\* no slot behind the array, update() counts no more pending values than it has
\* slots, and encode() enforces updates of slots that there are.
THEOREM TypeCorrect == Spec => []TypeOK
<1>1. IInv => TypeOK  BY DEF IInv
<1> QED  BY <1>1, Always, PTL

\* The table of _slots is in the order of groups and uids after any calls of
\* add(), clear(), update() and sync_flush().
THEOREM TableOrdered == Spec => []Sorted
<1>1. IInv => Sorted
  BY DEF IInv, TableInv, SortedBefore, Before, Sorted
<1> QED  BY <1>1, Always, PTL

\* Every uid is in the table once, also when sync_flush() adds a field that add()
\* has inserted between update() and the turn of the pending slot.
THEOREM TableUnique == Spec => []NoDuplicates
<1>1. IInv => NoDuplicates  BY DEF IInv, TableInv
<1> QED  BY <1>1, Always, PTL

\* slots_upd_cnt, _xpdr_slot_idx and the hash are those of the table.
THEOREM CacheFits == Spec => []Cached
<1>1. IInv => Cached  BY DEF IInv, TableInv
<1> QED  BY <1>1, Always, PTL

-----------------------------------------------------------------------------
(* Values                                                                  *)

\* A new slot leaves the values of all the others.
LEMMA AddValues ==
  ASSUME TableInv, slots_cnt < slots_size, NEW f \in Field, NEW s \in Slot,
         ~Known(f.uid), AddSlot(f, s), NEW u, Known(u)
  PROVE  ValueOf(slots, slots_cnt, u)' = ValueOf(slots, slots_cnt, u)
<1> DEFINE n == Place(f)
<1>1. TypedSlots /\ SortedBefore  BY DEF TableInv
<1>2. n \in 0 .. slots_cnt  BY <1>1, PlaceSplits
<1>3. /\ slots_cnt' = slots_cnt + 1 /\ slots'[n].field = f
      /\ \A i \in Index : i < n \/ i > slots_cnt => slots'[i] = slots[i]
      /\ \A i \in Index : n < i /\ i <= slots_cnt => slots'[i] = slots[i - 1]
  BY <1>1, <1>2, SlotAdded
<1> HIDE DEF n
<1>4. slots_cnt \in Nat /\ slots_cnt + 1 <= slots_size /\ slots_size \in Nat /\ n \in Nat
  BY <1>1, <1>2, Constants DEF TypedSlots
<1>5. f.uid # u  OBVIOUS
<1> DEFINE at    == {i \in 0 .. slots_cnt - 1 : slots[i].field.uid = u}
           after == {i \in 0 .. slots_cnt' - 1 : slots'[i].field.uid = u}
<1>6. ASSUME NEW i \in after PROVE \E j \in at : slots'[i] = slots[j]
  <2>1. i # n /\ i \in Nat /\ i <= slots_cnt /\ i \in Index  BY <1>3, <1>4, <1>5 DEF Index
  <2>2. CASE i < n
    <3>1. slots'[i] = slots[i] /\ i \in 0 .. slots_cnt - 1  BY <1>2, <1>3, <1>4, <2>1, <2>2
    <3> QED  BY <3>1
  <2>3. CASE i > n
    <3>1. slots'[i] = slots[i - 1] /\ i - 1 \in 0 .. slots_cnt - 1  BY <1>3, <1>4, <2>1, <2>3
    <3> QED  BY <3>1
  <2> QED  BY <1>4, <2>1, <2>2, <2>3
<1>7. ASSUME NEW j \in at PROVE \E i \in after : slots'[i] = slots[j]
  <2>1. j \in Nat /\ j < slots_cnt  BY <1>4
  <2>2. CASE j < n
    <3>1. slots'[j] = slots[j] /\ j \in 0 .. slots_cnt' - 1
      BY <1>3, <1>4, <2>1, <2>2 DEF Index
    <3> QED  BY <3>1
  <2>3. CASE j >= n
    <3>1. j + 1 \in Index /\ n < j + 1 /\ j + 1 <= slots_cnt /\ (j + 1) - 1 = j
      BY <1>4, <2>1, <2>3 DEF Index
    <3>2. slots'[j + 1] = slots[j] /\ j + 1 \in 0 .. slots_cnt' - 1
      BY <1>3, <1>4, <3>1
    <3> QED  BY <3>2
  <2> QED  BY <1>4, <2>1, <2>2, <2>3
<1> HIDE DEF at, after
<1>8. {slots'[i].value : i \in after} = {slots[j].value : j \in at}  BY <1>6, <1>7
<1> QED  BY <1>8, Zenon DEF ValueOf, at, after

\* A value that is in the table stays when others are added, in whatever place
\* and by whichever way.
THEOREM ValuesStay == Spec => ValuesKept
<1> DEFINE Kept == slots_cnt' > slots_cnt =>
             \A u \in Uids : Known(u) =>
                 ValueOf(slots, slots_cnt, u)' = ValueOf(slots, slots_cnt, u)
<1>1. ASSUME IInv, [Next]_vars PROVE Kept
  <2> SUFFICES ASSUME slots_cnt' > slots_cnt, NEW u \in Uids, Known(u)
               PROVE  ValueOf(slots, slots_cnt, u)' = ValueOf(slots, slots_cnt, u)
    OBVIOUS
  <2>1. TableInv /\ Counters /\ slots_cnt \in Nat  BY <1>1, Parts, Facts
  <2>2. ASSUME NEW f \in Fields, Add(f)
        PROVE  ValueOf(slots, slots_cnt, u)' = ValueOf(slots, slots_cnt, u)
    <3>1. f \in Field /\ NewSlot(f) \in Slot  BY SlotNew, EncoderAssumption
    <3>2. slots_cnt' # slots_cnt  BY <2>1
    <3>3. slots_cnt < slots_size /\ ~Known(f.uid) /\ AddSlot(f, NewSlot(f))
      BY <2>2, <3>2 DEF Add, table
    <3> QED  BY <2>1, <3>1, <3>3, AddValues
  <2>3. CASE FlushTurn
    <3>1. flush.i \in Nat  BY <2>1, <2>3 DEF FlushTurn, Counters, TypedFlush
    <3>2. PICK s \in SlotsAt(flush.i) :
            IF Known(s.field.uid) THEN UNCHANGED table ELSE AddSlot(s.field, s)
      BY <2>3, Zenon DEF FlushTurn
    <3>3. slots_cnt' # slots_cnt  BY <2>1
    <3>4. ~Known(s.field.uid) /\ AddSlot(s.field, s)  BY <3>2, <3>3 DEF table
    <3>5. s \in Slot /\ s.field \in Field /\ slots_cnt < slots_size
      BY <1>1, <2>3, <3>1, SlotRead DEF FlushTurn
    <3> QED  BY <2>1, <3>4, <3>5, AddValues
  <2>4. CASE UNCHANGED slots_cnt  BY <2>1, <2>4
  <2>5. CASE slots_cnt' = 0  BY <2>1, <2>5
  <2> QED  BY <1>1, <2>2, <2>3, <2>4, <2>5
       DEF Next, Clear, Update, UpdatePending, UpdateNew, UpdateBehind, SyncFlush, FlushEnd,
           Encode, vars, table
<1> QED  BY <1>1, Always, PTL DEF Spec, ValuesKept
=============================================================================
