---------------------------- MODULE CanPoolLoops ----------------------------
(***************************************************************************)
(* The loops of CanPool.cpp, one turn after the other, against the          *)
(* operators of CanPool that state their results.  The variables of a loop  *)
(* are the argument and the value of its turn, and "after" gives them after  *)
(* n turns; a loop that was left stays as it is.  A list has at most         *)
(* NumItems items, and that many turns end every loop over a list.           *)
(***************************************************************************)
EXTENDS CanPool

-----------------------------------------------------------------------------
(* remove(Tree &), remove(extid) and timeout()                             *)

\* while (t.head != max_idx) { idx = t.head; t.head = i.next; i.next = free;
\* free = idx; }
MoveItem(p, t) ==
    LET idx == p.trees[t].head
    IN  IF idx = max_idx THEN p
        ELSE [trees |-> [p.trees EXCEPT ![t].head = NextOf(p, idx)],
              items |-> [p.items EXCEPT ![idx].next = p.free],
              free  |-> idx]

RemoveTree(p, t) ==
    LET after[n \in 0 .. NumItems] == IF n = 0 THEN p ELSE MoveItem(after[n - 1], t)
    IN  after[NumItems]

\* for (auto &t : trees) with its three "continue"s
RemoveTurn(p, k, t) ==
    IF p.trees[t].head = max_idx \/ p.trees[t].dlc # 0 \/ p.trees[t].key # k
    THEN p ELSE RemoveTree(p, t)

RemoveLoop(p, k) ==
    LET after[t \in 0 .. NumTrees] == IF t = 0 THEN p ELSE RemoveTurn(after[t - 1], k, t)
    IN  after[NumTrees]

TimeoutTurn(p, t) ==
    IF p.trees[t].head = max_idx \/ p.trees[t].dlc # 0 THEN p
    ELSE IF p.trees[t].to = 0 THEN RemoveTree(p, t)
    ELSE [trees |-> [p.trees EXCEPT ![t].to = @ - 1], items |-> p.items, free |-> p.free]

TimeoutLoop(p) ==
    LET after[t \in 0 .. NumTrees] == IF t = 0 THEN p ELSE TimeoutTurn(after[t - 1], t)
    IN  after[NumTrees]

-----------------------------------------------------------------------------
(* push_next(Tree &), space() and read_packet(Tree &)                      *)

\* The index of the tail, or max_idx when it is not among the max_seq_idx =
\* size_items items that push_next(Tree &) looks at (ErrorSeqIdx).
TailLoop(p, h) ==
    LET tail(i) == NextOf(p, i) = max_idx
        after[n \in 0 .. NumItems - 1] ==
            IF n = 0 THEN h
            ELSE IF tail(after[n - 1]) THEN after[n - 1] ELSE NextOf(p, after[n - 1])
        last == after[NumItems - 1]
    IN  IF tail(last) THEN last ELSE max_idx

\* for (i = free; i != max_idx; i = items[i].next) cnt++;
SpaceTurn(p, c) ==
    IF c.i = max_idx THEN c ELSE [i |-> NextOf(p, c.i), cnt |-> c.cnt + 1]

SpaceLoop(p) ==
    LET after[n \in 0 .. NumItems] ==
            IF n = 0 THEN [i |-> p.free, cnt |-> 0] ELSE SpaceTurn(p, after[n - 1])
    IN  after[NumItems]

\* read_packet(Tree &, dest, sz): the next item, max_idx after a "break", and what
\* was written so far.
CopyTurn(p, t, sz, c) ==
    LET i    == p.items[c.next]
        size == c.copy.size
        last == p.trees[t].dlc
        break == [next |-> max_idx, copy |-> c.copy]
        write(n) == [next |-> i.next,
                     copy |-> [key    |-> c.copy.key,
                               blocks |-> Append(c.copy.blocks, i.data),
                               size   |-> size + n]]
    IN  IF c.next = max_idx THEN c
        ELSE IF i.next # max_idx
        THEN IF size + 8 > sz THEN break ELSE write(8)
        ELSE IF last <= 8 /\ size + last <= sz THEN write(last) ELSE break

CopyLoop(p, t, sz) ==
    LET none == [key |-> p.trees[t].key, blocks |-> <<>>, size |-> 2]
        after[n \in 0 .. NumItems] ==
            IF n = 0 THEN [next |-> p.trees[t].head, copy |-> none]
            ELSE CopyTurn(p, t, sz, after[n - 1])
    IN  after[NumItems]

-----------------------------------------------------------------------------
\* The list operations of the model give what the loops over the linked lists
\* compute: remove(extid) and timeout() leave the same free list and countdowns,
\* the tail that push_next(Tree &) finds within max_seq_idx = size_items
\* steps is the last item of the chain, and space() ends with the number of free
\* items.
ListLoops ==
    /\ \A k \in Keys : Remove(Pool, k) = RemoveLoop(Pool, k)
    /\ TimeoutAll(Pool) = TimeoutLoop(Pool)
    /\ \A t \in Used(Pool) :
           TailLoop(Pool, trees[t].head) = LastOf(Pool, trees[t].head)
    /\ SpaceLoop(Pool) = [i |-> max_idx, cnt |-> Cardinality(Chain(Pool, free))]

\* read_packet(Tree &) copies what Copy states, for buffers of every size that
\* ends in the middle, at the end and one byte before the end of an item.
ReadLoop ==
    \A t \in Finished(Pool), sz \in 2 .. 2 + 8 * NumItems :
        CopyLoop(Pool, t, sz) = [next |-> max_idx, copy |-> Copy(Pool, t, sz)]

=============================================================================
