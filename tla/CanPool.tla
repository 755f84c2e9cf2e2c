------------------------------- MODULE CanPool -------------------------------
(***************************************************************************)
(* The CAN message pool of xbus (src/xbus/can/CanPool.{h,cpp}): the object  *)
(* that puts the CAN frames of several senders together into packets.       *)
(*                                                                          *)
(* The pool owns an array of items (eight payload bytes and the index of    *)
(* another item) and an array of trees.  A tree is a packet: the head of a  *)
(* chain of items, the number of bytes in the last one once the packet is   *)
(* complete, and a countdown.  The items of no tree form the free list.     *)
(* Every action below is one whole call of the public interface, push(),    *)
(* read_packet() or timeout().  The pool has no lock of its own: that its   *)
(* calls do not overlap is an assumption about its callers.  In the codec   *)
(* read_packet() takes lock_push, and push_message() leaves that to its     *)
(* caller.                                                                  *)
(*                                                                          *)
(* The loops over the linked lists are stated by what they compute: Chain   *)
(* is the least set closed under "next", and Release gives the list that    *)
(* the loop of Pool::remove(Tree &) leaves behind.  CanPoolLoops runs the   *)
(* loops themselves and compares.  Operators named Bad... are wrong forms   *)
(* of the operator that follows.                                            *)
(***************************************************************************)
EXTENDS Integers, Sequences, FiniteSets, FiniteSetsExt

CONSTANTS
    NumItems,    \* size_items, 76 in the code
    NumTrees,    \* size_trees, 8 in the code
    Timeout,     \* XCAN_CODEC_TIMEOUT, 7 in the code
    FrmSeqMax,   \* frm_seq_max, 4 in the code
    Keys,        \* the (pid, src, net) part of an extid that frames carry
    ZeroKey,     \* that part of an extid of zeros, what memset() leaves
    Blocks,      \* the contents of the eight data bytes of a frame
    ZeroBlock,   \* eight bytes of zeros
    Dlcs,        \* the frame lengths that occur on the bus
    DestSizes    \* the buffer sizes read_packet() is called with

ASSUME SizesAssumption ==
    /\ NumItems \in 1 .. 255
    /\ NumTrees \in Nat \ {0}
    /\ Timeout \in Nat
    /\ FrmSeqMax \in Nat \ {0}

ASSUME DataAssumption ==
    /\ ZeroBlock \in Blocks
    /\ Dlcs \subseteq 0 .. 8
    /\ DestSizes \subseteq Nat \ {0, 1}

Items == 0 .. NumItems - 1
Trees == 1 .. NumTrees

\* The index that stands for "none": the end of a chain, an unused tree.
max_idx == 255

\* Tree::dlc of a complete packet without payload bytes.
ZeroLength == 255

\* The frame kinds.  Values 0 .. FrmSeqMax number the frames of the middle.
SeqFrames  == 0 .. FrmSeqMax
frm_end    == FrmSeqMax + 1
frm_start  == FrmSeqMax + 2
frm_single == FrmSeqMax + 3
Frames     == 0 .. frm_single

Item == [next : Items \cup {max_idx}, data : Blocks]

\* Tree::extid is its mf_id_mask part (key) and its frame number (frm).
Tree == [key  : Keys \cup {ZeroKey},
         frm  : Frames,
         head : Items \cup {max_idx},
         dlc  : 0 .. 8 \cup {ZeroLength},
         to   : 0 .. Timeout]

\* ErrorType, less ErrorSeqIdx (see ChainsEnd); "-" when push() was not called.
Results == {"PacketAvailable", "MsgAccepted", "MsgDropped", "ErrorDLC",
            "ErrorSlotsOverflow", "ErrorTreeOverflow", "ErrorOrphan", "-"}

VARIABLES
    trees, items, free,
    rv,                  \* what the last call of push() returned
    got                  \* <<the packet>> the last read_packet() returned

vars == <<trees, items, free, rv, got>>

Pool == [trees |-> trees, items |-> items, free |-> free]

Become(p) == trees' = p.trees /\ items' = p.items /\ free' = p.free

-----------------------------------------------------------------------------
(* Chains of items.                                                        *)

NextOf(p, i) == p.items[i].next

ClosedUnderNext(p, S) ==
    \A i \in S : NextOf(p, i) # max_idx => NextOf(p, i) \in S

\* The items found by following "next" from index h, none from max_idx.
Chain(p, h) ==
    LET closed == {S \in SUBSET Items : h \in S \cup {max_idx} /\ ClosedUnderNext(p, S)}
    IN  {i \in Items : \A S \in closed : i \in S}

\* The last item of the chain that starts at h.
LastOf(p, h) == CHOOSE i \in Chain(p, h) : NextOf(p, i) = max_idx

Used(p)       == {t \in Trees : p.trees[t].head # max_idx}
Unused(p)     == Trees \ Used(p)
Partial(p)    == {t \in Used(p) : p.trees[t].dlc = 0}
Finished(p)   == Used(p) \ Partial(p)
BadWorking(p, k) == {t \in Used(p) : p.trees[t].key = k}    \* "dlc" not looked at
Working(p, k) == {t \in Partial(p) : p.trees[t].key = k}

-----------------------------------------------------------------------------
(* The private functions of the class, as functions from pool to pool.     *)

\* The items of a removed tree do not get back to the free list.
BadRelease(p, R) ==
    [p EXCEPT !.trees = [t \in Trees |-> IF t \in R THEN [p.trees[t] EXCEPT !.head = max_idx]
                                         ELSE p.trees[t]]]

\* Pool::remove(Tree &) for each tree of R in the order of the array: the
\* items of a chain are moved one by one to the front of the free list.
Release(p, R) ==
    LET head(t) == p.trees[t].head
        freed   == UNION {Chain(p, head(t)) : t \in R}
        \* the free list at the time tree t is released
        list(t) == LET earlier == {u \in R : u < t}
                   IN  IF earlier = {} THEN p.free ELSE LastOf(p, head(Max(earlier)))
        next(i) == IF i \notin freed THEN NextOf(p, i)
                   ELSE IF \E t \in R : i = head(t) THEN list(CHOOSE t \in R : i = head(t))
                   ELSE CHOOSE j \in freed : NextOf(p, j) = i
    IN  IF R = {} THEN p ELSE
        [trees |-> [t \in Trees |-> IF t \in R THEN [p.trees[t] EXCEPT !.head = max_idx]
                                    ELSE p.trees[t]],
         items |-> [i \in Items |-> [p.items[i] EXCEPT !.next = next(i)]],
         free  |-> LastOf(p, head(Max(R)))]

BadRemoveNone(p, k) == p
BadRemoveAll(p, k) == Release(p, Partial(p))

\* Pool::remove(const extid_s &).
Remove(p, k) == Release(p, Working(p, k))

BadExpiredNever(p) == {}

\* Pool::timeout().
Expired(p) == {t \in Partial(p) : p.trees[t].to = 0}

TimeoutAll(p) ==
    LET q == Release(p, Expired(p))
    IN  [q EXCEPT !.trees = [t \in Trees |->
            IF t \in Partial(q) THEN [q.trees[t] EXCEPT !.to = @ - 1] ELSE q.trees[t]]]

BadTakeUnlinked(p, d) ==
    [trees |-> p.trees,
     items |-> [p.items EXCEPT ![p.free].data = d],
     free  |-> NextOf(p, p.free)]
BadTakeStale(p, d) ==
    [trees |-> p.trees,
     items |-> [p.items EXCEPT ![p.free].next = max_idx],
     free  |-> NextOf(p, p.free)]

\* Pool::push(const uint8_t *): the first free item takes the data.
Take(p, d) ==
    [trees |-> p.trees,
     items |-> [p.items EXCEPT ![p.free] = [next |-> max_idx, data |-> d]],
     free  |-> NextOf(p, p.free)]

\* The branch of push_new that found an empty tree.
Begin(p, t, k, d, last) ==
    LET tree == [key  |-> k,
                 frm  |-> IF last = 0 THEN 0 ELSE frm_single,
                 head |-> p.free,
                 dlc  |-> last,
                 to   |-> Timeout]
    IN  Take([trees |-> [p.trees EXCEPT ![t] = tree], items |-> p.items, free |-> p.free], d)

\* The branch of push_next that found the tail: push_next(Tree &) and what
\* follows it.
SeqAfter(frm) == IF frm = FrmSeqMax THEN 0 ELSE frm + 1
SeqBefore(frm) == IF frm = 0 THEN FrmSeqMax ELSE frm - 1

Extend(p, t, d, last) ==
    LET tail == LastOf(p, p.trees[t].head)
        frm  == p.trees[t].frm
        tree == [p.trees[t] EXCEPT !.to  = Timeout,
                                   !.dlc = last,
                                   !.frm = IF last = 0 THEN SeqAfter(frm) ELSE frm]
    IN  Take([trees |-> [p.trees EXCEPT ![t] = tree],
              items |-> [p.items EXCEPT ![tail].next = p.free],
              free  |-> p.free], d)

\* The data of tree t in the order of its chain.
Body(p, t) ==
    LET from[i \in Items \cup {max_idx}] ==
            IF i = max_idx THEN <<>> ELSE <<p.items[i].data>> \o from[NextOf(p, i)]
    IN  from[p.trees[t].head]

\* An item that ends with the buffer is left out.
BadCopy(p, t, sz) ==
    LET body  == Body(p, t)
        whole == Min({Len(body) - 1, (sz - 2) \div 8})
        pos   == 2 + 8 * whole
        last  == p.trees[t].dlc
        fits  == whole = Len(body) - 1 /\ last # ZeroLength /\ pos + last < sz
    IN  [key    |-> p.trees[t].key,
         blocks |-> SubSeq(body, 1, IF fits THEN whole + 1 ELSE whole),
         size   |-> IF fits THEN pos + last ELSE pos]

\* Pool::read_packet(Tree &, void *, size_t): the pid takes two bytes of the
\* buffer and copying stops at the first item that does not fit.
Copy(p, t, sz) ==
    LET body  == Body(p, t)
        whole == Min({Len(body) - 1, (sz - 2) \div 8})
        pos   == 2 + 8 * whole
        last  == p.trees[t].dlc
        fits  == whole = Len(body) - 1 /\ last # ZeroLength /\ pos + last <= sz
    IN  [key    |-> p.trees[t].key,
         blocks |-> SubSeq(body, 1, IF fits THEN whole + 1 ELSE whole),
         size   |-> IF fits THEN pos + last ELSE pos]

-----------------------------------------------------------------------------
Init ==
    /\ trees = [t \in Trees |-> [key |-> ZeroKey, frm |-> 0, head |-> max_idx,
                                 dlc |-> 0, to |-> 0]]
    /\ items = [i \in Items |-> [next |-> IF i = NumItems - 1 THEN max_idx ELSE i + 1,
                                 data |-> ZeroBlock]]
    /\ free = 0
    /\ rv = "-"
    /\ got = <<>>

Return(result) == rv' = result /\ got' = <<>>

(* push(extid, data, dlc), one disjunct per way it can end.  k and f are    *)
(* the two parts of extid, d and n the data and the length of the frame.    *)

BadPushOverflow(k) ==        \* without timeout()
    /\ free = max_idx
    /\ Become(Remove(Pool, k))
    /\ Return("ErrorSlotsOverflow")

PushOverflow(k) ==
    /\ free = max_idx
    /\ Become(Remove(TimeoutAll(Pool), k))
    /\ Return("ErrorSlotsOverflow")

BadLength(f, n) ==
    \/ f = frm_end /\ n = 0
    \/ f \in SeqFrames \cup {frm_start} /\ n # 8

PushBadLength(f, n) ==
    /\ free # max_idx
    /\ BadLength(f, n)
    /\ Return("ErrorDLC")
    /\ UNCHANGED <<trees, items, free>>

\* A first frame: frm_start, or frm_single with the whole packet.
PushNew(k, f, d, n) ==
    /\ free # max_idx
    /\ f \in {frm_start, frm_single}
    /\ ~BadLength(f, n)
    /\ LET last == IF f = frm_start THEN 0 ELSE IF n > 0 THEN n ELSE ZeroLength
           p    == Remove(Pool, k)
       IN  \/ /\ Unused(p) = {}
              /\ Become(TimeoutAll(p))
              /\ Return("ErrorTreeOverflow")
           \/ /\ Unused(p) # {}
              /\ Become(Begin(p, Min(Unused(p)), k, d, last))
              /\ Return(IF last = 0 THEN "MsgAccepted" ELSE "PacketAvailable")

\* A frame of the middle or the end that belongs to no tree, or is neither
\* the next one of its tree nor the one before.
Orphan(k, f) ==
    \/ Working(Pool, k) = {}
    \/ /\ Working(Pool, k) # {}
       /\ f \in SeqFrames
       /\ LET frm == trees[Min(Working(Pool, k))].frm IN f \notin {frm, SeqBefore(frm)}

PushOrphan(k, f, n) ==
    /\ free # max_idx
    /\ f \in SeqFrames \cup {frm_end}
    /\ ~BadLength(f, n)
    /\ Orphan(k, f)
    /\ Become(TimeoutAll(Remove(Pool, k)))
    /\ Return("ErrorOrphan")

PushRepeated(k, f, n) ==
    /\ free # max_idx
    /\ f \in SeqFrames
    /\ ~BadLength(f, n)
    /\ Working(Pool, k) # {}
    /\ f = SeqBefore(trees[Min(Working(Pool, k))].frm)
    /\ Return("MsgDropped")
    /\ UNCHANGED <<trees, items, free>>

\* frm_end is accepted whatever number the tree expects next.
PushNext(k, f, d, n) ==
    /\ free # max_idx
    /\ f \in SeqFrames \cup {frm_end}
    /\ ~BadLength(f, n)
    /\ Working(Pool, k) # {}
    /\ LET t == Min(Working(Pool, k))
       IN  \/ /\ f = trees[t].frm
              /\ Become(Extend(Pool, t, d, 0))
              /\ Return("MsgAccepted")
           \/ /\ f = frm_end
              /\ Become(Extend(Pool, t, d, n))
              /\ Return("PacketAvailable")

Push(k, f, d, n) ==
    \/ PushOverflow(k)
    \/ PushBadLength(f, n)
    \/ PushNew(k, f, d, n)
    \/ PushOrphan(k, f, n)
    \/ PushRepeated(k, f, n)
    \/ PushNext(k, f, d, n)

(* read_packet(dest, sz, src_id): the first complete packet of the array.   *)

BadReadPacketAgain(sz) ==    \* without remove(t)
    /\ Finished(Pool) # {}
    /\ got' = <<Copy(Pool, Min(Finished(Pool)), sz)>>
    /\ Become(Pool)
    /\ rv' = "-"

ReadPacket(sz) ==
    /\ Finished(Pool) # {}
    /\ LET t == Min(Finished(Pool))
       IN  /\ got' = <<Copy(Pool, t, sz)>>
           /\ Become(Release(Pool, {t}))
    /\ rv' = "-"

ReadNothing ==
    /\ Finished(Pool) = {}
    /\ Return("-")
    /\ UNCHANGED <<trees, items, free>>

(* timeout(), which the owner of the pool may also call.                    *)

TimeoutCall ==
    /\ Become(TimeoutAll(Pool))
    /\ Return("-")

Next ==
    \/ \E k \in Keys : PushOverflow(k)
    \/ \E f \in Frames, n \in Dlcs : PushBadLength(f, n)
    \/ \E k \in Keys, f \in Frames, n \in Dlcs : PushOrphan(k, f, n) \/ PushRepeated(k, f, n)
    \/ \E k \in Keys, f \in Frames, d \in Blocks, n \in Dlcs :
           PushNew(k, f, d, n) \/ PushNext(k, f, d, n)
    \/ \E sz \in DestSizes : ReadPacket(sz)
    \/ ReadNothing
    \/ TimeoutCall

Spec == Init /\ [][Next]_vars

-----------------------------------------------------------------------------
TypeOK ==
    /\ trees \in [Trees -> Tree]
    /\ items \in [Items -> Item]
    /\ free \in Items \cup {max_idx}
    /\ rv \in Results

Owners == 0 .. NumTrees

\* The head of the list of an owner; owner 0 is the free list.
HeadOf(p, o) == IF o = 0 THEN p.free ELSE p.trees[o].head

\* Every item is in exactly one list: in the free list or in the chain of one
\* tree.  No order of accepted, refused, orphaned and timed out frames may leak
\* an item or give it to two packets (push, push_new, push_next, remove).
ItemsOwnedOnce ==
    /\ UNION {Chain(Pool, HeadOf(Pool, o)) : o \in Owners} = Items
    /\ \A o, u \in Owners : o < u =>
            Chain(Pool, HeadOf(Pool, o)) \cap Chain(Pool, HeadOf(Pool, u)) = {}

\* Every list that is not empty has exactly one last item, so the walk of
\* push_next(Tree &) ends before max_seq_idx steps (ErrorSeqIdx is not returned)
\* and the loops of remove(Tree &) and space() end.
ChainsEnd ==
    \A o \in Owners : HeadOf(Pool, o) # max_idx =>
        LET chain == Chain(Pool, HeadOf(Pool, o))
        IN  \E i \in chain : \A j \in chain : NextOf(Pool, j) = max_idx <=> j = i

\* Two trees never collect frames of the same packet: push_next and remove
\* stop at, or act on, "the" tree of an extid.
OnePartialPerKey ==
    \A s, t \in Partial(Pool) : trees[s].key = trees[t].key => s = t

\* A complete packet stays as it is, in its tree, until the call of
\* read_packet that returns it: no push of any kind and no timeout may drop it
\* or write into its items.
FinishedKept ==
    [][\A t \in Finished(Pool) :
        \/ /\ trees'[t] = trees[t]
           /\ \A i \in Chain(Pool, trees[t].head) : items'[i] = items[i]
        \/ got' # <<>> /\ t = Min(Finished(Pool))]_vars

=============================================================================
