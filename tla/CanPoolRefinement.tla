------------------------- MODULE CanPoolRefinement --------------------------
(***************************************************************************)
(* CanPool implements PacketPool.  A tree that collects is the abstract     *)
(* packet of its key, a complete tree is the place of an abstract complete  *)
(* packet; frame numbers and countdowns have no counterpart: the number a   *)
(* tree expects is determined by the length of its chain.                   *)
(*                                                                          *)
(* The variable call records the last call with its arguments, so that the  *)
(* abstract step has to be the same call.  It influences nothing; RView     *)
(* leaves it and the results of the last call out of what makes two states  *)
(* different (the steps of both specifications do not depend on them), and   *)
(* with them the bytes in free items, which Take overwrites.                *)
(***************************************************************************)
EXTENDS CanPool

VARIABLE call

rvars == <<vars, call>>

RView == <<trees, free,
           [i \in Items |-> IF i \in Chain(Pool, free) THEN <<items[i].next>> ELSE items[i]]>>

RInit == Init /\ call = <<"init">>

RPush(k, f, d, n) == Push(k, f, d, n) /\ call' = <<"push", k, f, d, n>>

RRead(sz) == (ReadPacket(sz) \/ ReadNothing) /\ call' = <<"read", sz>>

RTimeout == TimeoutCall /\ call' = <<"timeout">>

RNext ==
    \/ \E k \in Keys, f \in Frames, d \in Blocks, n \in Dlcs : RPush(k, f, d, n)
    \/ \E sz \in DestSizes : RRead(sz)
    \/ RTimeout

RSpec == RInit /\ [][RNext]_rvars

Collected(p, k) == IF Working(p, k) = {} THEN <<>> ELSE Body(p, Min(Working(p, k)))

Complete(p, t) ==
    IF t \in Finished(p)
    THEN [key |-> p.trees[t].key, blocks |-> Body(p, t), last |-> p.trees[t].dlc]
    ELSE [key |-> "none", blocks |-> <<>>, last |-> 0]

Abstract == INSTANCE PacketPool WITH
    Places    <- Trees,
    MaxBlocks <- NumItems,
    partial   <- [k \in Keys |-> Collected(Pool, k)],
    done      <- [t \in Trees |-> Complete(Pool, t)]

\* Every call of the pool is the same call of PacketPool: what push() returns
\* tells what became of the frame, packets are the data of their frames in the
\* order of the numbers, and nothing is lost but by an error or a timeout.
ImplementsPacketPool == Abstract!Spec

=============================================================================
