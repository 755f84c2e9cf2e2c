--------------------------- MODULE CanPoolHistory ---------------------------
(***************************************************************************)
(* CanPool with two history variables, for what the pool does over several  *)
(* calls about packets that never become complete ("orphans").  They record *)
(* and never influence what the pool does.  HView leaves out of what makes  *)
(* two states different what no later step depends on.                      *)
(***************************************************************************)
EXTENDS CanPool

VARIABLES
    idle,     \* timeout()s since the last frame of the packet in progress of a key
    about     \* {the key of the frame} if the last call was a push, or {}

hvars == <<vars, idle, about>>

HView == <<trees, items, free, idle>>

HInit ==
    /\ Init
    /\ idle = [k \in Keys |-> 0]
    /\ about = {}

\* A call that counts the partial packets down.
HTimeout ==
    /\ \/ /\ TimeoutCall
          /\ about' = {}
       \/ \E k \in Keys, f \in Frames, d \in Blocks, n \in Dlcs :
          /\ \/ PushOverflow(k)
             \/ PushOrphan(k, f, n)
             \/ PushNew(k, f, d, n) /\ rv' = "ErrorTreeOverflow"
          /\ about' = {k}
    /\ idle' = [k \in Keys |-> IF Working(Pool, k)' = {} THEN 0 ELSE idle[k] + 1]

HAccept ==
    \E k \in Keys, f \in Frames, d \in Blocks, n \in Dlcs :
        /\ PushNew(k, f, d, n) \/ PushNext(k, f, d, n)
        /\ rv' # "ErrorTreeOverflow"
        /\ idle' = [idle EXCEPT ![k] = 0]
        /\ about' = {k}

HOther ==
    /\ \/ \E f \in Frames, n \in Dlcs : PushBadLength(f, n)
       \/ \E k \in Keys, f \in Frames, n \in Dlcs : PushRepeated(k, f, n)
       \/ \E sz \in DestSizes : ReadPacket(sz)
       \/ ReadNothing
    /\ about' = {}
    /\ UNCHANGED idle

HNext == HTimeout \/ HAccept \/ HOther

HSpec == HInit /\ [][HNext]_hvars

\* A packet that got no frame is given up when timeout() has run Timeout + 1
\* times, whatever else was received in between: refused, orphaned and
\* overflowing frames flush the pool, so it cannot stay full of orphans.
OrphansExpire ==
    \A k \in Keys : Working(Pool, k) # {} => idle[k] <= Timeout

\* A packet whose own frames keep coming in order is not given up for the sake
\* of others: it disappears only by a frame of its own key, or when timeout()
\* runs for the Timeout + 1st time since its last frame (every accepted frame
\* starts the countdown again; repeated ones of other keys do not touch it).
NotGivenUpEarly ==
    [][\A k \in Keys :
        (Working(Pool, k) # {} /\ Working(Pool, k)' = {})
            => idle[k] = Timeout \/ about' = {k}]_hvars

=============================================================================
