------------------------------ MODULE MCCanLink ------------------------------
(* Small instances of CanLink and CanAddress for TLC.  The variable part tells  *)
(* which of the two a behaviour is of.                                       *)
EXTENDS CanAddress

CONSTANTS n1, n2, p1, p2, announcement, tag1, tag2, zero

Key(p, s)    == [pid |-> p, src |-> s]
FirstKey     == Key(p1, n1)
AllKeys      == {Key(p, s) : p \in {p1, p2, announcement}, s \in Nodes}
AcceptedKeys == {Key(p1, n1), Key(p1, n2)}

Message(k, len, tag) == [key |-> k, len |-> len, tag |-> tag]

\* Of one key packets of every number of bytes in the last frame and of every
\* way the CRC is cut, and one that is long enough to lose a whole turn of the
\* frame numbers; of another node one of several frames and one of a single
\* frame; and one that does not pass the filter.
MixedMessages ==
    {Message(FirstKey, len, tag1) : len \in 0 .. 17 \cup {33}}
    \cup {Message(Key(p1, n2), 9, tag2), Message(Key(p1, n2), 3, tag2), Message(Key(p2, n1), 9, tag2)}

AllTokens == Messages \X (-2 .. 40) \cup {<<zero, 0>>}
AllBlocks == [1 .. 8 -> AllTokens]
ZeroBytes == [i \in 1 .. 8 |-> <<zero, 0>>]

VARIABLES part, sharedOut, sharedCompleted, sharedDelivered

shared == <<sharedOut, sharedCompleted, sharedDelivered>>
allvars == <<avars, part, shared>>

\* A message of each of two nodes, with one pid.  What the receiver got out of the
\* frames stands in variables of its own: what CanLink says of out is said of nodes
\* with different addresses.
Shared == INSTANCE CanAddress WITH
    Messages  <- {Message(Key(p1, n1), 11, tag1), Message(Key(p1, n2), 9, tag2)},
    NumItems  <- 3,
    MaxFaults <- 0,
    out       <- sharedOut,
    completed <- sharedCompleted,
    delivered <- sharedDelivered

MCInit ==
    \/ /\ part = "link" /\ LInit /\ DistinctInit
       /\ sharedOut = <<>> /\ sharedCompleted = <<>> /\ sharedDelivered = <<>>
    \/ /\ part = "shared" /\ Shared!AInit
       /\ out = <<>>
       /\ completed = [m \in Messages |-> 0] /\ delivered = [m \in Messages |-> 0]

MCNext ==
    \/ part = "link" /\ LNext /\ UNCHANGED <<address, part, shared>>
    \/ part = "shared" /\ Shared!ANext /\ UNCHANGED <<part, out, completed, delivered>>

MCSpec == MCInit /\ [][MCNext]_allvars

SharedIntegrity == part = "shared" => Shared!AddressedIntegrity
=============================================================================
