------------------------- MODULE MCTelemetryEncoder -------------------------
(* Small instances of TelemetryEncoder for TLC. *)
EXTENDS TelemetryEncoder, TLC

F(u, fmt, seq) == [uid |-> u, fmt |-> fmt, seq |-> seq]
D(fmt, seq, aux) == [fmt |-> fmt, seq |-> seq, aux |-> aux]

\* A field of every group that the callers add, and values of every group that
\* update() keeps for sync_flush(), but one that the dictionary calls auxiliary.
TableFields == {F(4, "word", "always"), F(1, "u4", "always"), F(3, "bit", "always")}
SyncDictionary == (2 :> D("word", "always", FALSE)) @@ (5 :> D("bit", "always", FALSE))
                  @@ (6 :> D("byte", "always", TRUE))
SyncDataset == <<2, 4>>

\* Values of different paces, and a bit.
PacedFields == {F(1, "word", "skip"), F(2, "u4", "scheduled"), F(3, "bit", "always")}
NoDictionary == [u \in {} |-> D("word", "always", FALSE)]

\* What is told about the fields of a table does not depend on the packets that
\* were sent, when no field has a pace.
TableView == <<table, sync_cnt, enforced_upd, flush, asked>>
=============================================================================
