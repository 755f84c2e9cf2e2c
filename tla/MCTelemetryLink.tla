--------------------------- MODULE MCTelemetryLink ---------------------------
(* Small instances of TelemetryLink for TLC. *)
EXTENDS TelemetryLink, TLC

\* With fields of two bytes and blocks of three: three blocks; two blocks, of
\* which the first is the same; a part of the second block; and no field.
Three == <<"f", "g", "h", "i">>
Two   == <<"f", "g", "i">>
Short == <<"f", "h">>

\* Hashes without a common byte; one has bytes of zero.
DistinctTables == {Three, Two, <<>>}
DistinctHashes == (Three :> <<1, 2, 0, 3>>) @@ (Two :> <<2, 1, 3, 0>>) @@ (<<>> :> <<3, 3, 1, 1>>)

\* The hashes of the last two differ in one byte, the last.
CloseTables == {Three, Two, Short}
CloseHashes == (Three :> <<1, 2, 0, 3>>) @@ (Two :> <<2, 1, 3, 0>>) @@ (Short :> <<2, 1, 3, 1>>)
=============================================================================
