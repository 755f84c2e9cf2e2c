-------------------------- MODULE MCTelemetryStream --------------------------
(* Tables and inputs of TelemetryStream for TLC. *)
EXTENDS TelemetryStream

Fields(fmts, seqs) == [i \in DOMAIN fmts |-> [fmt |-> fmts[i], seq |-> seqs[i]]]
Steady(fmts) == Fields(fmts, [i \in DOMAIN fmts |-> "always"])
Of(n, fmt) == [i \in 1 .. n |-> fmt]

\* All inputs of a table with these changes.
Cases(tables, changes(_), pseqs, sets(_), sizes, fills) ==
    {[table |-> t, changed |-> c, pseq |-> n, set |-> b, size |-> z, fill |-> f] :
        <<t, c, n, b, z, f>> \in
          UNION {{t} \X changes(t) \X pseqs \X sets(t) \X sizes \X fills : t \in tables}}

Places(tab, fmt) == {i \in DOMAIN tab : tab[i].fmt = fmt}
ValuePlaces(tab) == DOMAIN tab \ Places(tab, "bit")
AnyChanged(tab)  == SUBSET ValuePlaces(tab)
AnyBits(tab)     == SUBSET Places(tab, "bit")
NoBits(tab)      == {{}}

\* Every format and pace, all changes, all packet numbers.
Paced == Fields(<<"u8", "u16", "u32", "u8", "u4", "u4", "u4", "bit", "bit">>,
                <<"always", "skip", "rare", "scheduled", "always", "rare", "always", "always", "rare">>)
PacedPairs == Fields(<<"u16", "u8", "u4", "u4", "u4", "u4">>,
                     <<"rare", "always", "skip", "always", "always", "scheduled">>)

\* Pairs that cross the end of a code, and nine bits, with all changes.
Pairs == Steady(<<"u8", "u8", "u8", "u8">> \o Of(6, "u4"))
NineBits == Steady(<<"u16", "u4">> \o Of(9, "bit"))

\* Long tables in which up to three values change: every number of codes without
\* a bit, and offsets of one byte, of 126 to 128, and of two bytes.
Long == Steady(Of(20, "u8") \o Of(4, "u4") \o <<"bit">>)
Huge == Steady(Of(233, "u8") \o Of(5, "u4") \o Of(2, "bit"))
FewLong(tab) == {{i, j, k} : i, j, k \in ValuePlaces(tab)} \cup {{}}
FewHuge(tab) == {{i, j} : i, j \in {1, 7, 8, 15, 127, 128, 129, 134, 135, 136, 142, 143, 233, 238}}

FormatInputs ==
    Cases({Paced, PacedPairs}, AnyChanged, 0 .. 3, AnyBits, {60}, {37})
        \cup Cases({Pairs}, AnyChanged, {0}, AnyBits, {60}, {255})
        \cup Cases({NineBits}, AnyChanged, {0}, AnyBits, {60}, {0, 37})
        \cup Cases({Long}, FewLong, {0}, AnyBits, {150}, {37})
        \cup Cases({Huge}, FewHuge, {0}, NoBits, {1200}, {37})

\* Buffers that are too small, at every size; in some of them more codes are taken
\* back than there are bytes.
Wide  == Steady(<<"u32", "u16", "u8">> \o Of(7, "u8") \o Of(8, "u8") \o <<"u4", "u4", "bit">>)
FewWide(tab) == {{1, 2, i, j, k} \ {9} : i, j, k \in {3, 9, 10, 17, 18, 19, 20}}
FewLate(tab) == {{i, j} : i \in {1, 8, 24}, j \in {15, 22, 24}}
FewEnds(tab) == {{238}, {1, 238}, {143, 233}}
SmallInputs ==
    Cases({Wide}, FewWide, {0}, AnyBits, 3 .. 28, {0, 37, 255})
        \cup Cases({Long}, FewLate, {0}, AnyBits, 3 .. 12, {0, 37})
        \cup Cases({Huge}, FewEnds, {0}, NoBits, 3 .. 44, {0, 37})

AllInputs == FormatInputs \cup SmallInputs

PairInputs == Cases({Pairs}, AnyChanged, {0}, AnyBits, {60}, {37})
=============================================================================
