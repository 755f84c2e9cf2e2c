------------------------------ MODULE MCFormats ------------------------------
(* Packets of TelemetryStream and samples of WireFormats for TLC.  The variable  *)
(* part tells which of the two a behaviour is about.                         *)
EXTENDS MCTelemetryStream, WireFormats

\* Every structure in buffers of every size, and whole but cut off at every byte,
\* among hosts of both orders of bytes.
StructureSamples ==
    UNION {{[kind |-> "structure", st |-> st, size |-> size, cut |-> cut, writer |-> w, reader |-> r] :
               <<size, cut>> \in {<<n, Total(st)>> : n \in 0 .. Total(st) + 1} \cup {<<Total(st), n>> : n \in 0 .. Total(st) - 1},
               w, r \in {"little", "big"}} : st \in Structures}

\* Strings with characters of every kind, and bytes of every kind.
Texts == {<<>>, <<65>>, <<66, 10>>, <<67, 9, 68, 13>>}
StringSamples ==
    {[kind |-> "strings", texts |-> <<a, b, c>>, size |-> n, max |-> m] :
        a, b, c \in Texts, n \in 0 .. 14, m \in {5, 20}}
    \cup {[kind |-> "bytes", bytes |-> b, pos |-> p, max |-> m] :
        b \in [1 .. 4 -> {0, 65, 10, 200}], p \in {0, 1, 4}, m \in {0, 1, 3, 9}}

\* Single bits of every place in messages of 0 to 9 bytes, and other messages.
MessageSamples ==
    {[kind |-> "message", msg |-> m, crc |-> c, cut |-> Least(k, Len(m)), behind |-> b] :
        m \in {[i \in 1 .. n |-> IF i = j THEN 2^bit ELSE 0] : n \in {3, 8}, j \in 1 .. 8, bit \in {0, 3, 7}}
              \cup {[i \in 1 .. n |-> (37 * i * i + 11 * n) % 256] : n \in 0 .. 9},
        c \in {{}, Ones(32), {0, 5, 9, 17, 30}}, k \in {1, 4}, b \in {0, 255}}

\* Numbers of 16 bits with every exponent, and floats around each of them.
Halves == {1024 * e + m : e \in 0 .. 30, m \in {0, 1, 2, 511, 512, 1022, 1023}}
HalfSamples ==
    {[kind |-> "half", h |-> Half(s, v)] : s \in {0, 1}, v \in Halves \cup {Infinite, Infinite + 1, 32767}}
    \cup {[kind |-> "float", f |-> FromKey(k)] :
        k \in UNION {{Middle(v) + d : d \in -1 .. 1} \cup {KeyOf(v), KeyOf(v) + 1} : v \in Halves}
              \cup {0, 1, 2^23 - 1, 2^23, 255 * 2^23 - 1, 255 * 2^23}}

\* Units all over the range of each format and around its ends; real numbers on a
\* unit and between two.
FixedSamples ==
    UNION {{[kind |-> "fixed", fmt |-> f, k |-> k, x |-> (k * Grains * f.den) \div f.num + d] :
              k \in (f.lo - 3 .. f.lo + 10) \cup (f.hi - 10 .. f.hi + 3) \cup {7 * i : i \in -18 .. 36} \cup {-1, 1},
              d \in {0, (Grains * f.den) \div (3 * f.num)}} : f \in TelemetryFixed \cup CoreFixed}

AngleSamples ==
    {[kind |-> "angle", x |-> x, span |-> s, max |-> m] :
        x \in {1000 * i : i \in -200 .. 200} \cup {31415, 31416, 31417, -31416, -31417, 15708, -15708},
        s \in {31416, 15708}, m \in {127, 32767}}

WholeSamples == {[kind |-> "whole", v |-> v] : v \in {0, 1, 255, 256, 65535, 65536, 16777215, 2147483647}}

LookupSamples ==
    {[kind |-> "lookup", uid |-> u, list |-> [i \in 1 .. n |-> 3 * i]] : u \in 0 .. 40, n \in 1 .. 12}

Flags == SUBSET {0, 3, 7}
Triples == [1 .. 3 -> {0, 5, Invalid}]
Wholes  == {0, 5, 16777215, 16777217, 16777219, 50331650, 1073741823}
SetSamples ==
    {[kind |-> "set", args |-> <<"vect", a, b, m>>] :
        a \in {<<1, 2, 3>>, <<Invalid, 0, 7>>}, b \in Triples, m \in 1 .. 3}
    \cup {[kind |-> "set", args |-> <<"flag", a, b, m>>] : a, b \in Flags, m \in Flags \ {{}}}
    \cup {[kind |-> "set", args |-> <<"uint", a, b, 0>>] : a \in {0, 9}, b \in Wholes}
    \cup {[kind |-> "set", args |-> <<t, a, b, 0>>] :
            t \in {"float", "byte", "enum"}, a \in {0, 9}, b \in {0, 5, 255}}
    \cup {[kind |-> "vect", type |-> t, n |-> n] : t \in {"float", "point", "vect"}, n \in {1, 2, 4}}
    \cup {[kind |-> "template", hd |-> b] : b \in BOOLEAN}

\* Tables with the first values of the dataset in any order; times of three packets.
TransponderSamples ==
    {[kind |-> "xpdr", table |-> t, size |-> n] :
        t \in {<<>>, <<1>>, <<9, 2, 8, 1>>, <<3, 1, 2>>, <<2>>, [i \in 1 .. 7 |-> 8 - i], [i \in 1 .. 9 |-> (3 * i) % 9]},
        n \in 0 .. 16}
    \cup {[kind |-> "clock", ticks |-> <<a, a + b, a + b + c>>] :
            a \in {0, 40000, 131071}, b, c \in {1, 5, 40000, 65535, 65536}}

AllSamples == StructureSamples \cup StringSamples \cup MessageSamples \cup HalfSamples \cup FixedSamples
              \cup AngleSamples \cup WholeSamples \cup LookupSamples \cup SetSamples
              \cup TransponderSamples

VARIABLE part

allvars == <<vars, samplevars, part>>

NoSample == [kind |-> "none"]
NoInput  == [table |-> <<>>, changed |-> {}, pseq |-> 0, set |-> {}, size |-> 1, fill |-> 0]

MCInit ==
    \/ part = "stream" /\ Init /\ sample = NoSample /\ examined = FALSE
    \/ part = "sample" /\ SampleInit /\ input = NoInput /\ phase = "none" /\ packet = <<>> /\ result = Refused

MCNext ==
    \/ part = "stream" /\ Next /\ UNCHANGED <<samplevars, part>>
    \/ part = "sample" /\ Examine /\ UNCHANGED <<vars, part>>

MCSpec == MCInit /\ [][MCNext]_allvars
=============================================================================
