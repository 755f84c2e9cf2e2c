------------------------------ MODULE Checksums ------------------------------
(***************************************************************************)
(* The checksums of src/crc.  A register of w bits is the set of the        *)
(* positions of its ones, so that exclusive or is the symmetric difference  *)
(* and a shift moves positions.  A message is a sequence of bytes.          *)
(***************************************************************************)
EXTENDS Integers, Sequences, SequencesExt

Xor(a, b)       == (a \ b) \cup (b \ a)
Above(a, n, w)   == {i + n : i \in a} \cap 0 .. w - 1
Below(a, n)     == {i - n : i \in a} \cap Nat
Low(a, n)       == a \cap 0 .. n - 1
BitsOf(v)         == {i \in 0 .. 30 : (v \div 2^i) % 2 = 1}
Ones(w)         == 0 .. w - 1
Index(a, from)  == 8 * (IF from + 3 \in a THEN 1 ELSE 0) + 4 * (IF from + 2 \in a THEN 1 ELSE 0)
                   + 2 * (IF from + 1 \in a THEN 1 ELSE 0) + (IF from \in a THEN 1 ELSE 0)

Repeat(Step(_), n, a) == FoldLeft(LAMBDA r, i : Step(r), a, [i \in 1 .. n |-> i])

\* One bit of a division, from the most or from the least significant end.
Up(crc, poly, w) == IF w - 1 \in crc THEN Xor(Above(crc, 1, w), poly) ELSE Above(crc, 1, w)
Down(crc, poly)  == IF 0 \in crc THEN Xor(Below(crc, 1), poly) ELSE Below(crc, 1)

Poly32       == BitsOf(79764919)                 \* 0x04C11DB7
Mirror(a, w) == {w - 1 - i : i \in a}
PolyNodes    == Mirror(Poly32, 32)             \* 0xEDB88320
PolyCcitt    == {0, 5, 12}                     \* 0x1021
Poly8c       == {2, 3, 7}                      \* 0x8c

-----------------------------------------------------------------------------
(* crc32_sw.c                                                              *)

stm_crc_slow(crc, data) == Repeat(LAMBDA r : Up(r, Poly32, 32), 32, Xor(crc, data))

crcTable ==
    <<0, 79764919, 159529838, 222504665, 319059676, 398814059, 445009330, 507990021,
      638119352, 583659535, 797628118, 726387553, 890018660, 835552979, 1015980042, 944750013>>

BadRounds == 7                \* rounds of four bits for a word
Rounds == 8

stm_crc_fast(crc, data) ==
    Repeat(LAMBDA r : Xor(Above(r, 4, 32), BitsOf(crcTable[Index(r, 28) + 1])), Rounds, Xor(crc, data))

Word(b) == BitsOf(b[1]) \cup Above(BitsOf(b[2]), 8, 32) \cup Above(BitsOf(b[3]), 16, 32) \cup Above(BitsOf(b[4]), 24, 32)

\* CRC32_SW: the last word is read with the bytes behind the message, here "behind",
\* which are masked.
CRC32_SW(msg, crc, behind) ==
    LET whole == Len(msg) \div 4
        rest  == Len(msg) % 4
        all   == msg \o <<behind, behind, behind>>
        word(k) == Word(SubSeq(all, 4 * k + 1, 4 * k + 4))
        done  == FoldLeft(LAMBDA r, k : stm_crc_fast(word(k - 1), r), crc, [k \in 1 .. whole |-> k])
    IN  IF rest = 0 THEN done ELSE stm_crc_fast(Low(word(whole), 8 * rest), done)

-----------------------------------------------------------------------------
(* crc_sw.c                                                                *)

\* The loop over the bytes that all of them have.
Loop(Step(_, _), msg, crc) == FoldLeft(LAMBDA r, b : Step(r, BitsOf(b)), crc, msg)

CRC_8_8C(msg, crc) ==
    LET Step(r, b) == Repeat(LAMBDA x : Down(x, Poly8c), 8, Xor(r, b)) IN Loop(Step, msg, crc)

\* The byte is shifted next to the register.
CRC_8(poly, msg, crc) ==
    LET One(s) == [crc |-> IF 0 \in Xor(s.crc, s.v) THEN Xor(Below(s.crc, 1), poly) ELSE Below(s.crc, 1),
                   v |-> Below(s.v, 1)]
        Step(r, b) == Repeat(One, 8, [crc |-> r, v |-> b]).crc
    IN  Loop(Step, msg, crc)

CRC_16_CCITT(msg, crc) ==
    LET Step(r, b) ==
          LET r1 == Xor(Below(r, 8) \cup Above(r, 8, 16), b)
              r2 == Xor(r1, Below(Low(r1, 8), 4))
              r3 == Xor(r2, Above(Above(r2, 8, 16), 4, 16))
          IN  Xor(r3, Above(Low(r3, 8), 5, 16))
    IN  Loop(Step, msg, crc)

CRC_16(poly, msg, crc) ==
    LET Step(r, b) == Repeat(LAMBDA x : Up(x, poly, 16), 8, Xor(r, Above(b, 8, 16))) IN Loop(Step, msg, crc)

CRC_32(poly, msg, crc) ==
    LET Step(r, b) == Xor(Below(r, 8), Repeat(LAMBDA x : Down(x, poly), 8, Xor(b, Low(r, 8))))
    IN  Loop(Step, msg, crc)

crc16_table == <<
    0, 49345, 49537, 320, 49921, 960, 640, 49729, 50689, 1728, 1920, 51009, 1280, 50625,
    50305, 1088, 52225, 3264, 3456, 52545, 3840, 53185, 52865, 3648, 2560, 51905, 52097, 2880,
    51457, 2496, 2176, 51265, 55297, 6336, 6528, 55617, 6912, 56257, 55937, 6720, 7680, 57025,
    57217, 8000, 56577, 7616, 7296, 56385, 5120, 54465, 54657, 5440, 55041, 6080, 5760, 54849,
    53761, 4800, 4992, 54081, 4352, 53697, 53377, 4160, 61441, 12480, 12672, 61761, 13056, 62401,
    62081, 12864, 13824, 63169, 63361, 14144, 62721, 13760, 13440, 62529, 15360, 64705, 64897, 15680,
    65281, 16320, 16000, 65089, 64001, 15040, 15232, 64321, 14592, 63937, 63617, 14400, 10240, 59585,
    59777, 10560, 60161, 11200, 10880, 59969, 60929, 11968, 12160, 61249, 11520, 60865, 60545, 11328,
    58369, 9408, 9600, 58689, 9984, 59329, 59009, 9792, 8704, 58049, 58241, 9024, 57601, 8640,
    8320, 57409, 40961, 24768, 24960, 41281, 25344, 41921, 41601, 25152, 26112, 42689, 42881, 26432,
    42241, 26048, 25728, 42049, 27648, 44225, 44417, 27968, 44801, 28608, 28288, 44609, 43521, 27328,
    27520, 43841, 26880, 43457, 43137, 26688, 30720, 47297, 47489, 31040, 47873, 31680, 31360, 47681,
    48641, 32448, 32640, 48961, 32000, 48577, 48257, 31808, 46081, 29888, 30080, 46401, 30464, 47041,
    46721, 30272, 29184, 45761, 45953, 29504, 45313, 29120, 28800, 45121, 20480, 37057, 37249, 20800,
    37633, 21440, 21120, 37441, 38401, 22208, 22400, 38721, 21760, 38337, 38017, 21568, 39937, 23744,
    23936, 40257, 24320, 40897, 40577, 24128, 23040, 39617, 39809, 23360, 39169, 22976, 22656, 38977,
    34817, 18624, 18816, 35137, 19200, 35777, 35457, 19008, 19968, 36545, 36737, 20288, 36097, 19904,
    19584, 35905, 17408, 33985, 34177, 17728, 34561, 18368, 18048, 34369, 33281, 17088, 17280, 33601,
    16640, 33217, 32897, 16448>>

CRC_16_IBM(msg, crc) ==
    LET Step(r, b) ==
          LET x == Low(Xor(r, b), 8)
          IN  Xor(Below(r, 8), BitsOf(crc16_table[16 * Index(x, 4) + Index(x, 0) + 1]))
    IN  Loop(Step, msg, crc)

-----------------------------------------------------------------------------
(* What they compute                                                       *)

\* The remainder of a polynomial, given by its exponents, that is below x^top,
\* divided by x^w + poly: long division.
Remainder(p, top, poly, w) ==
    LET Step(r, i) == LET e == top - i
                      IN  IF e \in r THEN Xor(r, {e} \cup {j + e - w : j \in poly}) ELSE r
    IN  FoldLeft(Step, p, [i \in 1 .. top - w |-> i])

\* The message as polynomial with its first bit at x^(n-1), n bits in all.
Polynomial(msg, firstbit(_, _)) ==
    UNION {{8 * (Len(msg) - k) + firstbit(i, k) : i \in BitsOf(msg[k])} : k \in DOMAIN msg}

\* The checksum with the register preset to crc: most significant bits first.
Checksum(poly, w, msg, crc) ==
    LET n == 8 * Len(msg)
        m == Polynomial(msg, LAMBDA i, k : i)
    IN  Remainder(Xor({i + w : i \in m}, {i + n : i \in crc}), n + w, poly, w)

\* Least significant bits first: the mirror image of everything.
Mirrored(poly, w, msg, crc) ==
    LET n == 8 * Len(msg)
        m == Polynomial(msg, LAMBDA i, k : 7 - i)
    IN  Mirror(Remainder(Xor({i + w : i \in m}, {i + n : i \in Mirror(crc, w)}), n + w,
                         Mirror(poly, w), w), w)

=============================================================================
