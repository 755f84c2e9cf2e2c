---------------------------- MODULE ValueFormats ----------------------------
(***************************************************************************)
(* How values are packed into few bytes: TelemetryValuePack.h and           *)
(* TelemetryValueUnpack.h (src/xbus/telemetry), MandalaPackBase.h and       *)
(* backport/MandalaCore.cpp (src/mandala).                                  *)
(*                                                                          *)
(* A float of 32 bits is its sign (the bit), exponent and mantissa as they   *)
(* are stored; one of 16 bits is its sign and the other 15 bits.  Where only *)
(* products and quotients are taken, a real number is an integer, in grains  *)
(* of 1 / Grains, and the rounding of the float arithmetic is an error of at *)
(* most one grain that is a parameter, so that whatever holds for every      *)
(* error holds for every way to round.                                      *)
(***************************************************************************)
EXTENDS Integers, Sequences

-----------------------------------------------------------------------------
(* Floats of 16 bits                                                       *)

Half(s, v) == [s |-> s, v |-> v]
Float(s, e, m) == [s |-> s, e |-> e, m |-> m]

Infinite == 31 * 1024         \* 0x7C00
NaN      == Half(1, 32256)    \* 0xFE00

IsNaN(f) == f.e = 255 /\ f.m # 0

\* A mantissa that is shifted by n bits, to the nearest number, halves up.
BadShifted(m, n) == m \div 2^n    \* cut off
Shifted(m, n) == (m \div 2^n) + ((m \div 2^(n - 1)) % 2)

\* The bits of a number behind the sign.  In the last two cases the sum may carry
\* into the exponent: this is the next number, in the end infinity.
Packed16(f) ==
    LET hes == f.e - 127 + 15
    IN  CASE f.e = 0               -> 0
          [] f.e = 255             -> Infinite
          [] f.e \in 1 .. 254 /\ hes >= 31 -> Infinite
          [] f.e \in 1 .. 254 /\ hes <= 0 ->
               IF 14 - hes > 24 THEN 0 ELSE Shifted(f.m + 2^23, 14 - hes)
          [] f.e \in 1 .. 254 /\ hes \in 1 .. 30 -> 1024 * hes + Shifted(f.m, 13)

\* float_to_f16(): a NaN is sent as zero, and so are both zeros.
float_to_f16(f) == IF IsNaN(f) \/ (f.e = 0 /\ f.m = 0) THEN Half(0, 0) ELSE Half(f.s, Packed16(f))

\* MandalaCore::pack_float_f2: a NaN is sent as one, and zeros keep their sign.
pack_float_f2(f) == IF IsNaN(f) THEN NaN ELSE Half(f.s, Packed16(f))

\* The leading one of a mantissa of 10 bits, and the loop that looks for it.
Leading(m) == CHOOSE i \in 0 .. 9 : 2^i <= m /\ m < 2^(i + 1)

Unpacked16(h) ==
    LET he == h.v \div 1024
        hm == h.v % 1024
        e  == 9 - Leading(hm)
    IN  CASE he = 0 /\ hm = 0 -> Float(h.s, 0, 0)
          [] he = 0 /\ hm # 0 -> Float(h.s, 127 - 15 - e, ((hm * 2^(e + 1)) % 1024) * 2^13)
          [] he = 31 /\ hm = 0 -> Float(h.s, 255, 0)
          [] he = 31 /\ hm # 0 -> Float(1, 255, 2^22)
          [] OTHER            -> Float(h.s, he - 15 + 127, hm * 2^13)

\* float_from_f16(): a NaN is read as zero.
float_from_f16(h) == IF IsNaN(Unpacked16(h)) THEN Float(0, 0, 0) ELSE Unpacked16(h)

\* MandalaCore::unpack_float_f2: f_isvalid() refuses infinity as well.
unpack_float_f2(h) == IF Unpacked16(h).e = 255 THEN Float(0, 0, 0) ELSE Unpacked16(h)

-----------------------------------------------------------------------------
(* Fixed point                                                             *)

Grains == 1000

Abs(x) == IF x < 0 THEN -x ELSE x
Trunc(a, b) == IF a < 0 THEN -((-a) \div b) ELSE a \div b     \* toward zero
BadWithin(x, lo, hi) == lo + ((x - lo) % (hi - lo + 1))       \* the bits that fit
Within(x, lo, hi) == IF x < lo THEN lo ELSE IF x > hi THEN hi ELSE x

\* A format: units of den / num, from lo to hi.
Fixed(num, den, lo, hi) == [num |-> num, den |-> den, lo |-> lo, hi |-> hi]
Signed(num, den)   == Fixed(num, den, -128, 127)
Unsigned(num, den) == Fixed(num, den, 0, 255)

\* fmt_s8, fmt_s8_10, ... of telemetry, fmt_u8_u, fmt_s8_u, fmt_u16_10.
TelemetryFixed ==
    {Signed(1, 1), Signed(1, 10), Signed(10, 1), Signed(100, 1), Signed(127, 1),
     Unsigned(1, 10), Unsigned(10, 1), Unsigned(100, 1), Unsigned(255, 1), Fixed(1, 10, 0, 65535)}
\* pack_float_s1 to pack_float_u100 of the backport.
CoreFixed ==
    {Signed(1, 1), Signed(10, 1), Signed(100, 1), Signed(1, 10), Unsigned(1, 1), Unsigned(10, 1),
     Unsigned(100, 1), Unsigned(1, 10), Unsigned(1, 100)}

\* The product with num is rounded; a value that is cast to an integer is cut
\* first and divided afterwards.
Product(x, fmt, err) == IF fmt.num = 1 THEN x ELSE x * fmt.num + err

pack_value(x, fmt, err) ==
    Within(Trunc(Trunc(Product(x, fmt, err), Grains), fmt.den), fmt.lo, fmt.hi)

\* The backport divides as float and compares before it cuts.  What becomes of a
\* negative number that has no sign in its format is left to the machine: zero, or
\* the byte that remains (any).
pack_float(x, fmt, err, any) ==
    LET p == Product(x, fmt, err)
    IN  IF fmt.lo = 0 /\ p <= -(Grains * fmt.den) THEN any
        ELSE IF p > fmt.hi * Grains * fmt.den THEN fmt.hi
        ELSE IF p < fmt.lo * Grains * fmt.den THEN fmt.lo
        ELSE Trunc(p, Grains * fmt.den)

unpack_value(k, fmt, err) ==
    IF fmt.num = 1 THEN k * fmt.den * Grains ELSE (k * Grains) \div fmt.num + err

\* Angles: a turn is 2 * span grains.  float_to_angle() takes the angle between
\* -span and span first; max is the largest number of the format.
BadTurned(x, span) == x       \* as if angles were in range
Turned(x, span) == x - ((x + span) \div (2 * span)) * (2 * span)
float_to_angle(x, span, max, err) == Trunc(Turned(x, span) * max + err, span)
float_from_angle(k, span, max, err) == Trunc(k * span, max) + err

-----------------------------------------------------------------------------
(* Whole numbers                                                           *)

LeastBytes(v, n) == [i \in 1 .. n |-> (v \div 256^(i - 1)) % 256]
FromBytes(b) == b[1] + 256 * b[2] + (IF Len(b) = 4 THEN 65536 * b[3] + 16777216 * b[4] ELSE 0)

pack_uint_u4(v) == LeastBytes(v, 4)
pack_uint_u2(v) == LeastBytes(IF v > 65535 THEN 65535 ELSE v, 2)
unpack_uint(b)  == FromBytes(b)

-----------------------------------------------------------------------------
(* Looking up the format of an id                                          *)

\* fmt_lookup: the turn of the binary search with bounds l and r, on a list of ids
\* with the index 0 for its first element, which is also the answer to unknown ids.
BadBetween(l, r) == l + (r - l) \div 2 + 1
Between(l, r) == l + (r - l) \div 2

RECURSIVE Search(_, _, _, _)
Search(uid, list, l, r) ==
    LET m == Between(l, r)
    IN  IF l > r THEN 0
        ELSE IF list[m + 1] = uid THEN m
        ELSE IF list[m + 1] < uid THEN Search(uid, list, m + 1, r)
        ELSE Search(uid, list, l, m - 1)

fmt_lookup(uid, list) == Search(uid, list, 0, Len(list) - 1)

=============================================================================
