----------------------------- MODULE MandalaVars -----------------------------
(***************************************************************************)
(* The variables of the backported Mandala (src/mandala/backport): the table *)
(* of MandalaTemplate.h, how the bytes of a variable are laid out, and the    *)
(* packets that set a single component of a variable (MandalaCore.cpp).      *)
(*                                                                          *)
(* A number is a whole number or Invalid, which stands for NaN and infinity;  *)
(* the variables with bits are the set of their ones.                        *)
(***************************************************************************)
EXTENDS ValueFormats, SequencesExt, FiniteSets

-----------------------------------------------------------------------------
(* The table                                                               *)

\* How many variables in a row have a type, a format and a compact format: attitude,
\* controls, commands and sensors; then modes, mission and payload.
SensorVariables ==
    <<<<1, "vect", "f2", "f2">>, <<1, "vect", "f2", "s1">>, <<1, "vect", "f2", "s10">>,
      <<1, "vect", "f2", "s001">>, <<1, "float", "f4", "f4">>, <<3, "float", "f2", "f2">>,
      <<1, "uint", "u2", "u2">>, <<1, "float", "f2", "f2">>, <<2, "float", "f2", "s01">>,
      <<3, "float", "f2", "f2">>, <<2, "float", "f2", "s001">>, <<1, "float", "f2", "u001">>,
      <<3, "float", "f2", "s001">>, <<1, "float", "f2", "u001">>, <<1, "float", "u001", "u001">>,
      <<3, "float", "f2", "u001">>, <<2, "float", "f2", "s001">>, <<1, "flag", "u1", "u1">>,
      <<2, "float", "f2", "u001">>, <<1, "vect", "f2", "f2">>, <<1, "point", "f2", "f2">>,
      <<1, "float", "f2", "f2">>, <<1, "uint", "u2", "u2">>, <<2, "float", "f2", "f2">>,
      <<1, "float", "f2", "s01">>, <<1, "float", "f2", "s1">>, <<1, "vect", "f4", "f4">>,
      <<1, "vect", "f2", "f2">>, <<1, "uint", "u4", "u4">>, <<2, "float", "f4", "f2">>,
      <<1, "float", "u001", "u001">>, <<4, "float", "f2", "f2">>, <<1, "float", "u001", "u001">>,
      <<2, "float", "u01", "u01">>, <<1, "float", "u1", "u1">>, <<3, "float", "s1", "s1">>,
      <<1, "float", "u1", "u1">>, <<1, "float", "u10", "u10">>, <<1, "float", "u1", "u1">>,
      <<1, "float", "u01", "u01">>, <<1, "flag", "u1", "u1">>, <<1, "point", "u001", "u001">>,
      <<2, "float", "f2", "f2">>, <<1, "point", "f2", "f2">>, <<1, "vect", "f4", "f4">>,
      <<1, "vect", "f2", "f2">>, <<2, "float", "f2", "f2">>, <<2, "vect", "f2", "f2">>>>

StateVariables ==
    <<<<1, "byte", "u1", "u1">>, <<1, "enum", "u1", "u1">>, <<6, "flag", "u1", "u1">>,
      <<4, "byte", "u1", "u1">>, <<1, "enum", "u1", "u1">>, <<3, "float", "f2", "f2">>,
      <<1, "byte", "u1", "u1">>, <<1, "uint", "u4", "u4">>, <<1, "enum", "u1", "u1">>,
      <<1, "float", "f2", "u01">>, <<1, "float", "f2", "f2">>, <<1, "float", "f2", "u001">>,
      <<1, "float", "s1", "s1">>, <<3, "byte", "u1", "u1">>, <<1, "enum", "u1", "u1">>,
      <<1, "vect", "f4", "f4">>, <<1, "float", "f4", "f4">>, <<1, "byte", "u1", "u1">>,
      <<1, "float", "f2", "u001">>, <<1, "vect", "f4", "f2">>, <<1, "point", "f4", "f2">>,
      <<2, "flag", "u1", "u1">>, <<6, "float", "f4", "f2">>, <<1, "vect", "f2", "f2">>,
      <<2, "float", "f2", "f2">>, <<1, "vect", "f2", "f2">>, <<5, "float", "f2", "f2">>>>

Template == SensorVariables \o StateVariables

Variables ==
    FlattenSeq([r \in DOMAIN Template |->
        [k \in 1 .. Template[r][1] |->
            [type |-> Template[r][2], full |-> Template[r][3], ext |-> Template[r][4]]]])

Components(type) == CASE type = "vect" -> 3 [] type = "point" -> 2 [] OTHER -> 1

BytesOf(format) ==
    CASE format \in {"f4", "u4"} -> 4
      [] format \in {"f2", "u2"} -> 2
      [] OTHER -> 1

VarSize(var, format) == Components(var.type) * BytesOf(format)

\* The members of Mandala that have to hold them: dl_snapshot and dl_var have these
\* sizes, dl_reset_mask is computed from the number of variables.
SnapshotBytes == 1024
VarBytes      == 12
MaskBytes(n)  == (n \div 8) + (IF n % 4 # 0 THEN 1 ELSE 0)

-----------------------------------------------------------------------------
(* pack_vect, pack_point and unpack_...: the components one after the other *)

\* n bytes from each component, written at a pointer that goes on.
BadForward(n) == 1            \* as for formats of one byte
Forward(n) == n

PackEach(bytes, n) ==
    FoldLeft(LAMBDA s, b : [buf |-> [k \in 1 .. Len(bytes) * n |->
                                        IF k - s.at \in 1 .. n THEN b[k - s.at] ELSE s.buf[k]],
                            at |-> s.at + Forward(n)],
             [buf |-> [k \in 1 .. Len(bytes) * n |-> <<>>], at |-> 0], bytes).buf

UnpackEach(buf, count, n) == [i \in 1 .. count |-> SubSeq(buf, (i - 1) * Forward(n) + 1, (i - 1) * Forward(n) + n)]

-----------------------------------------------------------------------------
(* get_data, set_data, pack_set and unpack_set                              *)

Invalid == -1                 \* the other numbers here are not negative

\* A whole number as a float: 24 bits, to the nearest, halves to the even one.
AsFloat(v) ==
    LET unit  == 2^(CHOOSE k \in 0 .. 7 : v \div 2^k < 2^24 /\ (k = 0 \/ v \div 2^(k - 1) >= 2^24))
        q     == v \div unit
        twice == 2 * (v % unit)
    IN  unit * (IF twice > unit \/ (twice = unit /\ q % 2 = 1) THEN q + 1 ELSE q)

\* Component m of a vector, or the bits m of a flag: any of them.  (Without a mask a
\* flag is like a byte.)
get_data(type, var, m) ==
    CASE type \in {"float", "byte", "enum"} -> var
      [] type \in {"vect", "point"} -> var[m]
      [] type = "uint" -> AsFloat(var)
      [] type = "flag" -> IF var \cap m # {} THEN 1 ELSE 0

BadMasked(var, m, x) == IF x = 0 THEN {} ELSE m       \* the other bits are lost
Masked(var, m, x) == IF x = 0 THEN var \ m ELSE var \cup m

set_data(type, var, m, x) ==
    CASE type \in {"vect", "point"} -> [var EXCEPT ![m] = x]
      [] type = "flag" -> Masked(var, m, x)
      [] OTHER -> x

\* The number in the packet is a float of four bytes.
pack_set(type, var, m) == get_data(type, var, m)
unpack_set(type, var, m, x, cnt) ==
    IF cnt # 6 THEN var ELSE set_data(type, var, m, IF x = Invalid THEN 0 ELSE x)

=============================================================================
