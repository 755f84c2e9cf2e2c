----------------------------- MODULE XbusStreams -----------------------------
(***************************************************************************)
(* The bounded streams XbusStreamReader and XbusStreamWriter (src/xbus/)    *)
(* and the structures of XbusPacket.h, XbusNode.h, XbusNodeBlackbox.h,      *)
(* XbusScript.h, XbusUnit.h and TelemetryFormat.h that are written and read   *)
(* with them.                                                               *)
(*                                                                          *)
(* A writer is the bytes written so far and the size of its buffer, a       *)
(* reader is the bytes of its buffer and its position.  The text of a       *)
(* string is a sequence of character codes.  The bytes of a field of a      *)
(* structure are pairs of the field and the number of the byte, from the    *)
(* least significant one up, so that a byte in a wrong place is noticed.    *)
(***************************************************************************)
EXTENDS Integers, Sequences, SequencesExt

Least(a, b) == IF a < b THEN a ELSE b

-----------------------------------------------------------------------------
(* Writer                                                                  *)

Writer(size) == [buf |-> <<>>, size |-> size]
Room(w)      == w.size - Len(w.buf)
Written(w, bytes) == [w EXCEPT !.buf = @ \o bytes]

\* An integer of the host in memory; htoleXX and leXXtoh turn it around on a host
\* that keeps the most significant byte first.
Memory(bytes, host) == IF host = "big" THEN Reverse(bytes) ELSE bytes
LittleEndian(mem, host) == IF host = "big" /\ Len(mem) \in {2, 4, 8} THEN Reverse(mem) ELSE mem

\* write(data) of a number: all or nothing.
WriteNumber(w, mem, host) == IF Len(mem) > Room(w) THEN w ELSE Written(w, LittleEndian(mem, host))

\* write(src, sz): as much as there is room for.
WriteBytes(w, bytes) == Written(w, SubSeq(bytes, 1, Least(Len(bytes), Room(w))))

\* write_string(): refused unless a byte remains behind the terminator.
BadWriteString(w, text) ==    \* the length without the terminator
    LET sz == Least(Len(text), Room(w))
    IN  IF sz >= Room(w) THEN w ELSE Written(w, SubSeq(Append(text, 0), 1, sz))
WriteString(w, text) ==
    LET sz == Least(Len(text), Room(w)) + 1
    IN  IF sz >= Room(w) THEN w ELSE Written(w, SubSeq(Append(text, 0), 1, sz))

-----------------------------------------------------------------------------
(* Reader                                                                  *)

Reader(bytes) == [buf |-> bytes, pos |-> 0]
Available(r)  == Len(r.buf) - r.pos

\* reset(pos), which skip(), discard() and the others use.
MoveTo(r, pos) == [r EXCEPT !.pos = Least(pos, Len(r.buf))]

Taken(r, n) == SubSeq(r.buf, r.pos + 1, r.pos + n)

Zero == <<0, 0>>              \* a byte of data = {}
Kept == <<0, 1>>              \* a byte that read() has not written

Is(reader, data) == [reader |-> reader, data |-> data]

\* read(data) of a number of n bytes: zero, and the end, if they are not all there.
BadReadNumber(r, n, host) ==  \* the position stays where it is
    IF n > Available(r) THEN Is(r, [k \in 1 .. n |-> Zero])
    ELSE Is(MoveTo(r, r.pos + n), LittleEndian(Taken(r, n), host))
ReadNumber(r, n, host) ==
    IF n > Available(r) THEN Is(MoveTo(r, Len(r.buf)), [k \in 1 .. n |-> Zero])
    ELSE Is(MoveTo(r, r.pos + n), LittleEndian(Taken(r, n), host))

\* read(dest, sz): what there is, the rest of the destination stays as it was.
ReadBytes(r, n) ==
    LET sz == Least(n, Available(r))
    IN  Is(MoveTo(r, r.pos + sz), Taken(r, sz) \o [k \in 1 .. n - sz |-> Kept])

\* read_string(max_size): a text with its terminator within max_size bytes and
\* without other control characters, or nothing and the end of the buffer.
Printable(c) == c \in {9, 10, 13} \/ c \in 32 .. 126

None == <<0>>                 \* nullptr: no text contains a zero

ReadString(r, max_size) ==
    LET area == Taken(r, Least(max_size, Available(r)))
        ends == {k \in DOMAIN area : area[k] = 0 /\ \A j \in 1 .. k - 1 : Printable(area[j])}
    IN  IF ends = {} THEN Is(MoveTo(r, Len(r.buf)), None)
        ELSE LET k == CHOOSE k \in ends : TRUE
             IN  Is(MoveTo(r, r.pos + k), SubSeq(area, 1, k - 1))

\* Strings one after the other, as the owner of a packet of strings writes and
\* reads them (their lists are outside of the repository).
WriteStrings(size, texts) == FoldLeft(WriteString, Writer(size), texts).buf

RECURSIVE ReadStrings(_, _)
ReadStrings(r, max_size) ==
    LET s == ReadString(r, max_size)
    IN  IF s.data = None THEN <<>> ELSE <<s.data>> \o ReadStrings(s.reader, max_size)

\* The strings that write_string() did not refuse.
Accepted(size, texts) ==
    LET Step(s, t) == LET w == WriteString(s.w, t)
                      IN  IF w = s.w THEN s ELSE [w |-> w, list |-> Append(s.list, t)]
    IN  FoldLeft(Step, [w |-> Writer(size), list |-> <<>>], texts).list

-----------------------------------------------------------------------------
(* Structures                                                              *)

Number(n) == [kind |-> "number", size |-> n]   \* stream << and >>
Array(n)  == [kind |-> "bytes", size |-> n]    \* write(array, sizeof array) of bytes
Words(n)  == [kind |-> "words", size |-> n]    \* the same of 32 bit words

pid_s         == <<Number(2)>>
node_ident_s  == <<Number(4), Number(4), Number(4)>>
file_info_s   == <<Number(4), Number(4), Number(4), Number(4), Number(4)>>
status_s      == <<Number(1), Number(1), Number(1), Array(5), Number(1), Number(1), Array(6)>>
unit_ident_s  == <<Number(4)>>
script_hdr_s  == <<Number(4), Number(4), Array(64)>>
BlackboxHeader == <<Number(4), Number(4), Number(4), Words(12), Number(4), Number(4), Array(4), Number(4)>>

telemetry_hdr_s   == <<Number(2), Number(1)>>
format_req_s      == <<Number(1), Number(1)>>
format_resp_hdr_s == <<Number(1), Number(1), Number(1), Number(1), Number(4)>>

Structures == {pid_s, node_ident_s, file_info_s, status_s, unit_ident_s, script_hdr_s, BlackboxHeader,
               telemetry_hdr_s, format_req_s, format_resp_hdr_s}

Content(st, i) == [k \in 1 .. st[i].size |-> <<i, k>>]

\* The content of a field in the memory of a host, and back again.
InMemory(field, bytes, host) ==
    CASE field.kind = "number" -> Memory(bytes, host)
      [] field.kind = "bytes"  -> bytes
      [] field.kind = "words"  ->
           FlattenSeq([j \in 1 .. field.size \div 4 |-> Memory(SubSeq(bytes, 4 * j - 3, 4 * j), host)])

WriteStructure(st, size, host) ==
    LET Step(w, i) ==
          LET mem == InMemory(st[i], Content(st, i), host)
          IN  IF st[i].kind = "number" THEN WriteNumber(w, mem, host) ELSE WriteBytes(w, mem)
    IN  FoldLeft(Step, Writer(size), [i \in DOMAIN st |-> i]).buf

\* The fields that read() fills, one after the other.
ReadStructure(st, bytes, host) ==
    LET Step(s, i) ==
          LET n == st[i].size
              got == IF st[i].kind = "number" THEN ReadNumber(s.reader, n, host) ELSE ReadBytes(s.reader, n)
          IN  Is(got.reader, Append(s.data, InMemory(st[i], got.data, host)))
    IN  FoldLeft(Step, Is(Reader(bytes), <<>>), [i \in DOMAIN st |-> i]).data

Total(st) == FoldLeft(LAMBDA sum, field : sum + field.size, 0, st)

=============================================================================
