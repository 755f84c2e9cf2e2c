------------------------- MODULE TelemetryLinkProofs -------------------------
(***************************************************************************)
(* Proofs about the table of a telemetry decoder, for any set of tables     *)
(* and any carrier: that it is one of the encoder's, and for how long it may *)
(* be out of date.                                                          *)
(***************************************************************************)
EXTENDS TelemetryLink, NumberLemmas, SequenceTheorems

-----------------------------------------------------------------------------
(* The invariant                                                           *)

\* What the carrier may hold is what encoders of any table have sent.
Messages ==
    {ValuesMessage(t, n, k) : t \in Tables, n \in 0 .. 3, k \in Kinds \cup {"none"}}
        \cup {FormatMessage(t, p) : t \in Tables, p \in Nat}

\* A decoder; if it has a table, its hash is that of the bytes of the table.
DecoderType(F) == [fields : F, slots_cnt : Nat, hash : [1 .. 4 -> 0 .. 255],
                   hash_valid : 0 .. 4, valid : BOOLEAN]
IsDecoder(d) ==
    /\ d \in DecoderType({d.fields})
    /\ DOMAIN d.fields = 1 .. fields_size
    /\ d.slots_cnt * field_size <= fields_size
Matches(d) == d.slots_cnt > 0 => d.hash_valid = 4 /\ Hash(Loaded(d)) = d.hash

IInv ==
    /\ table \in Tables /\ pseq \in 0 .. 3
    /\ net \in Seq(Messages) /\ Len(net) <= NetSize
    /\ IsDecoder(dec) /\ Matches(dec)
    /\ ask \in 0 .. MaxParts - 1

\* Only tables have hashes of four bytes.
LEMMA HashOfTable ==
  ASSUME NEW bytes, Hash(bytes) \in [1 .. 4 -> 0 .. 255]
  PROVE  \E t \in Tables : Bytes(t) = bytes /\ HashOf[t] = Hash(bytes)
<1>1. OtherHash[1] = 256  BY DEF OtherHash
<1>2. OtherHash \notin [1 .. 4 -> 0 .. 255]  BY <1>1
<1>3. PICK t \in Tables : Bytes(t) = bytes  BY <1>2 DEF Hash
<1> QED  BY <1>3 DEF Hash

\* The hash and the count of its bytes are replaced, the rest of d is kept.
WithHash(d, hash, n) == [d EXCEPT !.hash = hash, !.hash_valid = n]
HasHash(F, d, hash, n, e) ==
    /\ e \in DecoderType(F)
    /\ e.fields = d.fields /\ e.slots_cnt = d.slots_cnt /\ e.valid = d.valid
    /\ e.hash = hash /\ e.hash_valid = n

\* The members of a decoder whose hash is replaced.
LEMMA HashRecord ==
  ASSUME NEW F, NEW d \in DecoderType(F), NEW hash \in [1 .. 4 -> 0 .. 255], NEW n \in 0 .. 4
  PROVE  HasHash(F, d, hash, n, WithHash(d, hash, n))
BY DEF DecoderType, WithHash, HasHash

\* A table that is dropped leaves a decoder that matches anything.
LEMMA ResetDecoder ==
  ASSUME NEW d, IsDecoder(d)
  PROVE  /\ IsDecoder(Reset(d)) /\ Matches(Reset(d)) /\ Reset(d).slots_cnt = 0
         /\ Reset(d).hash = NoHash /\ Reset(d).hash_valid = 0
         /\ IsDecoder(ResetTable(d)) /\ Matches(ResetTable(d)) /\ ResetTable(d).slots_cnt = 0
<1> DEFINE F == {d.fields}
<1>1. NoHash \in [1 .. 4 -> 0 .. 255]  BY DEF NoHash
<1>2. 0 * field_size <= fields_size  BY LinkAssumption
<1>3. d \in DecoderType(F) /\ DOMAIN d.fields = 1 .. fields_size  BY DEF IsDecoder
<1>4. /\ ResetTable(d) \in DecoderType(F)
      /\ ResetTable(d).fields = d.fields /\ ResetTable(d).slots_cnt = 0
  BY <1>3 DEF ResetTable, DecoderType
<1>5. /\ Reset(d) \in DecoderType(F)
      /\ Reset(d).fields = d.fields /\ Reset(d).slots_cnt = 0
      /\ Reset(d).hash = NoHash /\ Reset(d).hash_valid = 0
  <2> DEFINE r == ResetTable(d)
  <2>1. Reset(d) = WithHash(r, NoHash, 0)  BY DEF Reset, WithHash
  <2> HIDE DEF r, F
  <2>2. r \in DecoderType(F)  BY <1>4 DEF r
  <2>3. 0 \in 0 .. 4  OBVIOUS
  <2>4. HasHash(F, r, NoHash, 0, WithHash(r, NoHash, 0))
    BY <1>1, <2>2, <2>3, HashRecord, Zenon
  <2> QED  BY <1>4, <2>1, <2>4 DEF r, HasHash
<1> QED  BY <1>2, <1>3, <1>4, <1>5 DEF Matches, IsDecoder

\* Decoders with the same members are the same.
LEMMA SameDecoder ==
  ASSUME NEW F, NEW d \in DecoderType(F), NEW e \in DecoderType(F),
         d.fields = e.fields, d.slots_cnt = e.slots_cnt, d.hash = e.hash,
         d.hash_valid = e.hash_valid, d.valid = e.valid
  PROVE  d = e
BY DEF DecoderType

\* A table that survives the check of the hash feed has the byte that was sent.
LEMMA FeedDecoder ==
  ASSUME NEW d, IsDecoder(d), Matches(d),
         NEW m, m.seq \in 0 .. 3, m.feed_hash \in 0 .. 255
  PROVE  /\ IsDecoder(Feed(d, m)) /\ Matches(Feed(d, m))
         /\ Feed(d, m).slots_cnt > 0 =>
                Feed(d, m) = d /\ d.hash[m.seq + 1] = m.feed_hash
<1> DEFINE i    == m.seq + 1
           same == d.hash[i] = m.feed_hash
           kept == IF ~same /\ (d.hash_valid > 0 \/ d.hash[i] # 0) THEN Reset(d) ELSE d
           n    == IF same /\ kept.hash_valid = 4 THEN kept.hash_valid ELSE kept.hash_valid + 1
           fed  == [kept EXCEPT !.hash[i] = m.feed_hash, !.hash_valid = n]
<1>1. Feed(d, m) = IF fed.hash_valid > 4 THEN Reset(fed) ELSE fed  BY DEF Feed
<1>2. i \in 1 .. 4  OBVIOUS
<1>3. IsDecoder(kept) /\ (kept = d \/ (kept.slots_cnt = 0 /\ ~same))  BY ResetDecoder
<1>4. n \in 0 .. 4
  <2>1. ~same => kept.hash_valid = 0  BY ResetDecoder DEF IsDecoder, DecoderType
  <2>2. kept.hash_valid \in 0 .. 4  BY <1>3 DEF IsDecoder, DecoderType
  <2> HIDE DEF kept, same
  <2> QED  BY <2>1, <2>2
<1> HIDE DEF n
<1>5. /\ fed \in DecoderType({kept.fields})
      /\ fed.fields = kept.fields /\ fed.slots_cnt = kept.slots_cnt /\ fed.valid = kept.valid
      /\ fed.hash = [kept.hash EXCEPT ![i] = m.feed_hash] /\ fed.hash_valid = n
  <2> DEFINE hash == [kept.hash EXCEPT ![i] = m.feed_hash]
             F    == {kept.fields}
  <2>1. kept \in DecoderType(F)  BY <1>3 DEF IsDecoder
  <2>2. fed = WithHash(kept, hash, n)  BY DEF WithHash
  <2> HIDE DEF kept, i, fed, F
  <2>3. hash \in [1 .. 4 -> 0 .. 255]  BY <1>2, <2>1 DEF DecoderType
  <2> HIDE DEF hash
  <2>4. HasHash(F, kept, hash, n, WithHash(kept, hash, n))
    BY <1>4, <2>1, <2>3, HashRecord, Zenon
  <2> QED  BY <2>2, <2>4 DEF hash, F, HasHash
<1> HIDE DEF fed, kept
<1>6. IsDecoder(fed)  BY <1>3, <1>5 DEF IsDecoder
<1>7. Feed(d, m) = fed  BY <1>1, <1>4, <1>5
<1>8. ASSUME fed.slots_cnt > 0 PROVE fed = d /\ same /\ d.hash_valid = 4
  <2>1. kept = d /\ d.hash_valid = 4
    BY <1>3, <1>5, <1>8 DEF Matches, IsDecoder, DecoderType
  <2>2. same
    <3>1. ~same => Reset(d).slots_cnt > 0  BY <1>5, <1>8, <2>1 DEF kept
    <3> QED  BY <3>1, ResetDecoder
  <2>3. n = 4  BY <2>1, <2>2 DEF n
  <2>4. fed.hash = d.hash  BY <1>2, <1>5, <2>1, <2>2 DEF IsDecoder, DecoderType
  <2> QED  BY <1>3, <1>5, <2>1, <2>2, <2>3, <2>4, SameDecoder DEF IsDecoder
<1> QED  BY <1>6, <1>7, <1>8 DEF Matches

\* The number of fields is set, the rest of d is kept.
WithTable(d, n) == [d EXCEPT !.slots_cnt = n, !.valid = TRUE]
HasTable(F, d, n, e) ==
    /\ e \in DecoderType(F)
    /\ e.fields = d.fields /\ e.slots_cnt = n
    /\ e.hash = d.hash /\ e.hash_valid = d.hash_valid

\* The members of a decoder that has got a table.
LEMMA TableRecord ==
  ASSUME NEW F, NEW d \in DecoderType(F), NEW n \in Nat
  PROVE  HasTable(F, d, n, WithTable(d, n))
BY DEF DecoderType, WithTable, HasTable

\* Bytes that are checked become the table.
LEMMA LoadDecoder ==
  ASSUME NEW d, IsDecoder(d), NEW sz \in 0 .. fields_size, sz % field_size = 0, CheckHash(d, sz)
  PROVE  IsDecoder(Load(d, sz)) /\ Matches(Load(d, sz))
<1> DEFINE n == sz \div field_size
           F == {d.fields}
<1>1. n \in Nat /\ n * field_size = sz
  <2>1. sz \in Nat /\ field_size \in Nat \ {0}  BY LinkAssumption
  <2> QED  BY <2>1, Divisible, Zenon
<1>2. d \in DecoderType(F) /\ DOMAIN d.fields = 1 .. fields_size  BY DEF IsDecoder
<1> HIDE DEF n, F
<1>3. Load(d, sz) = WithTable(d, n)  BY DEF Load, WithTable, n
<1>4. HasTable(F, d, n, WithTable(d, n))  BY <1>1, <1>2, TableRecord, Zenon
<1>5. IsDecoder(Load(d, sz))  BY <1>1, <1>2, <1>3, <1>4 DEF IsDecoder, HasTable, F
<1>6. Loaded(Load(d, sz)) = SubSeq(d.fields, 1, sz)  BY <1>1, <1>3, <1>4 DEF Loaded, HasTable
<1> QED  BY <1>3, <1>4, <1>5, <1>6 DEF Matches, CheckHash, HasTable

\* Values do not change the table, but they may make the decoder drop it.
LEMMA ValuesDecoder ==
  ASSUME NEW d, IsDecoder(d), Matches(d), NEW m, NEW e \in Values(d, m)
  PROVE  /\ IsDecoder(e) /\ Matches(e)
         /\ e.slots_cnt > 0 => /\ d.slots_cnt > 0
                               /\ Loaded(e) = Loaded(d) /\ e.hash = d.hash
<1>1. d \in DecoderType({d.fields}) /\ DOMAIN d.fields = 1 .. fields_size  BY DEF IsDecoder
<1>2. ASSUME NEW x \in BOOLEAN
      PROVE  /\ IsDecoder([d EXCEPT !.valid = x])
             /\ [d EXCEPT !.valid = x].slots_cnt = d.slots_cnt
             /\ [d EXCEPT !.valid = x].fields = d.fields
             /\ [d EXCEPT !.valid = x].hash = d.hash
             /\ [d EXCEPT !.valid = x].hash_valid = d.hash_valid
  BY <1>1 DEF IsDecoder, DecoderType
<1>3. (\E x \in BOOLEAN : e = [d EXCEPT !.valid = x])
         \/ \E x \in BOOLEAN : e = Reset([d EXCEPT !.valid = x])
  BY DEF Values
<1>4. CASE \E x \in BOOLEAN : e = [d EXCEPT !.valid = x]
  BY <1>2, <1>4 DEF Matches, Loaded
<1>5. CASE \E x \in BOOLEAN : e = Reset([d EXCEPT !.valid = x])
  <2>1. PICK x \in BOOLEAN : e = Reset([d EXCEPT !.valid = x])  BY <1>5
  <2>2. IsDecoder([d EXCEPT !.valid = x])  BY <1>2
  <2> DEFINE r == [d EXCEPT !.valid = x]
  <2> HIDE DEF r
  <2>3. e = Reset(r) /\ IsDecoder(r)  BY <2>1, <2>2 DEF r
  <2> QED  BY <2>3, ResetDecoder
<1> QED  BY <1>3, <1>4, <1>5

\* A table in use is checked again when a block was written.
LEMMA RecheckDecoder ==
  ASSUME NEW w, IsDecoder(w)
  PROVE  IsDecoder(Recheck(w).dec) /\ Matches(Recheck(w).dec)
<1> DEFINE sz == w.slots_cnt * field_size
<1>1. w.slots_cnt \in Nat /\ sz \in 0 .. fields_size
  <2>1. w.slots_cnt \in Nat /\ sz <= fields_size  BY DEF IsDecoder, DecoderType
  <2>2. sz \in Nat  BY <2>1, LinkAssumption
  <2> QED  BY <2>1, <2>2, LinkAssumption
<1>2. sz % field_size = 0  BY <1>1, Multiple, LinkAssumption
<1>3. CASE w.slots_cnt = 0  BY <1>3 DEF Recheck, Good, Matches
<1>4. CASE w.slots_cnt # 0 /\ CheckHash(w, sz)
  <2>1. IsDecoder(Load(w, sz)) /\ Matches(Load(w, sz))  BY <1>1, <1>2, <1>4, LoadDecoder
  <2> QED  BY <1>4, <2>1 DEF Recheck, Good
<1>5. CASE w.slots_cnt # 0 /\ ~CheckHash(w, sz)
  BY <1>5, ResetDecoder DEF Recheck, Good
<1> QED  BY <1>3, <1>4, <1>5

\* The bytes are replaced, the rest of d is kept.
WithFields(d, g) == [d EXCEPT !.fields = g]

\* A block leaves a decoder, of which it is not known whether it matches.
LEMMA WriteDecoder ==
  ASSUME NEW d, IsDecoder(d), NEW g, DOMAIN g = 1 .. fields_size
  PROVE  IsDecoder(WithFields(d, g))
<1> DEFINE F == {d.fields}
           G == {g}
<1>1. d \in DecoderType(F) /\ d.slots_cnt * field_size <= fields_size  BY DEF IsDecoder
<1>2. g \in G  OBVIOUS
<1> HIDE DEF F, G
<1>3. /\ WithFields(d, g) \in DecoderType(G)
      /\ WithFields(d, g).fields = g /\ WithFields(d, g).slots_cnt = d.slots_cnt
  BY <1>1, <1>2 DEF WithFields, DecoderType
<1> QED  BY <1>1, <1>3 DEF IsDecoder, G

\* The first block replaces the hash, and drops the table if that is another one.
LEMMA BeginDecoder ==
  ASSUME NEW d, IsDecoder(d), Matches(d), NEW m, m.hash \in [1 .. 4 -> 0 .. 255]
  PROVE  IsDecoder(Begin(d, m)) /\ Matches(Begin(d, m))
<1>1. CASE m.part > 0  BY <1>1 DEF Begin
<1>2. CASE ~(m.part > 0)
  <2> DEFINE b == IF m.hash # d.hash THEN Reset(d) ELSE d
             F == {b.fields}
             hash == m.hash
  <2>1. Begin(d, m) = WithHash(b, hash, 4)  BY <1>2 DEF Begin, WithHash
  <2>2. IsDecoder(b) /\ Matches(b) /\ (b.slots_cnt = 0 \/ b.hash = hash)
    <3>1. CASE m.hash = d.hash  BY <3>1
    <3>2. CASE m.hash # d.hash  BY <3>2, ResetDecoder
    <3> QED  BY <3>1, <3>2
  <2>3. b \in DecoderType(F)  BY <2>2 DEF IsDecoder
  <2>4. 4 \in 0 .. 4 /\ hash \in [1 .. 4 -> 0 .. 255]  OBVIOUS
  <2> HIDE DEF b, F, hash
  <2>5. HasHash(F, b, hash, 4, WithHash(b, hash, 4))  BY <2>3, <2>4, HashRecord, Zenon
  <2>6. IsDecoder(Begin(d, m))  BY <2>1, <2>2, <2>5 DEF HasHash, IsDecoder, F
  <2>7. b.slots_cnt \in Nat  BY <2>3 DEF DecoderType
  <2> QED  BY <2>1, <2>2, <2>5, <2>6, <2>7 DEF HasHash, Matches, Loaded
<1> QED  BY <1>1, <1>2

\* Every block leaves a table that matches, or none.
LEMMA FormatDecoder ==
  ASSUME NEW d, IsDecoder(d), Matches(d),
         NEW m, m.hash \in [1 .. 4 -> 0 .. 255], m.part \in Nat, Len(m.data) \in Nat
  PROVE  IsDecoder(Format(d, m).dec) /\ Matches(Format(d, m).dec)
<1> DEFINE begin == Begin(d, m)
           pos   == m.part * block_size
           sz    == Len(m.data)
           final == m.part + 1 = m.pcnt \/ (m.part = 0 /\ m.pcnt = 0)
           g     == [i \in DOMAIN begin.fields |->
                      IF pos < i /\ i <= pos + sz THEN m.data[i - pos] ELSE begin.fields[i]]
           w     == [begin EXCEPT !.fields = g]
           bad   == \/ m.part > 0 /\ m.hash # d.hash
                    \/ final /\ sz > block_size
                    \/ ~final /\ sz # block_size
                    \/ pos + sz > fields_size
<1>1. Format(d, m) = IF bad THEN Error(begin)
                     ELSE IF final /\ (pos + sz) % field_size # 0 THEN Error(w)
                     ELSE IF final /\ CheckHash(w, pos + sz) THEN Good(Load(w, pos + sz))
                     ELSE Recheck(w)
  BY DEF Format
<1>2. IsDecoder(begin) /\ Matches(begin)  BY BeginDecoder
<1>3. DOMAIN g = 1 .. fields_size  BY <1>2 DEF IsDecoder
<1>4. w = WithFields(begin, g)  BY DEF WithFields
<1>5. pos + sz \in Nat
  <2>1. m.part \in Nat /\ block_size \in Nat /\ sz \in Nat  BY LinkAssumption
  <2>2. pos \in Nat  BY <2>1
  <2> HIDE DEF pos, sz
  <2> QED  BY <2>1, <2>2
<1> HIDE DEF begin, g, w, pos, sz, final
<1>6. IsDecoder(w)  BY <1>2, <1>3, <1>4, WriteDecoder
<1>7. CASE bad  BY <1>1, <1>2, <1>7, ResetDecoder DEF Error
<1>8. CASE ~bad /\ final /\ (pos + sz) % field_size # 0
  BY <1>1, <1>6, <1>8, ResetDecoder DEF Error
<1>9. CASE ~bad /\ final /\ (pos + sz) % field_size = 0 /\ CheckHash(w, pos + sz)
  <2>1. pos + sz \in 0 .. fields_size  BY <1>5, <1>9, LinkAssumption
  <2>2. IsDecoder(Load(w, pos + sz)) /\ Matches(Load(w, pos + sz))
    BY <1>6, <1>9, <2>1, LoadDecoder
  <2> QED  BY <1>1, <1>9, <2>2 DEF Good
<1>10. CASE ~bad /\ ~(final /\ (pos + sz) % field_size # 0) /\ ~(final /\ CheckHash(w, pos + sz))
  BY <1>1, <1>6, <1>10, RecheckDecoder
<1> QED  BY <1>7, <1>8, <1>9, <1>10

-----------------------------------------------------------------------------
(* The carrier                                                             *)

\* No table has more blocks than the array of the decoder.
LEMMA PartsBound ==
  ASSUME NEW t \in Tables
  PROVE  Parts(t) \in Nat /\ Parts(t) <= MaxParts
<1> DEFINE a == Len(t) * field_size + block_size - 1
           c == fields_size + block_size - 1
<1>1. Len(t) \in Nat /\ Len(t) * field_size <= fields_size  BY LinkAssumption
<1>2. Len(t) * field_size \in Nat  BY <1>1, LinkAssumption
<1>3. a \in Nat /\ c \in Nat /\ a <= c  BY <1>1, <1>2, LinkAssumption
<1>4. block_size \in Nat \ {0}  BY LinkAssumption
<1> HIDE DEF a, c
<1>5. a \div block_size \in Nat /\ a \div block_size <= c \div block_size
  BY <1>3, <1>4, Division, DivisionMonotonic, Zenon
<1> QED  BY <1>5 DEF Parts, MaxParts, a, c

\* The array of the decoder has room for a block.
LEMMA OnePart == MaxParts \in Nat /\ 1 <= MaxParts
<1> DEFINE b == block_size
           c == fields_size + block_size - 1
<1>1. b \in Nat \ {0} /\ c \in Nat /\ 1 * b <= c /\ 1 * b \in Nat  BY LinkAssumption
<1> HIDE DEF b, c
<1>2. (1 * b) \div b = 1  BY <1>1, Multiple
<1>3. (1 * b) \div b <= c \div b /\ c \div b \in Nat
  BY <1>1, Division, DivisionMonotonic, Zenon
<1> QED  BY <1>2, <1>3 DEF MaxParts, b, c

\* A block is a sequence.
LEMMA BlockLength ==
  ASSUME NEW t \in Tables, NEW p \in Nat
  PROVE  Len(Block(t, p)) \in Nat
<1>1. Len(t) * field_size \in Nat
  <2>1. Len(t) \in Nat /\ field_size \in Nat  BY LinkAssumption
  <2> QED  BY <2>1
<1>2. Bytes(t) \in Seq({Bytes(t)[i] : i \in DOMAIN Bytes(t)}) /\ Len(Bytes(t)) = Len(t) * field_size
  BY <1>1 DEF Bytes
<1> DEFINE s == Bytes(t)
           a == p * block_size + 1
           c == IF (p + 1) * block_size < Len(Bytes(t)) THEN (p + 1) * block_size ELSE Len(Bytes(t))
           S == {Bytes(t)[i] : i \in DOMAIN Bytes(t)}
<1>3. a \in Int /\ c \in Int
  <2>1. block_size \in Nat  BY LinkAssumption
  <2>2. p * block_size \in Nat /\ (p + 1) * block_size \in Nat  BY <2>1
  <2> QED  BY <1>1, <1>2, <2>2
<1>4. s \in Seq(S)  BY <1>2
<1>5. Block(t, p) = SubSeq(s, a, c)  BY DEF Block
<1> HIDE DEF s, a, c, S
<1>6. Len(SubSeq(s, a, c)) \in Nat  BY <1>3, <1>4
<1> QED  BY <1>5, <1>6

\* What decode() and decode_format() may be given.
LEMMA MessageFacts ==
  ASSUME NEW m \in Messages
  PROVE  /\ m.type = "values" =>
                /\ m.seq \in 0 .. 3 /\ m.feed_hash \in 0 .. 255
                /\ m.table \in Tables /\ m.feed_hash = HashOf[m.table][m.seq + 1]
         /\ m.type = "format" =>
                /\ m.hash \in [1 .. 4 -> 0 .. 255] /\ m.part \in Nat /\ Len(m.data) \in Nat
                /\ m.pcnt \in Nat /\ m.pcnt <= MaxParts
<1>1. CASE \E t \in Tables, n \in 0 .. 3, k \in Kinds \cup {"none"} : m = ValuesMessage(t, n, k)
  <2>1. PICK t \in Tables, n \in 0 .. 3, k \in Kinds \cup {"none"} : m = ValuesMessage(t, n, k)
    BY <1>1
  <2>2. HashOf[t] \in [1 .. 4 -> 0 .. 255]  BY LinkAssumption
  <2> QED  BY <2>1, <2>2 DEF ValuesMessage
<1>2. CASE \E t \in Tables, p \in Nat : m = FormatMessage(t, p)
  <2>1. PICK t \in Tables, p \in Nat : m = FormatMessage(t, p)  BY <1>2
  <2>2. HashOf[t] \in [1 .. 4 -> 0 .. 255]  BY LinkAssumption
  <2>3. Len(Block(t, p)) \in Nat  BY BlockLength
  <2>4. Parts(t) \in Nat /\ Parts(t) <= MaxParts  BY PartsBound
  <2> QED  BY <2>1, <2>2, <2>3, <2>4 DEF FormatMessage
<1> QED  BY <1>1, <1>2 DEF Messages

\* A message that is taken out leaves the others.
LEMMA RemoveOne ==
  ASSUME NEW M, net \in Seq(M), Len(net) <= NetSize, NEW i \in DOMAIN net
  PROVE  Remove(i) \in Seq(M) /\ Len(Remove(i)) <= NetSize
<1>1. i \in 1 .. Len(net) /\ Len(net) \in Nat  OBVIOUS
<1>2. \A j \in 1 .. Len(net) : net[j] \in M  BY ElementOfSeq
<1> DEFINE a == SubSeq(net, 1, i - 1)
           b == SubSeq(net, i + 1, Len(net))
<1>3. a \in Seq(M) /\ Len(a) = i - 1
  <2>1. 1 \in Int /\ i - 1 \in Int /\ \A j \in 1 .. i - 1 : net[j] \in M  BY <1>1, <1>2
  <2>2. a \in Seq(M) /\ Len(a) = IF 1 <= i - 1 THEN (i - 1) - 1 + 1 ELSE 0
    BY <2>1, SubSeqProperties
  <2> HIDE DEF a
  <2> QED  BY <1>1, <2>2
<1>4. b \in Seq(M) /\ Len(b) = Len(net) - i
  <2>1. i + 1 \in Int /\ Len(net) \in Int /\ \A j \in i + 1 .. Len(net) : net[j] \in M
    BY <1>1, <1>2
  <2>2. b \in Seq(M) /\ Len(b) = IF i + 1 <= Len(net) THEN Len(net) - (i + 1) + 1 ELSE 0
    BY <2>1, SubSeqProperties
  <2> HIDE DEF b
  <2> QED  BY <1>1, <2>2
<1>5. Remove(i) = a \o b  BY DEF Remove
<1> HIDE DEF a, b
<1>6. Len(a \o b) = Len(a) + Len(b) /\ a \o b \in Seq(M)  BY <1>3, <1>4, ConcatProperties
<1>7. NetSize \in Nat  BY LinkAssumption
<1> QED  BY <1>1, <1>3, <1>4, <1>5, <1>6, <1>7

\* What is sent is a message, and there is room for it.
LEMMA SendOne ==
  ASSUME net \in Seq(Messages), NEW m \in Messages, Send(m)
  PROVE  net' \in Seq(Messages) /\ Len(net') <= NetSize
BY LinkAssumption DEF Send

-----------------------------------------------------------------------------
(* The invariant holds                                                     *)

\* A decoder starts without a table, whatever its hash.
LEMMA InitInv == Init => IInv
<1> SUFFICES ASSUME Init PROVE IInv  OBVIOUS
<1> DEFINE F == {[i \in 1 .. fields_size |-> Unset]}
           H == {NoHash} \cup {HashOf[t] : t \in Tables}
           Z == {0}
           N == {FALSE}
<1>1. dec \in [fields : F, slots_cnt : Z, hash : H, hash_valid : Z, valid : N]
  BY DEF Init
<1>2. /\ Z \in SUBSET Nat /\ Z \in SUBSET (0 .. 4) /\ N \in SUBSET BOOLEAN
      /\ H \in SUBSET [1 .. 4 -> 0 .. 255]
  BY LinkAssumption DEF NoHash
<1>3. DOMAIN dec.fields = 1 .. fields_size /\ F = {dec.fields}  BY <1>1
<1>4. dec.slots_cnt = 0  BY <1>1
<1> HIDE DEF F, H, Z, N
<1>5. dec \in DecoderType(F)  BY <1>1, <1>2 DEF DecoderType
<1>6. 0 * field_size <= fields_size  BY LinkAssumption
<1>7. IsDecoder(dec) /\ Matches(dec)  BY <1>3, <1>4, <1>5, <1>6 DEF IsDecoder, Matches
<1>8. net \in Seq(Messages) /\ Len(net) <= NetSize  BY LinkAssumption DEF Init
<1>9. ask \in 0 .. MaxParts - 1  BY OnePart DEF Init
<1> QED  BY <1>7, <1>8, <1>9 DEF Init, IInv

\* Every step keeps the invariant.
LEMMA StepInv == IInv /\ [Next]_vars => IInv'
<1> SUFFICES ASSUME IInv, [Next]_vars PROVE IInv'  OBVIOUS
<1> USE DEF IInv
<1>1. CASE ChangeTable  BY <1>1 DEF ChangeTable
<1>2. CASE Encode
  <2>1. PICK k \in Kinds \cup {"none"} : Send(ValuesMessage(table, pseq, k))
    BY <1>2 DEF Encode
  <2>2. ValuesMessage(table, pseq, k) \in Messages  BY DEF Messages
  <2>3. net' \in Seq(Messages) /\ Len(net') <= NetSize  BY <2>1, <2>2, SendOne
  <2>4. pseq' \in 0 .. 3  BY <1>2 DEF Encode
  <2> QED  BY <1>2, <2>3, <2>4 DEF Encode
<1>3. CASE Request
  <2>1. PICK p \in 0 .. MaxParts - 1 : EncodeFormat(p)  BY <1>3 DEF Request
  <2>2. p \in Nat  BY OnePart
  <2>3. FormatMessage(table, p) \in Messages  BY <2>2 DEF Messages
  <2>4. net' \in Seq(Messages) /\ Len(net') <= NetSize  BY <2>1, <2>3, SendOne DEF EncodeFormat
  <2> QED  BY <2>1, <2>4 DEF EncodeFormat
<1>4. CASE Decode
  <2>1. PICK i \in DOMAIN net : /\ net[i].type = "values" /\ net' = Remove(i)
                                /\ dec' \in Values(Feed(dec, net[i]), net[i])
    BY <1>4 DEF Decode, Arriving
  <2> DEFINE m == net[i]
             d == Feed(dec, m)
  <2>2. m \in Messages  BY ElementOfSeq
  <2>3. m.seq \in 0 .. 3 /\ m.feed_hash \in 0 .. 255  BY <2>1, <2>2, MessageFacts
  <2>4. dec' \in Values(d, m)  BY <2>1
  <2> HIDE DEF m
  <2>5. IsDecoder(d) /\ Matches(d)  BY <2>3, FeedDecoder
  <2> HIDE DEF d
  <2>6. IsDecoder(dec') /\ Matches(dec')  BY <2>4, <2>5, ValuesDecoder
  <2>7. net' \in Seq(Messages) /\ Len(net') <= NetSize  BY <2>1, RemoveOne
  <2> QED  BY <1>4, <2>6, <2>7 DEF Decode, IsDecoder, Matches, Loaded
<1>5. CASE DecodeFormat
  <2>1. PICK i \in DOMAIN net : /\ net[i].type = "format" /\ net' = Remove(i)
                                /\ dec' = Format(dec, net[i]).dec
                                /\ ask' = IF \/ AnyPart \/ ~Format(dec, net[i]).ok
                                             \/ net[i].part + 1 >= net[i].pcnt
                                          THEN 0 ELSE net[i].part + 1
    BY <1>5 DEF DecodeFormat, Arriving
  <2> DEFINE m == net[i]
             ok == Format(dec, m).ok
  <2>2. m \in Messages  BY ElementOfSeq
  <2>3. /\ m.hash \in [1 .. 4 -> 0 .. 255] /\ m.part \in Nat /\ Len(m.data) \in Nat
        /\ m.pcnt \in Nat /\ m.pcnt <= MaxParts
    BY <2>1, <2>2, MessageFacts
  <2>4. dec' = Format(dec, m).dec
        /\ ask' = IF AnyPart \/ ~ok \/ m.part + 1 >= m.pcnt THEN 0 ELSE m.part + 1
    BY <2>1
  <2> HIDE DEF m, ok
  <2>5. IsDecoder(dec') /\ Matches(dec')  BY <2>3, <2>4, FormatDecoder
  <2>6. ask' \in 0 .. MaxParts - 1  BY <2>3, <2>4, OnePart
  <2>7. net' \in Seq(Messages) /\ Len(net') <= NetSize  BY <2>1, RemoveOne
  <2> QED  BY <1>5, <2>5, <2>6, <2>7 DEF DecodeFormat, IsDecoder, Matches, Loaded
<1>6. CASE Lose
  <2>1. PICK i \in DOMAIN net : net' = Remove(i)  BY <1>6 DEF Lose
  <2>2. net' \in Seq(Messages) /\ Len(net') <= NetSize  BY <2>1, RemoveOne
  <2> QED  BY <1>6, <2>2 DEF Lose
<1>7. CASE UNCHANGED vars  BY <1>7 DEF vars
<1> QED  BY <1>1, <1>2, <1>3, <1>4, <1>5, <1>6, <1>7 DEF Next

\* The invariant holds in every state.
LEMMA Invariance == Spec => []IInv
BY InitInv, StepInv, PTL DEF Spec

-----------------------------------------------------------------------------
(* Theorems                                                                *)

\* The members of the decoder stay in their ranges: the table fits the array, and
\* no more than four bytes of the hash are counted, as the comment in decode() says.
THEOREM TypeCorrect == Spec => []TypeOK
<1>1. IInv => TypeOK
  <2> SUFFICES ASSUME IInv PROVE TypeOK  OBVIOUS
  <2>1. /\ dec.slots_cnt \in Nat /\ dec.slots_cnt * field_size <= fields_size
        /\ dec.hash_valid \in 0 .. 4 /\ dec.valid \in BOOLEAN /\ DOMAIN dec.fields = 1 .. fields_size
    BY DEF IInv, IsDecoder, DecoderType
  <2>2. dec.slots_cnt * field_size \in 0 .. fields_size
    <3>1. dec.slots_cnt * field_size \in Nat  BY <2>1, LinkAssumption
    <3> QED  BY <2>1, <3>1, LinkAssumption
  <2> QED  BY <2>1, <2>2 DEF IInv, TypeOK
<1> QED  BY <1>1, Invariance, PTL

\* A decoder that has a table has one of the encoder's, in full, with its hash,
\* whatever the carrier lost or reordered and whichever blocks were asked for.
THEOREM TableGenuine == Spec => []Genuine
<1>1. IInv => Genuine
  <2> SUFFICES ASSUME IInv, dec.slots_cnt > 0
               PROVE  dec.hash_valid = 4 /\ \E t \in Tables : Bytes(t) = Loaded(dec) /\ HashOf[t] = dec.hash
    BY DEF Genuine
  <2>1. /\ dec.hash_valid = 4 /\ Hash(Loaded(dec)) = dec.hash
        /\ dec.hash \in [1 .. 4 -> 0 .. 255]
    BY DEF IInv, Matches, IsDecoder, DecoderType
  <2> DEFINE bytes == Loaded(dec)
  <2>2. Hash(bytes) = dec.hash /\ Hash(bytes) \in [1 .. 4 -> 0 .. 255]  BY <2>1
  <2> HIDE DEF bytes
  <2>3. \E t \in Tables : Bytes(t) = bytes /\ HashOf[t] = Hash(bytes)  BY <2>2, HashOfTable
  <2> QED  BY <2>1, <2>2, <2>3 DEF bytes
<1> QED  BY <1>1, Invariance, PTL

\* Two tables differ in every byte of their hashes.
HashesDiffer == \A t, u \in Tables : \A i \in 1 .. 4 : HashOf[t][i] = HashOf[u][i] => t = u

\* A decoder that reads values with another table has the byte of the hash that came
\* with them: the tables agree in it.
LEMMA MisreadFeed ==
  ASSUME IInv, NEW i \in DOMAIN net, net[i].type = "values",
         NEW e \in Values(Feed(dec, net[i]), net[i]), Misread(e, net[i])
  PROVE  /\ net[i].seq \in 0 .. 3 /\ net[i].table \in Tables /\ e.hash \in [1 .. 4 -> 0 .. 255]
         /\ e.hash[net[i].seq + 1] = HashOf[net[i].table][net[i].seq + 1]
         /\ \E t \in Tables : t # net[i].table /\ HashOf[t] = e.hash
<1> DEFINE m == net[i]
           d == Feed(dec, m)
<1>1. e.slots_cnt > 0 /\ Bytes(m.table) # Loaded(e)  BY DEF Misread
<1>2. m \in Messages  BY ElementOfSeq DEF IInv
<1>3. /\ m.seq \in 0 .. 3 /\ m.feed_hash \in 0 .. 255
      /\ m.table \in Tables /\ m.feed_hash = HashOf[m.table][m.seq + 1]
  BY <1>2, MessageFacts
<1>4. IsDecoder(dec) /\ Matches(dec)  BY DEF IInv
<1>5. /\ IsDecoder(d) /\ Matches(d)
      /\ d.slots_cnt > 0 => d = dec /\ dec.hash[m.seq + 1] = m.feed_hash
  <2> HIDE DEF m
  <2> QED  BY <1>3, <1>4, FeedDecoder
<1> HIDE DEF d, m
<1>6. e \in Values(d, m)  BY DEF d, m
<1>7. d.slots_cnt > 0 /\ Loaded(e) = Loaded(d) /\ e.hash = d.hash
  BY <1>1, <1>5, <1>6, ValuesDecoder
<1>8. Hash(Loaded(d)) = d.hash /\ d.hash \in [1 .. 4 -> 0 .. 255]
  BY <1>5, <1>7 DEF Matches, IsDecoder, DecoderType
<1>9. PICK t \in Tables : Bytes(t) = Loaded(d) /\ HashOf[t] = d.hash
  <2> DEFINE bytes == Loaded(d)
  <2>1. Hash(bytes) = d.hash /\ Hash(bytes) \in [1 .. 4 -> 0 .. 255]  BY <1>8
  <2> HIDE DEF bytes
  <2>2. \E t \in Tables : Bytes(t) = bytes /\ HashOf[t] = Hash(bytes)  BY <2>1, HashOfTable
  <2> QED  BY <2>1, <2>2 DEF bytes
<1>10. t # m.table  BY <1>1, <1>7, <1>9
<1> QED  BY <1>3, <1>5, <1>7, <1>8, <1>9, <1>10 DEF m

\* If two hashes have no byte in common, values are never read with a table that
\* they were not written with, although a packet brings one byte of the hash only.
THEOREM ReadRight == ASSUME HashesDiffer PROVE Spec => []NeverMisread
<1>1. Init => NeverMisread  BY DEF Init, NeverMisread
<1>2. IInv /\ NeverMisread /\ [Next]_vars => NeverMisread'
  <2> SUFFICES ASSUME IInv, NeverMisread, [Next]_vars PROVE misreads' = 0  BY DEF NeverMisread
  <2>1. CASE Decode
    <3>1. PICK i \in DOMAIN net :
            /\ net[i].type = "values" /\ dec' \in Values(Feed(dec, net[i]), net[i])
            /\ ~Misread(dec', net[i]) => misreads' = 0
      BY <2>1 DEF Decode, Arriving, Record
    <3>2. ~Misread(dec', net[i])
      <4> SUFFICES ASSUME Misread(dec', net[i]) PROVE FALSE  OBVIOUS
      <4>1. /\ net[i].seq \in 0 .. 3 /\ net[i].table \in Tables
            /\ dec'.hash[net[i].seq + 1] = HashOf[net[i].table][net[i].seq + 1]
            /\ \E t \in Tables : t # net[i].table /\ HashOf[t] = dec'.hash
        BY <3>1, MisreadFeed
      <4>2. net[i].seq + 1 \in 1 .. 4  BY <4>1
      <4> QED  BY <4>1, <4>2 DEF HashesDiffer
    <3> QED  BY <3>1, <3>2
  <2>2. CASE ChangeTable \/ Encode \/ Request \/ DecodeFormat \/ Lose \/ UNCHANGED vars
    BY <2>2 DEF ChangeTable, Encode, Request, EncodeFormat, DecodeFormat, Lose, vars, history,
               NeverMisread
  <2> QED  BY <2>1, <2>2 DEF Next
<1> QED  BY <1>1, <1>2, Invariance, PTL DEF Spec

-----------------------------------------------------------------------------
(* How long a decoder may take to notice                                   *)

\* The place of the byte that came j packets before the one with number n.
Place(n, j) == ((n + 4 - j) % 4) + 1

\* The packets that were misread in a row have each brought a byte of a hash that the
\* two tables share.
Shared(r, n) ==
    /\ r.seq \in 0 .. 3 /\ r.table \in Tables
    /\ \E t \in Tables : t # r.table /\ HashOf[t] = r.hash
    /\ \A j \in 0 .. 3 : j < n =>
           r.hash[Place(r.seq, j)] = HashOf[r.table][Place(r.seq, j)]

MisreadInv == misreads \in 0 .. 3 /\ (misreads > 0 => Shared(misread, misreads))

\* The numbers of four packets in a row are all four.
LEMMA FourPlaces ==
  ASSUME NEW n \in 0 .. 3
  PROVE  \A i \in 1 .. 4 : \E j \in 0 .. 3 : Place(n, j) = i
<1>1. ASSUME NEW i \in 1 .. 4 PROVE \E j \in 0 .. 3 : Place(n, j) = i
  <2> DEFINE j == (n + 5 - i) % 4
  <2>1. j \in 0 .. 3 /\ (n + 4 - j) % 4 = i - 1
    <3>1. CASE n = 0  BY <3>1
    <3>2. CASE n = 1  BY <3>2
    <3>3. CASE n = 2  BY <3>3
    <3>4. CASE n = 3  BY <3>4
    <3> QED  BY <3>1, <3>2, <3>3, <3>4
  <2> QED  BY <2>1 DEF Place
<1> QED  BY <1>1

\* One packet later the places are those of one packet more.
LEMMA NextPlace ==
  ASSUME NEW n \in 0 .. 3, NEW j \in 0 .. 3
  PROVE  /\ (n + 1) % 4 \in 0 .. 3
         /\ Place((n + 1) % 4, 0) = ((n + 1) % 4) + 1
         /\ j > 0 => Place((n + 1) % 4, j) = Place(n, j - 1)
<1>1. CASE n = 0  BY <1>1 DEF Place
<1>2. CASE n = 1  BY <1>2 DEF Place
<1>3. CASE n = 2  BY <1>3 DEF Place
<1>4. CASE n = 3  BY <1>4 DEF Place
<1> QED  BY <1>1, <1>2, <1>3, <1>4

\* Four bytes that two tables share are the hash, which tells tables apart.
LEMMA NotFour ==
  ASSUME NEW r, Shared(r, 4)
  PROVE  FALSE
<1>1. PICK t \in Tables : t # r.table /\ HashOf[t] = r.hash  BY DEF Shared
<1>2. r.seq \in 0 .. 3 /\ r.table \in Tables
      /\ \A j \in 0 .. 3 : r.hash[Place(r.seq, j)] = HashOf[r.table][Place(r.seq, j)]
  BY DEF Shared
<1>3. \A i \in 1 .. 4 : HashOf[t][i] = HashOf[r.table][i]  BY <1>1, <1>2, FourPlaces
<1>4. HashOf[t] \in [1 .. 4 -> 0 .. 255] /\ HashOf[r.table] \in [1 .. 4 -> 0 .. 255]
  BY <1>2, LinkAssumption
<1>5. HashOf[t] = HashOf[r.table]  BY <1>3, <1>4
<1> QED  BY <1>1, <1>2, <1>5, LinkAssumption

\* A packet that is misread shares a byte, and one more if it continues a row.
LEMMA MisreadShares ==
  ASSUME IInv, MisreadInv, NEW i \in DOMAIN net, net[i].type = "values",
         dec' \in Values(Feed(dec, net[i]), net[i]), Record(dec', net[i])
  PROVE  MisreadInv'
<1> DEFINE m == net[i]
           e == dec'
           now == [seq |-> m.seq, table |-> m.table, hash |-> e.hash]
           again == misreads > 0 /\ now = [misread EXCEPT !.seq = (@ + 1) % 4]
<1>1. CASE ~Misread(e, m)  BY <1>1 DEF Record, MisreadInv
<1>2. CASE Misread(e, m)
  <2>1. /\ m.seq \in 0 .. 3 /\ m.table \in Tables
        /\ e.hash[m.seq + 1] = HashOf[m.table][m.seq + 1]
        /\ \E t \in Tables : t # m.table /\ HashOf[t] = e.hash
    BY <1>2, MisreadFeed
  <2>2. /\ misread' = now
        /\ misreads' = IF ~again THEN 1 ELSE IF misreads = 4 THEN 4 ELSE misreads + 1
    BY <1>2 DEF Record
  <2>3. now.seq = m.seq /\ now.table = m.table /\ now.hash = e.hash  OBVIOUS
  <2>4. misreads \in 0 .. 3  BY DEF MisreadInv
  <2> HIDE DEF now, e, m
  <2>5. CASE ~again
    <3>1. Place(now.seq, 0) = now.seq + 1  BY <2>1, <2>3 DEF Place
    <3>2. \A j \in 0 .. 3 : j < 1 => j = 0  OBVIOUS
    <3>3. Shared(now, 1)  BY <2>1, <2>3, <3>1, <3>2 DEF Shared
    <3> QED  BY <2>2, <2>5, <3>3 DEF MisreadInv
  <2>6. CASE again
    <3>1. Shared(misread, misreads) /\ misreads > 0  BY <2>6 DEF MisreadInv
    <3>2. now.seq = (misread.seq + 1) % 4 /\ now.table = misread.table /\ now.hash = misread.hash
      <4>1. now = [misread EXCEPT !.seq = (@ + 1) % 4] /\ DOMAIN now = {"seq", "table", "hash"}
        BY <2>6 DEF now
      <4>2. DOMAIN misread = {"seq", "table", "hash"}  BY <4>1
      <4> QED  BY <4>1, <4>2
    <3>3. misread.seq \in 0 .. 3  BY <3>1 DEF Shared
    <3>4. ASSUME NEW j \in 0 .. 3, j < misreads + 1
          PROVE  now.hash[Place(now.seq, j)] = HashOf[now.table][Place(now.seq, j)]
      <4>1. CASE j = 0
        <5>1. Place(now.seq, j) = now.seq + 1  BY <3>2, <3>3, <4>1, NextPlace
        <5> QED  BY <2>1, <2>3, <5>1
      <4>2. CASE j > 0
        <5>1. Place(now.seq, j) = Place(misread.seq, j - 1)  BY <3>2, <3>3, <4>2, NextPlace
        <5>2. j - 1 \in 0 .. 3 /\ j - 1 < misreads  BY <2>4, <3>4, <4>2
        <5>3. misread.hash[Place(misread.seq, j - 1)] = HashOf[misread.table][Place(misread.seq, j - 1)]
          BY <3>1, <5>2 DEF Shared
        <5> QED  BY <3>2, <5>1, <5>3
      <4> QED  BY <4>1, <4>2
    <3>5. Shared(now, misreads + 1)  BY <2>1, <2>3, <3>4 DEF Shared
    <3>6. misreads # 3
      <4>1. misreads = 3 => misreads + 1 = 4  OBVIOUS
      <4> QED  BY <3>5, <4>1, NotFour
    <3>7. misreads' = misreads + 1  BY <2>2, <2>4, <2>6
    <3> QED  BY <2>2, <2>4, <3>5, <3>6, <3>7 DEF MisreadInv
  <2> QED  BY <2>5, <2>6
<1> QED  BY <1>1, <1>2

\* Of packets numbered one after the other and written with one table, values of three
\* at most are read with one other table, for any tables whose hashes differ at all
\* and any carrier: a fourth would bring the last byte of the hash.
THEOREM MisreadsFew == Spec => []FewMisreads
<1>1. Init => MisreadInv  BY DEF Init, MisreadInv
<1>2. IInv /\ MisreadInv /\ [Next]_vars => MisreadInv'
  <2> SUFFICES ASSUME IInv, MisreadInv, [Next]_vars PROVE MisreadInv'  OBVIOUS
  <2>1. CASE Decode
    <3>1. PICK i \in DOMAIN net :
            /\ net[i].type = "values" /\ dec' \in Values(Feed(dec, net[i]), net[i])
            /\ Record(dec', net[i])
      BY <2>1 DEF Decode, Arriving
    <3> QED  BY <3>1, MisreadShares
  <2>2. CASE ChangeTable \/ Encode \/ Request \/ DecodeFormat \/ Lose \/ UNCHANGED vars
    <3>1. UNCHANGED <<misreads, misread>>
      BY <2>2 DEF ChangeTable, Encode, Request, EncodeFormat, DecodeFormat, Lose, vars, history
    <3> QED  BY <3>1 DEF MisreadInv
  <2> QED  BY <2>1, <2>2 DEF Next
<1>3. MisreadInv => FewMisreads  BY DEF MisreadInv, FewMisreads
<1> QED  BY <1>1, <1>2, <1>3, Invariance, PTL DEF Spec
=============================================================================
