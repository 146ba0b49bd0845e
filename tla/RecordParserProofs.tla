------------------------- MODULE RecordParserProofs -------------------------
(***************************************************************************)
(* Proofs about the record parser, for every preface, limit and            *)
(* fragmentation of the stream.                                            *)
(***************************************************************************)
EXTENDS RecordParser, SequenceTheorems, NaturalsInduction, WellFoundedInduction,
        TLAPS

-----------------------------------------------------------------------------
(* Induction as the least element of a set of numbers.                     *)
LEMMA Least ==
  ASSUME NEW T, T \subseteq Nat, T # {} PROVE \E x \in T : \A y \in T : x <= y
<1> DEFINE R == OpToRel(<, Nat)
<1>1. IsWellFoundedOn(R, Nat)
  BY NatLessThanWellFounded
<1>2. \A x, y \in Nat : y < x => <<y, x>> \in R
  BY DEF OpToRel
<1> HIDE DEF R
<1>3. PICK x \in T : \A y \in T : ~(<<y, x>> \in R)
  BY <1>1, WFMin
<1>4. \A y \in T : ~(y < x)
  BY <1>2, <1>3
<1>5. \A y \in T : x <= y
  BY <1>4
<1> QED
  BY <1>5

(* FlattenSeq: its recursion is defined, and adds what is appended.        *)
Flattens(f, s, n) == f = [i \in 1 .. n |-> IF i = 1 THEN s[i] ELSE f[i - 1] \o s[i]]

LEMMA FlattenChooses ==
  ASSUME NEW s, Len(s) # 0
  PROVE  FlattenSeq(s) = (CHOOSE f : Flattens(f, s, Len(s)))[Len(s)]
  BY DEF FlattenSeq, Flattens

LEMMA FlattensPointwise ==
  ASSUME NEW s, NEW n \in Nat, NEW f
  PROVE  Flattens(f, s, n) <=>
           /\ f = [i \in 1 .. n |-> f[i]]
           /\ \A i \in 1 .. n : f[i] = IF i = 1 THEN s[i] ELSE f[i - 1] \o s[i]
  BY DEF Flattens

LEMMA FlattenExists ==
  ASSUME NEW s, NEW n \in Nat PROVE \E f : Flattens(f, s, n)
<1> DEFINE T == {m \in Nat : ~ \E f : Flattens(f, s, m)}
<1> SUFFICES ASSUME T # {} PROVE FALSE
  OBVIOUS
<1>1. PICK m \in T : \A k \in T : m <= k
  BY Least
<1>2. \E f : Flattens(f, s, 0)
  <2>1. PICK e : e = [i \in 1 .. 0 |-> i]
    OBVIOUS
  <2>2. e = [i \in 1 .. 0 |-> e[i]] /\ \A i \in 1 .. 0 : FALSE
    BY <2>1
  <2> QED
    BY <2>2, FlattensPointwise
<1>3. m - 1 \in Nat
  BY <1>1, <1>2
<1>4. PICK f : Flattens(f, s, m - 1)
  BY <1>1, <1>3
<1> DEFINE g == [i \in 1 .. m |-> IF i = m THEN IF m = 1 THEN s[m] ELSE f[m - 1] \o s[m] ELSE f[i]]
<1>5. ASSUME NEW i \in 1 .. m PROVE g[i] = IF i = 1 THEN s[i] ELSE g[i - 1] \o s[i]
  <2>1. \A k \in 1 .. m - 1 : f[k] = IF k = 1 THEN s[k] ELSE f[k - 1] \o s[k]
    BY <1>3, <1>4, FlattensPointwise
  <2>2. CASE i = m
    BY <1>3, <2>2
  <2>3. CASE i # m
    BY <1>3, <2>1, <2>3
  <2> QED
    BY <2>2, <2>3
<1>6. g = [i \in 1 .. m |-> g[i]]
  OBVIOUS
<1> HIDE DEF g
<1>7. Flattens(g, s, m)
  BY <1>1, <1>5, <1>6, FlattensPointwise
<1> QED
  BY <1>1, <1>7

LEMMA FlattenValue ==
  ASSUME NEW s, NEW n \in Nat, n = Len(s)
  PROVE  \E f : Flattens(f, s, n) /\ (n # 0 => FlattenSeq(s) = f[n])
<1>1. PICK f : f = CHOOSE h : Flattens(h, s, n)
  OBVIOUS
<1>2. Flattens(f, s, n)
  BY <1>1, FlattenExists, Zenon
<1>3. n # 0 => FlattenSeq(s) = (CHOOSE h : Flattens(h, s, n))[n]
  BY FlattenChooses, Zenon
<1> QED
  BY <1>1, <1>2, <1>3, Zenon

LEMMA FlattenFacts ==
  ASSUME NEW S, NEW s \in Seq(Seq(S)), NEW x \in Seq(S)
  PROVE  FlattenSeq(s) \in Seq(S) /\ FlattenSeq(Append(s, x)) = FlattenSeq(s) \o x
<1>1. PICK n, a : n = Len(s) /\ a = Append(s, x)
  OBVIOUS
<1>2. /\ n \in Nat /\ Len(a) = n + 1 /\ a[n + 1] = x
      /\ \A i \in 1 .. n : a[i] = s[i] /\ s[i] \in Seq(S)
  BY <1>1
<1>3. PICK f : Flattens(f, s, n) /\ (n # 0 => FlattenSeq(s) = f[n])
  BY <1>1, <1>2, FlattenValue
<1>4. PICK g : Flattens(g, a, n + 1) /\ FlattenSeq(a) = g[n + 1]
  <2>1. n + 1 \in Nat /\ n + 1 = Len(a) /\ n + 1 # 0
    BY <1>2
  <2> QED
    BY <2>1, FlattenValue, Zenon
<1>5. \A i \in 1 .. n : f[i] = IF i = 1 THEN s[i] ELSE f[i - 1] \o s[i]
  BY <1>2, <1>3, FlattensPointwise
<1>6. \A i \in 1 .. n + 1 : g[i] = IF i = 1 THEN a[i] ELSE g[i - 1] \o a[i]
  BY <1>2, <1>4, FlattensPointwise
<1>7. \A i \in 1 .. n : f[i] \in Seq(S) /\ g[i] = f[i]
  <2> DEFINE T == {i \in 1 .. n : ~(f[i] \in Seq(S) /\ g[i] = f[i])}
  <2> SUFFICES ASSUME T # {} PROVE FALSE
    OBVIOUS
  <2>0. T \subseteq Nat
    BY <1>2
  <2>1. PICK m \in T : \A k \in T : m <= k
    BY <2>0, Least
  <2>2. m \in 1 .. n /\ m \in 1 .. n + 1 /\ a[m] = s[m] /\ s[m] \in Seq(S)
    BY <1>2, <2>1
  <2>3. CASE m = 1
    BY <1>5, <1>6, <2>1, <2>2, <2>3
  <2>4. CASE m # 1
    <3>1. m - 1 \in 1 .. n /\ ~(m <= m - 1)
      BY <1>2, <2>2, <2>4
    <3>2. f[m - 1] \in Seq(S) /\ g[m - 1] = f[m - 1]
      BY <2>1, <3>1
    <3>3. f[m] = f[m - 1] \o s[m]
      BY <1>5, <2>2, <2>4
    <3>4. g[m] = g[m - 1] \o a[m]
      BY <1>6, <2>2, <2>4
    <3>5. f[m] \in Seq(S) /\ g[m] = f[m]
      BY <2>2, <3>2, <3>3, <3>4, ConcatProperties
    <3> QED
      BY <2>1, <3>5
  <2> QED
    BY <2>3, <2>4
<1>8. CASE n = 0
  <2>1. s = <<>>
    BY <1>1, <1>8, EmptySeq
  <2>2. FlattenSeq(s) = <<>>
    BY <2>1 DEF FlattenSeq
  <2>3. FlattenSeq(a) = x
    BY <1>2, <1>4, <1>6, <1>8
  <2> QED
    BY <1>1, <2>2, <2>3, ConcatEmptySeq, EmptySeq
<1>9. CASE n # 0
  <2>1. n \in 1 .. n /\ n + 1 \in 1 .. n + 1 /\ n + 1 # 1 /\ n + 1 - 1 = n
    BY <1>2, <1>9
  <2>2. f[n] \in Seq(S) /\ g[n] = f[n]
    BY <1>7, <2>1
  <2>3. g[n + 1] = g[n] \o x
    <3>1. PICK k : k = n + 1 /\ k \in 1 .. n + 1 /\ k # 1 /\ k - 1 = n
      BY <2>1
    <3>2. g[k] = g[k - 1] \o a[k]
      BY <1>6, <3>1
    <3> QED
      BY <1>2, <3>1, <3>2
  <2> QED
    BY <1>1, <1>3, <1>4, <1>9, <2>2, <2>3
<1> QED
  BY <1>8, <1>9

LEMMA Digits ==
  ASSUME NEW a \in Byte, NEW b \in Byte
  PROVE  /\ a * Base + b \in Nat
         /\ (a * Base + b) \div Base = a /\ (a * Base + b) % Base = b
<1>1. Base \in Nat /\ Base > 0
  BY ParserAssumption
<1>2. a \in Nat /\ b \in Nat /\ b < Base
  BY <1>1 DEF Byte
<1>3. ASSUME NEW B \in Nat, NEW x \in Nat, NEW y \in Nat, y < B
      PROVE  (x * B + y) % B = y /\ (x * B + y) \div B = x /\ x * B + y \in Nat
  BY <1>3
<1> QED
  BY <1>1, <1>2, <1>3

LEMMA EncodeTyped ==
  ASSUME NEW r \in Seq(Byte)
  PROVE  r \in Seq(Nat) /\ EncodeRecord(r) \in Seq(Nat)
<1>1. Base \in Nat /\ Base > 0 /\ Byte \subseteq Nat
  BY ParserAssumption DEF Byte
<1>2. r \in Seq(Nat) /\ Len(r) \in Nat
  <2>1. r \in Seq(Nat)
    BY <1>1, SeqMonotonic, Zenon
  <2> QED
    BY <2>1
<1>3. Len(r) \div Base \in Nat /\ Len(r) % Base \in Nat
  BY <1>1, <1>2
<1>4. PICK h : h = <<Len(r) \div Base, Len(r) % Base>>
  OBVIOUS
<1>5. h \in Seq(Nat)
  BY <1>3, <1>4
<1>6. h \o r \in Seq(Nat)
  BY <1>2, <1>5, ConcatProperties
<1> QED
  BY <1>2, <1>4, <1>6 DEF EncodeRecord

(* What is sent for records, and for one more. *)
Encoded(records) == [i \in DOMAIN records |-> EncodeRecord(records[i])]

LEMMA EncodedFacts ==
  ASSUME NEW d \in Seq(Seq(Byte)), NEW r \in Seq(Byte)
  PROVE  /\ FlattenSeq(Encoded(<<>>)) = <<>>
         /\ FlattenSeq(Encoded(d)) \in Seq(Nat)
         /\ FlattenSeq(Encoded(Append(d, r))) = FlattenSeq(Encoded(d)) \o EncodeRecord(r)
<1>1. FlattenSeq(Encoded(<<>>)) = <<>>
  <2>1. Encoded(<<>>) = <<>>
    BY DEF Encoded
  <2> QED
    BY <2>1 DEF FlattenSeq
<1>2. PICK n, a : n = Len(d) /\ a = Append(d, r)
  OBVIOUS
<1>3. /\ n \in Nat /\ DOMAIN d = 1 .. n /\ DOMAIN a = 1 .. n + 1 /\ a[n + 1] = r
      /\ \A i \in 1 .. n : d[i] \in Seq(Byte) /\ a[i] = d[i]
  BY <1>2
<1>4. PICK e : e = Encoded(d)
  OBVIOUS
<1>5. e = [i \in 1 .. n |-> EncodeRecord(d[i])]
  BY <1>3, <1>4 DEF Encoded
<1>6. \A i \in 1 .. n : e[i] = EncodeRecord(d[i]) /\ e[i] \in Seq(Nat)
  BY <1>3, <1>5, EncodeTyped
<1>7. e \in Seq(Seq(Nat)) /\ Len(e) = n
  <2>1. e \in [1 .. n -> Seq(Nat)]
    BY <1>5, <1>6
  <2> QED
    BY <1>3, <2>1
<1>8. PICK x : x = EncodeRecord(r) /\ x \in Seq(Nat)
  BY EncodeTyped
<1>9. Encoded(a) = Append(e, x)
  <2>1. PICK f : f = Encoded(a)
    OBVIOUS
  <2>2. f = [i \in 1 .. n + 1 |-> EncodeRecord(a[i])]
    BY <1>3, <2>1 DEF Encoded
  <2>3. /\ \A i \in 1 .. n : f[i] = e[i]
        /\ f[n + 1] = x
    BY <1>3, <1>6, <1>8, <2>2
  <2>4. f \in Seq(Seq(Nat)) /\ Len(f) = n + 1
    <3>1. \A i \in 1 .. n + 1 : f[i] \in Seq(Nat)
      BY <1>3, <1>6, <1>8, <2>3
    <3>2. f \in [1 .. n + 1 -> Seq(Nat)]
      BY <2>2, <3>1
    <3> QED
      BY <1>3, <3>2
  <2>5. PICK g : g = Append(e, x)
    OBVIOUS
  <2>6. /\ g \in Seq(Seq(Nat)) /\ Len(g) = n + 1 /\ g[n + 1] = x
        /\ \A i \in 1 .. n : g[i] = e[i]
    BY <1>7, <1>8, <2>5, AppendProperties
  <2>7. ASSUME NEW i \in 1 .. n + 1 PROVE f[i] = g[i]
    <3>1. i \in 1 .. n \/ i = n + 1
      BY <1>3
    <3> QED
      BY <2>3, <2>6, <3>1
  <2>8. f = g
    BY <2>4, <2>6, <2>7, SeqEqual
  <2> QED
    BY <2>1, <2>5, <2>8
<1>10. FlattenSeq(e) \in Seq(Nat) /\ FlattenSeq(Append(e, x)) = FlattenSeq(e) \o x
  BY <1>7, <1>8, FlattenFacts
<1> QED
  BY <1>1, <1>2, <1>4, <1>8, <1>9, <1>10
-----------------------------------------------------------------------------

(* The record parser.  What it has read, and its buffers between turns.    *)
ParserTypes ==
  /\ phase \in {"Preface", "Header", "Payload"}
  /\ preface_offset \in 0 .. Len(PREFACE)
  /\ header \in Seq(Byte) /\ Len(header) < RECORD_HEADER_SIZE
  /\ expected_payload_size \in Nat /\ expected_payload_size <= MAX_RECORD_SIZE
  /\ payload \in Seq(Byte)
  /\ failed \in BOOLEAN /\ finished \in BOOLEAN
  /\ input \in Seq(Byte) /\ stream \in Seq(Byte) /\ delivered \in Seq(Seq(Byte))

Buffers ==
  /\ phase = "Payload" => /\ header = <<>> /\ Len(payload) < expected_payload_size
                          /\ expected_payload_size <= MaximumRecordSize
  /\ phase # "Payload" => payload = <<>>
  /\ phase = "Preface" => header = <<>> /\ delivered = <<>>
  /\ \A i \in 1 .. Len(delivered) : Len(delivered[i]) <= MaximumRecordSize
  /\ failed \/ finished => input = <<>>

Records == PREFACE \o FlattenSeq(Encoded(delivered))
Read == IF phase = "Preface" THEN SubSeq(PREFACE, 1, preface_offset) ELSE Records \o Pending

ParserInv ==
  /\ ParserTypes /\ Buffers
  /\ ~failed => stream = Read \o input
  /\ finished => stream = Records

LEMMA InvImplies == ParserInv => StreamIsRecords /\ CleanEndIsComplete
  BY DEF ParserInv, StreamIsRecords, CleanEndIsComplete, Read, Records, Encoded

LEMMA ByteSeqs ==
  /\ Base \in Nat /\ Base > 0 /\ Byte \subseteq Nat
  /\ \A q \in Seq(Byte) : q \in Seq(Nat) /\ Len(q) \in Nat
  /\ PREFACE \in Seq(Byte) /\ Len(PREFACE) \in Nat /\ Len(PREFACE) > 0
<1>1. Base \in Nat /\ Base > 0 /\ Byte \subseteq Nat
  BY ParserAssumption DEF Byte
<1>2. ASSUME NEW q \in Seq(Byte) PROVE q \in Seq(Nat) /\ Len(q) \in Nat
  BY EncodeTyped, LenProperties
<1>3. PREFACE \in Seq(Byte) /\ PREFACE # <<>>
  BY ParserAssumption
<1>4. Len(PREFACE) \in Nat \ {0}
  BY <1>3, EmptySeq, Zenon
<1> QED
  BY <1>1, <1>2, <1>3, <1>4

(* A turn takes k bytes from the front of the input.                       *)
LEMMA Cut ==
  ASSUME NEW S, NEW q \in Seq(S), NEW k \in 0 .. Len(q)
  PROVE  /\ SubSeq(q, 1, k) \in Seq(S) /\ Len(SubSeq(q, 1, k)) = k
         /\ \A i \in 1 .. k : SubSeq(q, 1, k)[i] = q[i]
         /\ Drop(q, k) \in Seq(S) /\ SubSeq(q, 1, k) \o Drop(q, k) = q
<1>1. Len(q) \in Nat /\ \A i \in 1 .. Len(q) : q[i] \in S
  BY LenProperties, ElementOfSeq
<1>2. /\ SubSeq(q, 1, k) \in Seq(S) /\ Len(SubSeq(q, 1, k)) = k
      /\ \A i \in 1 .. k : SubSeq(q, 1, k)[i] = q[i]
  <2>1. \A i \in 1 .. k : q[i] \in S
    BY <1>1
  <2> QED
    BY <1>1, <2>1, SubSeqProperties
<1>3. Drop(q, k) \in Seq(S)
  <2>1. k + 1 \in Int /\ Len(q) \in Int /\ \A i \in k + 1 .. Len(q) : q[i] \in S
    BY <1>1
  <2> QED
    BY <2>1, SubSeqProperties, Zenon DEF Drop
<1>4. SubSeq(q, 1, k) \o SubSeq(q, k + 1, Len(q)) = SubSeq(q, 1, Len(q))
  <2>1. 1 \in 1 .. Len(q) + 1 /\ k \in 1 - 1 .. Len(q) /\ Len(q) \in k .. Len(q)
    BY <1>1
  <2> QED
    BY <2>1, ConcatAdjacentSubSeq, Zenon
<1>5. SubSeq(q, 1, Len(q)) = q
  BY SubSeqFull
<1> QED
  BY <1>2, <1>3, <1>4, <1>5 DEF Drop

LEMMA Associative ==
  ASSUME NEW r \in Seq(Nat), NEW s \in Seq(Nat), NEW t \in Seq(Nat)
  PROVE  (r \o s) \o t = r \o (s \o t)
<1>1. r \o s \in Seq(Nat) /\ s \o t \in Seq(Nat)
  OBVIOUS
<1>2. PICK a, b : a = (r \o s) \o t /\ b = r \o (s \o t)
  OBVIOUS
<1>3. a \in Seq(Nat) /\ b \in Seq(Nat)
  BY <1>1, <1>2
<1>4. Len(a) = Len(b)
  BY <1>1, <1>2
<1>5. ASSUME NEW i \in 1 .. Len(a) PROVE a[i] = b[i]
  BY <1>1, <1>2, <1>4
<1> QED
  BY <1>2, <1>3, <1>4, <1>5, SeqEqual

LEMMA Turn ==
  ASSUME NEW R \in Seq(Nat), NEW q \in Seq(Byte), NEW k \in 0 .. Len(q)
  PROVE  (R \o SubSeq(q, 1, k)) \o Drop(q, k) = R \o q
<1>1. q \in Seq(Nat)
  BY ByteSeqs
<1>2. PICK h, d : h = SubSeq(q, 1, k) /\ d = Drop(q, k)
  OBVIOUS
<1>3. h \in Seq(Nat) /\ d \in Seq(Nat)
  BY <1>1, <1>2, Cut
<1>4. h \o d = q
  BY <1>1, <1>2, Cut
<1>5. (R \o h) \o d = R \o (h \o d)
  BY <1>3, Associative
<1> QED
  BY <1>2, <1>4, <1>5

LEMMA InitParser == Init => ParserInv
<1> SUFFICES ASSUME Init PROVE ParserInv
  OBVIOUS
<1>1. ParserTypes
  <2>1. /\ <<>> \in Seq(Byte) /\ <<>> \in Seq(Seq(Byte)) /\ Len(<<>>) = 0
        /\ 0 \in 0 .. Len(PREFACE)
    BY ByteSeqs
  <2>2. phase = "Preface" /\ preface_offset \in 0 .. Len(PREFACE) 
    BY <2>1 DEF Init
  <2>5. expected_payload_size \in Nat /\ expected_payload_size <= MAX_RECORD_SIZE
    BY ByteSeqs DEF Init, MAX_RECORD_SIZE
  <2>3. failed \in BOOLEAN /\ finished \in BOOLEAN
    BY DEF Init
  <2>4. /\ header \in Seq(Byte) /\ Len(header) = 0 /\ payload \in Seq(Byte)
        /\ input \in Seq(Byte) /\ stream \in Seq(Byte) /\ delivered \in Seq(Seq(Byte))
    BY <2>1, Zenon DEF Init
  <2> QED
    BY <2>2, <2>3, <2>4, <2>5 DEF ParserTypes, RECORD_HEADER_SIZE
<1>2. Buffers
  BY DEF Init, Buffers
<1>3. stream = Read \o input
  BY SubSeqEmpty DEF Init, Read
<1> QED
  BY <1>1, <1>2, <1>3 DEF Init, ParserInv

LEMMA ReadTyped ==
  ASSUME ParserTypes PROVE Records \in Seq(Nat) /\ Pending \in Seq(Nat) /\ Read \in Seq(Nat)
<1>1. Records \in Seq(Nat)
  <2>1. FlattenSeq(Encoded(delivered)) \in Seq(Nat) /\ PREFACE \in Seq(Nat)
    BY ByteSeqs, EncodedFacts, EmptySeq DEF ParserTypes
  <2> QED
    BY <2>1, ConcatProperties DEF Records
<1>2. Pending \in Seq(Nat)
  <2>1. expected_payload_size \div Base \in Nat /\ expected_payload_size % Base \in Nat
    <3>1. expected_payload_size \in Nat /\ Base \in Nat /\ Base > 0
      BY ByteSeqs DEF ParserTypes
    <3> QED
      BY <3>1
  <2>2. PICK h : h = <<expected_payload_size \div Base, expected_payload_size % Base>>
    OBVIOUS
  <2>3. h \in Seq(Nat)
    BY <2>1, <2>2
  <2>4. header \in Seq(Nat) /\ payload \in Seq(Nat)
    BY ByteSeqs DEF ParserTypes
  <2>5. h \o payload \in Seq(Nat)
    BY <2>3, <2>4, ConcatProperties
  <2> QED
    BY <2>2, <2>4, <2>5 DEF Pending
<1>3. SubSeq(PREFACE, 1, preface_offset) \in Seq(Nat)
  <2>1. PREFACE \in Seq(Nat) /\ preface_offset \in 0 .. Len(PREFACE)
    BY ByteSeqs DEF ParserTypes
  <2> QED
    BY <2>1, Cut
<1>4. Records \o Pending \in Seq(Nat)
  BY <1>1, <1>2, ConcatProperties
<1> QED
  BY <1>1, <1>2, <1>3, <1>4 DEF Read

(* Consume: a new fragment is unread. *)
LEMMA ConsumePreserves ==
  ASSUME ParserInv, NEW n \in Nat, NEW fragment \in [1 .. n -> Byte], Consume(fragment)
  PROVE  ParserInv'
<1>1. PICK q : q = fragment /\ q \in Seq(Byte)
  OBVIOUS
<1>2. ParserTypes /\ Buffers /\ input = <<>>
  BY DEF ParserInv, Consume
<1>3. UNCHANGED <<phase, preface_offset, header, expected_payload_size, payload,
                 finished, delivered>>
  BY DEF Consume
<1>4. Read' = Read /\ Records' = Records
  BY <1>3 DEF Read, Records, Pending
<1>5. CASE failed \/ finished
  <2>1. failed' = TRUE /\ input' = <<>> /\ stream' = stream
    BY <1>5 DEF Consume, Fail
  <2>2. ParserTypes'
    BY <1>2, <1>3, <2>1 DEF ParserTypes
  <2>3. Buffers'
    BY <1>2, <1>3, <2>1 DEF Buffers
  <2> QED
    BY <1>3, <1>4, <2>1, <2>2, <2>3 DEF ParserInv
<1>6. CASE ~(failed \/ finished)
  <2>1. input' = q /\ stream' = stream \o q /\ failed' = failed
    BY <1>1, <1>6 DEF Consume
  <2>2. ParserTypes'
    <3>1. stream \o q \in Seq(Byte)
      BY <1>1, <1>2, ConcatProperties, Zenon DEF ParserTypes
    <3> QED
      BY <1>1, <1>2, <1>3, <2>1, <3>1 DEF ParserTypes
  <2>3. Buffers'
    BY <1>2, <1>3, <1>6, <2>1 DEF Buffers
  <2>4. stream = Read
    <3>1. stream = Read \o <<>> /\ Read \in Seq(Nat)
      BY <1>2, <1>6, ReadTyped DEF ParserInv
    <3> QED
      BY <3>1, ConcatEmptySeq
  <2>5. stream' = Read' \o input'
    BY <1>4, <2>1, <2>4
  <2> QED
    BY <1>3, <1>4, <1>6, <2>1, <2>2, <2>3, <2>5 DEF ParserInv
<1> QED
  BY <1>5, <1>6

LEMMA FinishPreserves == ASSUME ParserInv, Finish PROVE ParserInv'
<1>1. ParserTypes /\ Buffers /\ input = <<>>
  BY DEF ParserInv, Finish
<1>2. UNCHANGED <<phase, preface_offset, header, expected_payload_size, payload, input, stream,
                 delivered>>
  BY DEF Finish
<1>3. failed' \in BOOLEAN /\ finished' \in BOOLEAN
  BY <1>1 DEF Finish, ParserTypes
<1>4. Read' = Read /\ Records' = Records
  BY <1>2 DEF Read, Records, Pending
<1>5. ParserTypes' /\ Buffers'
  BY <1>1, <1>2, <1>3 DEF ParserTypes, Buffers
<1>6. ~failed' => ~failed
  BY <1>1 DEF Finish, ParserTypes
<1>7. finished' => stream = Records
  <2>1. CASE finished
    BY <2>1 DEF ParserInv
  <2>2. CASE ~finished /\ finished'
    <3>1. ~failed /\ AtBoundary
      BY <1>1, <2>2 DEF Finish, ParserTypes
    <3>2. stream = (Records \o <<>>) \o <<>>
      BY <1>1, <3>1 DEF ParserInv, Read, Pending, AtBoundary
    <3>3. Records \in Seq(Nat)
      BY <1>1, ReadTyped
    <3> QED
      BY <3>2, <3>3, ConcatEmptySeq
  <2> QED
    BY <2>1, <2>2
<1> QED
  BY <1>2, <1>4, <1>5, <1>6, <1>7 DEF ParserInv

(* A turn that reads k bytes and fails no one keeps what the stream is. *)
LEMMA TurnReads ==
  ASSUME ParserInv, ~failed, NEW k \in 0 .. Len(input), Read' = Read \o SubSeq(input, 1, k),
         input' = Drop(input, k), stream' = stream
  PROVE  stream' = Read' \o input'
<1>1. Read \in Seq(Nat) /\ input \in Seq(Byte) /\ stream = Read \o input
  BY ReadTyped DEF ParserInv, ParserTypes
<1>2. (Read \o SubSeq(input, 1, k)) \o Drop(input, k) = Read \o input
  BY <1>1, Turn
<1> QED
  BY <1>1, <1>2

(* There is something to read only while the parser has neither failed nor *)
(* finished.                                                               *)
LEMMA Running ==
  ASSUME ParserInv, input # <<>>
  PROVE  ~failed /\ ~finished /\ Len(input) \in Nat /\ Len(input) > 0
<1>1. input \in Seq(Byte) /\ ~failed /\ ~finished
  BY DEF ParserInv, ParserTypes, Buffers
<1>2. Len(input) \in Nat \ {0}
  BY <1>1, EmptySeq, Zenon
<1> QED
  BY <1>1, <1>2

(* ConsumePreface: the CHOOSE of Matched has a value, the first mismatch. *)
LEMMA MatchedFacts ==
  ASSUME ParserTypes
  PROVE  LET most == Smallest(Len(input), Len(PREFACE) - preface_offset)
         IN /\ most \in Nat /\ most <= Len(input) /\ preface_offset + most <= Len(PREFACE)
            /\ Matched \in 0 .. most
            /\ \A i \in 1 .. Matched : input[i] = PREFACE[preface_offset + i]
<1>1. PICK most : most = Smallest(Len(input), Len(PREFACE) - preface_offset)
  OBVIOUS
<1>2. most \in Nat /\ most <= Len(input) /\ preface_offset + most <= Len(PREFACE)
  BY <1>1, ByteSeqs DEF ParserTypes, Smallest
<1> DEFINE T == {n \in 0 .. most : n = most \/ input[n + 1] # PREFACE[preface_offset + n + 1]}
<1>3. most \in T /\ T \subseteq Nat
  BY <1>2
<1>4. PICK n \in T : \A y \in T : n <= y
  BY <1>3, Least
<1>5. n \in 0 .. most /\ n \in Nat
  BY <1>2
<1>6. ASSUME NEW i \in 1 .. n PROVE input[i] = PREFACE[preface_offset + i]
  <2>1. i - 1 \in 0 .. most /\ i - 1 # most /\ ~(n <= i - 1)
    BY <1>2, <1>5
  <2>2. i - 1 \notin T
    BY <1>4, <2>1
  <2>3. input[i - 1 + 1] = PREFACE[preface_offset + (i - 1) + 1]
    BY <2>1, <2>2
  <2>4. i - 1 + 1 = i /\ preface_offset + (i - 1) + 1 = preface_offset + i
    BY <1>5 DEF ParserTypes
  <2> QED
    BY <2>3, <2>4
<1>7. n < most => input[n + 1] # PREFACE[preface_offset + n + 1]
  BY <1>2, <1>4, <1>5
<1> DEFINE Good(m) == /\ \A i \in 1 .. m : input[i] = PREFACE[preface_offset + i]
                      /\ m < most => input[m + 1] # PREFACE[preface_offset + m + 1]
<1>8. Good(n) /\ n \in 0 .. most
  BY <1>5, <1>6, <1>7
<1>9. Matched = CHOOSE m \in 0 .. most : Good(m)
  BY <1>1 DEF Matched
<1> HIDE DEF Good
<1>10. Matched \in 0 .. most /\ Good(Matched)
  BY <1>8, <1>9
<1>11. \A i \in 1 .. Matched : input[i] = PREFACE[preface_offset + i]
  BY <1>10 DEF Good
<1> QED
  BY <1>1, <1>2, <1>10, <1>11

LEMMA Continues ==
  ASSUME NEW p \in Seq(Nat), NEW q \in Seq(Nat), NEW o \in 0 .. Len(p), NEW m \in 0 .. Len(q),
         o + m <= Len(p), \A i \in 1 .. m : q[i] = p[o + i]
  PROVE  SubSeq(p, 1, o + m) = SubSeq(p, 1, o) \o SubSeq(q, 1, m)
<1>1. Len(p) \in Nat /\ Len(q) \in Nat /\ o + m \in 0 .. Len(p) /\ o \in Nat /\ m \in Nat
  BY LenProperties
<1>2. PICK a, b, c : a = SubSeq(p, 1, o) /\ b = SubSeq(q, 1, m) /\ c = SubSeq(p, 1, o + m)
  OBVIOUS
<1>3. a \in Seq(Nat) /\ Len(a) = o /\ \A i \in 1 .. o : a[i] = p[i]
  BY <1>2, Cut
<1>4. b \in Seq(Nat) /\ Len(b) = m /\ \A i \in 1 .. m : b[i] = q[i]
  BY <1>2, Cut
<1>5. c \in Seq(Nat) /\ Len(c) = o + m /\ \A i \in 1 .. o + m : c[i] = p[i]
  BY <1>1, <1>2, Cut
<1>6. PICK d : d = a \o b
  OBVIOUS
<1>7. /\ d \in Seq(Nat) /\ Len(d) = o + m
      /\ \A i \in 1 .. o : d[i] = a[i]
      /\ \A i \in 1 .. m : d[o + i] = b[i]
  <2>1. /\ d \in Seq(Nat) /\ Len(d) = o + m
        /\ \A i \in 1 .. o + m : d[i] = IF i <= o THEN a[i] ELSE b[i - o]
    <3>1. \A p1, q1 \in Seq(Nat) :
            /\ p1 \o q1 \in Seq(Nat) /\ Len(p1 \o q1) = Len(p1) + Len(q1)
            /\ \A i \in 1 .. Len(p1) + Len(q1) :
                 (p1 \o q1)[i] = IF i <= Len(p1) THEN p1[i] ELSE q1[i - Len(p1)]
      BY ConcatProperties
    <3> QED
      BY <1>3, <1>4, <1>6, <3>1, Zenon
  <2>2. ASSUME NEW i \in 1 .. m PROVE d[o + i] = b[i]
    <3>1. PICK k : k = o + i
      OBVIOUS
    <3>2. k \in 1 .. o + m /\ ~(k <= o) /\ k - o = i
      BY <1>1, <3>1
    <3>3. d[k] = b[k - o]
      BY <2>1, <3>2
    <3> QED
      BY <3>1, <3>2, <3>3
  <2> QED
    BY <1>1, <2>1, <2>2
<1>8. ASSUME NEW i \in 1 .. o + m PROVE c[i] = d[i]
  <2>1. CASE i \in 1 .. o
    BY <1>1, <1>3, <1>5, <1>7, <2>1
  <2>2. CASE i \notin 1 .. o
    <3>1. PICK k : k = i - o
      OBVIOUS
    <3>2. k \in 1 .. m /\ i = o + k
      BY <1>1, <2>2, <3>1
    <3>3. d[o + k] = p[o + k]
      BY <1>4, <1>7, <3>2
    <3> QED
      BY <1>5, <3>2, <3>3
  <2> QED
    BY <2>1, <2>2
<1>9. c = d
  BY <1>5, <1>7, <1>8, SeqEqual
<1> QED
  BY <1>2, <1>6, <1>9

LEMMA PrefacePreserves == ASSUME ParserInv, ConsumePreface PROVE ParserInv'
<1>1. ParserTypes /\ Buffers /\ phase = "Preface" /\ input # <<>>
  BY DEF ParserInv, ConsumePreface
<1>2. ~failed /\ ~finished
  BY <1>1, Running
<1>3. UNCHANGED <<header, expected_payload_size, payload, finished, stream, delivered>>
  BY DEF ConsumePreface
<1>4. header = <<>> /\ payload = <<>> /\ delivered = <<>>
  BY <1>1 DEF Buffers
<1>5. PICK m, most : m = Matched /\ most = Smallest(Len(input), Len(PREFACE) - preface_offset)
  OBVIOUS
<1>6. /\ most \in Nat /\ most <= Len(input) /\ preface_offset + most <= Len(PREFACE)
      /\ m \in 0 .. most
      /\ \A i \in 1 .. m : input[i] = PREFACE[preface_offset + i]
  BY <1>1, <1>5, MatchedFacts
<1>7. preface_offset' = preface_offset + m
  BY <1>5 DEF ConsumePreface
<1>8. /\ preface_offset' \in 0 .. Len(PREFACE) /\ m \in 0 .. Len(input)
      /\ preface_offset + m <= Len(PREFACE)
  BY <1>1, <1>6, <1>7, ByteSeqs DEF ParserTypes
<1>9. CASE m < most
  <2>1. failed' = TRUE /\ input' = <<>> /\ phase' = phase
    BY <1>5, <1>9 DEF ConsumePreface, Fail
  <2>2. ParserTypes'
    BY <1>1, <1>3, <1>8, <2>1 DEF ParserTypes
  <2>3. Buffers'
    BY <1>1, <1>3, <2>1 DEF Buffers
  <2> QED
    BY <1>2, <1>3, <2>1, <2>2, <2>3 DEF ParserInv
<1>10. CASE ~(m < most)
  <2>1. /\ input' = Drop(input, m) /\ failed' = failed
        /\ phase' = IF preface_offset' = Len(PREFACE) THEN "Header" ELSE phase
    BY <1>5, <1>10 DEF ConsumePreface
  <2>2. ParserTypes'
    <3>1. input' \in Seq(Byte)
      BY <1>1, <1>8, <2>1, Cut DEF ParserTypes
    <3>2. phase' \in {"Preface", "Header", "Payload"}
      BY <1>1, <2>1
    <3> QED
      BY <1>1, <1>3, <1>8, <2>1, <3>1, <3>2 DEF ParserTypes
  <2>3. Buffers'
    BY <1>1, <1>2, <1>3, <1>4, <2>1 DEF Buffers
  <2>4. SubSeq(PREFACE, 1, preface_offset + m)
          = SubSeq(PREFACE, 1, preface_offset) \o SubSeq(input, 1, m)
    <3>1. PREFACE \in Seq(Nat) /\ input \in Seq(Nat) /\ preface_offset \in 0 .. Len(PREFACE)
      BY <1>1, ByteSeqs DEF ParserTypes
    <3> QED
      BY <1>6, <1>8, <3>1, Continues
  <2>5. Read' = SubSeq(PREFACE, 1, preface_offset + m)
    <3>1. CASE preface_offset' = Len(PREFACE)
      <4>1. PREFACE \in Seq(Nat) /\ PREFACE = SubSeq(PREFACE, 1, preface_offset + m)
        BY <1>7, <3>1, ByteSeqs, SubSeqFull
      <4>2. FlattenSeq(Encoded(<<>>)) = <<>>
        <5>1. <<>> \in Seq(Seq(Byte)) /\ <<>> \in Seq(Byte)
          OBVIOUS
        <5> QED
          BY <5>1, EncodedFacts
      <4>3. Read' = (PREFACE \o <<>>) \o <<>>
        BY <1>3, <1>4, <2>1, <3>1, <4>2 DEF Read, Records, Pending
      <4>4. PREFACE \o <<>> = PREFACE
        BY <4>1, ConcatEmptySeq, Zenon
      <4> QED
        BY <4>1, <4>3, <4>4
    <3>2. CASE preface_offset' # Len(PREFACE)
      BY <1>1, <1>7, <2>1, <3>2 DEF Read
    <3> QED
      BY <3>1, <3>2
  <2>6. Read' = Read \o SubSeq(input, 1, m)
    BY <1>1, <2>4, <2>5 DEF Read
  <2>7. stream' = Read' \o input'
    BY <1>2, <1>3, <1>8, <2>1, <2>6, TurnReads
  <2> QED
    BY <1>2, <1>3, <2>2, <2>3, <2>7 DEF ParserInv
<1> QED
  BY <1>9, <1>10

(* Deliver: the record that the bytes read complete, with or without a     *)
(* stop.                                                                   *)
LEMMA RecordsGrow ==
  ASSUME ParserTypes, NEW r \in Seq(Byte), delivered' = Append(delivered, r)
  PROVE  Records' = Records \o EncodeRecord(r)
<1>1. PICK f, e : f = FlattenSeq(Encoded(delivered)) /\ e = EncodeRecord(r)
  OBVIOUS
<1>2. PREFACE \in Seq(Nat) /\ f \in Seq(Nat) /\ e \in Seq(Nat)
  BY <1>1, ByteSeqs, EncodedFacts, EncodeTyped DEF ParserTypes
<1>3. Records' = PREFACE \o (f \o e)
  BY <1>1, EncodedFacts DEF ParserTypes, Records
<1>4. Records = PREFACE \o f
  BY <1>1 DEF Records
<1>5. (PREFACE \o f) \o e = PREFACE \o (f \o e)
  BY <1>2, Associative
<1> QED
  BY <1>1, <1>3, <1>4, <1>5

LEMMA DeliverPreserves ==
  ASSUME ParserInv, ~failed, ~finished, NEW r \in Seq(Byte), Len(r) <= MaximumRecordSize,
         NEW k \in 0 .. Len(input), NEW keep \in BOOLEAN, Deliver(r, Drop(input, k), keep),
         Records \o EncodeRecord(r) = Read \o SubSeq(input, 1, k),
         phase' = "Header", header' = <<>>, payload' = <<>>,
         expected_payload_size' \in Nat, expected_payload_size' <= MAX_RECORD_SIZE,
         UNCHANGED <<preface_offset, finished, stream>>
  PROVE  ParserInv'
<1>1. ParserTypes /\ Buffers
  BY DEF ParserInv
<1>2. /\ delivered' = Append(delivered, r) /\ failed' = ~keep
      /\ input' = IF keep THEN Drop(input, k) ELSE <<>>
  BY DEF Deliver
<1>3. ParserTypes'
  <2>1. delivered' \in Seq(Seq(Byte))
    BY <1>1, <1>2, AppendProperties DEF ParserTypes
  <2>2. input' \in Seq(Byte)
    <3>1. Drop(input, k) \in Seq(Byte)
      BY <1>1, Cut DEF ParserTypes
    <3>2. <<>> \in Seq(Byte)
      OBVIOUS
    <3> QED
      BY <1>2, <3>1, <3>2
  <2>3. header' \in Seq(Byte) /\ Len(header') = 0 /\ payload' \in Seq(Byte)
    OBVIOUS
  <2>4. failed' \in BOOLEAN
    BY <1>2
  <2>5. phase' \in {"Preface", "Header", "Payload"}
    OBVIOUS
  <2>6. /\ preface_offset' \in 0 .. Len(PREFACE) /\ finished' \in BOOLEAN /\ stream' \in Seq(Byte)
    BY <1>1 DEF ParserTypes
  <2> QED
    BY <2>1, <2>2, <2>3, <2>4, <2>5, <2>6 DEF ParserTypes, RECORD_HEADER_SIZE
<1>4. Buffers'
  <2>1. \A i \in 1 .. Len(delivered') : Len(delivered'[i]) <= MaximumRecordSize
    <3>1. PICK d, a : d = delivered /\ a = Append(delivered, r)
      OBVIOUS
    <3>2. /\ Len(d) \in Nat /\ Len(a) = Len(d) + 1 /\ a[Len(d) + 1] = r
          /\ \A i \in 1 .. Len(d) : a[i] = d[i]
      BY <1>1, <3>1, AppendProperties DEF ParserTypes
    <3>3. \A i \in 1 .. Len(d) : Len(d[i]) <= MaximumRecordSize
      BY <1>1, <3>1 DEF Buffers
    <3>4. ASSUME NEW i \in 1 .. Len(a) PROVE Len(a[i]) <= MaximumRecordSize
      <4>1. i \in 1 .. Len(d) \/ i = Len(d) + 1
        BY <3>2
      <4> QED
        BY <3>2, <3>3, <4>1
    <3> QED
      BY <1>2, <3>1, <3>4
  <2>2. failed' => input' = <<>>
    BY <1>2
  <2> QED
    BY <2>1, <2>2 DEF Buffers
<1>5. ~failed' => stream' = Read' \o input'
  <2>1. SUFFICES ASSUME keep PROVE stream' = Read' \o input'
    BY <1>2
  <2>2. Read' = Records' \o <<>>
    BY DEF Read, Pending
  <2>3. Records' \in Seq(Nat)
    <3>1. Records \in Seq(Nat) /\ EncodeRecord(r) \in Seq(Nat)
      BY <1>1, ReadTyped, EncodeTyped
    <3>2. Records' = Records \o EncodeRecord(r)
      BY <1>1, <1>2, RecordsGrow
    <3> QED
      BY <3>1, <3>2, ConcatProperties
  <2>4. Records' \o <<>> = Records'
    BY <2>3, ConcatEmptySeq, Zenon
  <2>5. Records' = Read \o SubSeq(input, 1, k)
    BY <1>1, <1>2, RecordsGrow
  <2>6. Read' = Read \o SubSeq(input, 1, k)
    BY <2>2, <2>4, <2>5
  <2> QED
    BY <1>2, <2>1, <2>6, TurnReads
<1> QED
  BY <1>3, <1>4, <1>5 DEF ParserInv

(* ConsumeHeader: bytes added to those buffered follow what was read. *)
LEMMA Grown ==
  ASSUME NEW b \in Seq(Byte), NEW q \in Seq(Byte), NEW k \in 0 .. Len(q), NEW R \in Seq(Nat)
  PROVE  /\ b \o SubSeq(q, 1, k) \in Seq(Byte) /\ Len(b \o SubSeq(q, 1, k)) = Len(b) + k
         /\ R \o (b \o SubSeq(q, 1, k)) = (R \o b) \o SubSeq(q, 1, k)
<1>1. PICK h : h = SubSeq(q, 1, k)
  OBVIOUS
<1>2. h \in Seq(Byte) /\ Len(h) = k
  BY <1>1, Cut
<1>3. b \o h \in Seq(Byte) /\ Len(b \o h) = Len(b) + k
  BY <1>2, ConcatProperties
<1>4. b \in Seq(Nat) /\ h \in Seq(Nat)
  BY <1>2, ByteSeqs
<1>5. (R \o b) \o h = R \o (b \o h)
  BY <1>4, Associative
<1> QED
  BY <1>1, <1>3, <1>5

(* A complete header is the two digits of the size it announces. *)
LEMMA Announced ==
  ASSUME NEW f \in Seq(Byte), Len(f) = 2
  PROVE  LET size == f[1] * Base + f[2]
         IN /\ size \in Nat /\ size <= MAX_RECORD_SIZE
            /\ f = <<size \div Base, size % Base>>
<1>1. f[1] \in Byte /\ f[2] \in Byte
  <2>1. 1 \in 1 .. Len(f) /\ 2 \in 1 .. Len(f)
    OBVIOUS
  <2> QED
    BY <2>1, ElementOfSeq
<1>2. PICK a, b : a = f[1] /\ b = f[2]
  OBVIOUS
<1>3. a * Base + b \in Nat /\ (a * Base + b) \div Base = a /\ (a * Base + b) % Base = b
  BY <1>1, <1>2, Digits
<1>4. a * Base + b <= Base * Base - 1
  <2>1. a \in Nat /\ b \in Nat /\ Base \in Nat /\ a + 1 <= Base /\ b + 1 <= Base
    BY <1>1, <1>2, ByteSeqs DEF Byte
  <2>2. ASSUME NEW B \in Nat, NEW x \in Nat, NEW y \in Nat, x + 1 <= B, y + 1 <= B
        PROVE  x * B + y <= B * B - 1
    <3>1. (x + 1) * B <= B * B
      BY <2>2
    <3>2. (x + 1) * B = x * B + B
      OBVIOUS
    <3>3. x * B \in Nat /\ B * B \in Nat
      OBVIOUS
    <3> QED
      BY <2>2, <3>1, <3>2, <3>3
  <2> QED
    BY <2>1, <2>2
<1>5. f = <<a, b>>
  BY <1>2
<1> QED
  BY <1>2, <1>3, <1>4, <1>5 DEF MAX_RECORD_SIZE

LEMMA HeaderPreserves == ASSUME ParserInv, ConsumeHeader PROVE ParserInv'
<1>1. ParserTypes /\ Buffers /\ phase = "Header" /\ input # <<>>
  BY DEF ParserInv, ConsumeHeader
<1>2. ~failed /\ ~finished /\ Len(input) \in Nat /\ payload = <<>>
  BY <1>1, Running DEF Buffers
<1>3. UNCHANGED <<preface_offset, finished, stream>>
  BY DEF ConsumeHeader
<1>4. PICK k, f : k = Smallest(Len(input), RECORD_HEADER_SIZE - Len(header)) /\ f = HeaderWith(k)
  OBVIOUS
<1>5. k \in 0 .. Len(input) /\ Len(header) + k <= 2 /\ Len(header) \in Nat
  BY <1>1, <1>2, <1>4, ByteSeqs DEF ParserTypes, Smallest, RECORD_HEADER_SIZE
<1>6. Read = Records \o header /\ Records \in Seq(Nat)
  BY <1>1, ReadTyped DEF Read, Pending
<1>7. /\ f \in Seq(Byte) /\ Len(f) = Len(header) + k
      /\ Records \o f = Read \o SubSeq(input, 1, k)
  BY <1>1, <1>4, <1>5, <1>6, Grown DEF ParserTypes, HeaderWith
<1>8. Drop(input, k) \in Seq(Byte)
  BY <1>1, <1>5, Cut DEF ParserTypes
<1>9. CASE Len(f) < RECORD_HEADER_SIZE
  <2>1. /\ header' = f /\ input' = Drop(input, k)
        /\ UNCHANGED <<phase, expected_payload_size, payload, failed, delivered>>
    BY <1>4, <1>9 DEF ConsumeHeader
  <2>2. ParserTypes'
    BY <1>1, <1>3, <1>7, <1>8, <1>9, <2>1 DEF ParserTypes
  <2>3. Buffers'
    BY <1>1, <1>2, <1>3, <2>1 DEF Buffers
  <2>4. Read' = Records \o f
    BY <1>1, <2>1 DEF Read, Records, Pending
  <2>5. stream' = Read' \o input'
    BY <1>2, <1>3, <1>5, <1>7, <2>1, <2>4, TurnReads
  <2> QED
    BY <1>2, <1>3, <2>2, <2>3, <2>5 DEF ParserInv
<1>10. CASE ~(Len(f) < RECORD_HEADER_SIZE)
  <2>1. Len(f) = 2
    BY <1>5, <1>7, <1>10 DEF RECORD_HEADER_SIZE
  <2>2. PICK size : size = f[1] * Base + f[2]
    OBVIOUS
  <2>3. size \in Nat /\ size <= MAX_RECORD_SIZE /\ f = <<size \div Base, size % Base>>
    BY <1>7, <2>1, <2>2, Announced
  <2>4. header' = <<>> /\ expected_payload_size' = size
    BY <1>4, <1>10, <2>2 DEF ConsumeHeader
  <2>5. \/ /\ Oversized(size) /\ Fail
           /\ UNCHANGED <<phase, payload, delivered>>
        \/ /\ ~Oversized(size) /\ size = 0 /\ payload' = <<>> /\ phase' = phase
           /\ \E keep \in BOOLEAN : Deliver(<<>>, Drop(input, k), keep)
        \/ /\ ~Oversized(size) /\ size > 0 /\ payload' = <<>> /\ phase' = "Payload"
           /\ input' = Drop(input, k) /\ UNCHANGED <<failed, delivered>>
    BY <1>4, <1>10, <2>2 DEF ConsumeHeader
  <2>6. header' \in Seq(Byte) /\ Len(header') = 0
    BY <2>4
  <2>7. CASE Oversized(size) /\ Fail /\ UNCHANGED <<phase, payload, delivered>>
    <3>1. failed' = TRUE /\ input' = <<>>
      BY <2>7 DEF Fail
    <3>2. ParserTypes'
      BY <1>1, <1>3, <2>3, <2>4, <2>6, <2>7, <3>1 DEF ParserTypes, RECORD_HEADER_SIZE
    <3>3. Buffers'
      BY <1>1, <2>4, <2>7, <3>1 DEF Buffers
    <3> QED
      BY <1>2, <1>3, <3>1, <3>2, <3>3 DEF ParserInv
  <2>8. ASSUME size = 0, payload' = <<>>, phase' = phase,
               NEW keep \in BOOLEAN, Deliver(<<>>, Drop(input, k), keep)
        PROVE  ParserInv'
    <3>1. <<>> \in Seq(Byte) /\ Len(<<>>) = 0
      OBVIOUS
    <3>2. PICK e : e = <<>> /\ e \in Seq(Byte) /\ Len(e) = 0
      BY <3>1, Zenon
    <3>3. EncodeRecord(e) = f
      <4>1. EncodeRecord(e) = f \o <<>>
        BY <2>3, <2>8, <3>2 DEF EncodeRecord
      <4> QED
        BY <1>7, <4>1, ConcatEmptySeq
    <3>4. Deliver(e, Drop(input, k), keep) /\ Len(e) <= MaximumRecordSize
      BY <2>8, <3>2, ParserAssumption
    <3>5. Records \o EncodeRecord(e) = Read \o SubSeq(input, 1, k)
      BY <1>7, <3>3
    <3>6. phase' = "Header" /\ expected_payload_size' \in Nat
          /\ expected_payload_size' <= MAX_RECORD_SIZE
      BY <1>1, <2>3, <2>4, <2>8
    <3> QED
      BY <1>2, <1>3, <1>5, <2>4, <2>8, <3>2, <3>4, <3>5, <3>6, DeliverPreserves
  <2>9. CASE /\ ~Oversized(size) /\ size > 0 /\ payload' = <<>> /\ phase' = "Payload"
             /\ input' = Drop(input, k) /\ UNCHANGED <<failed, delivered>>
    <3>1. payload' \in Seq(Byte) /\ Len(payload') = 0 /\ size <= MaximumRecordSize
      BY <2>3, <2>9, ParserAssumption DEF Oversized
    <3>2. ParserTypes'
      BY <1>1, <1>3, <1>8, <2>3, <2>4, <2>6, <2>9, <3>1 DEF ParserTypes, RECORD_HEADER_SIZE
    <3>3. Buffers'
      BY <1>1, <1>2, <1>3, <2>3, <2>4, <2>9, <3>1 DEF Buffers
    <3>4. Read' = Records \o f
      <4>1. Read' = Records \o (f \o <<>>)
        BY <2>3, <2>4, <2>9 DEF Read, Records, Pending
      <4> QED
        BY <1>7, <4>1, ConcatEmptySeq
    <3>5. stream' = Read' \o input'
      BY <1>2, <1>3, <1>5, <1>7, <2>9, <3>4, TurnReads
    <3> QED
      BY <1>2, <1>3, <3>2, <3>3, <3>5 DEF ParserInv
  <2> QED
    BY <2>5, <2>7, <2>8, <2>9
<1> QED
  BY <1>9, <1>10

LEMMA PayloadPreserves == ASSUME ParserInv, ConsumePayload PROVE ParserInv'
<1>1. ParserTypes /\ Buffers /\ phase = "Payload" /\ input # <<>>
  BY DEF ParserInv, ConsumePayload
<1>2. /\ ~failed /\ ~finished /\ Len(input) \in Nat /\ header = <<>>
      /\ Len(payload) < expected_payload_size /\ expected_payload_size <= MaximumRecordSize
  BY <1>1, Running DEF Buffers
<1>3. UNCHANGED <<preface_offset, header, finished, stream>>
  BY DEF ConsumePayload
<1>4. PICK k, g, size : /\ k = PayloadBytes /\ g = payload \o SubSeq(input, 1, k)
                        /\ size = expected_payload_size
  OBVIOUS
<1>5. /\ k \in 0 .. Len(input) /\ Len(payload) + k <= size
      /\ Len(payload) \in Nat /\ size \in Nat
  BY <1>1, <1>2, <1>4, ByteSeqs DEF ParserTypes, Smallest, PayloadBytes
<1>6. PICK h : h = <<size \div Base, size % Base>>
  OBVIOUS
<1>7. h \in Seq(Nat)
  <2>1. size \div Base \in Nat /\ size % Base \in Nat
    <3>1. Base \in Nat /\ Base > 0
      BY ByteSeqs
    <3> QED
      BY <1>5, <3>1
  <2> QED
    BY <1>6, <2>1
<1>8. Read = Records \o (h \o payload) /\ Records \in Seq(Nat) /\ payload \in Seq(Nat)
  BY <1>1, <1>4, <1>6, ReadTyped, ByteSeqs DEF ParserTypes, Read, Pending
<1>9. /\ g \in Seq(Byte) /\ Len(g) = Len(payload) + k /\ Drop(input, k) \in Seq(Byte)
      /\ Records \o (h \o g) = Read \o SubSeq(input, 1, k)
  <2>1. PICK b : b = SubSeq(input, 1, k) /\ b \in Seq(Nat)
    BY <1>1, <1>5, Cut, ByteSeqs DEF ParserTypes
  <2>2. /\ g \in Seq(Byte) /\ Len(g) = Len(payload) + k
        /\ h \o g = (h \o payload) \o b
    <3>1. payload \in Seq(Byte) /\ input \in Seq(Byte)
      BY <1>1 DEF ParserTypes
    <3>2. LET x == payload \o SubSeq(input, 1, k)
          IN x \in Seq(Byte) /\ Len(x) = Len(payload) + k
             /\ h \o x = (h \o payload) \o SubSeq(input, 1, k)
      BY <1>5, <1>7, <3>1, Grown
    <3> QED
      BY <1>4, <2>1, <3>2
  <2>3. PICK x, y : x = Records /\ y = h \o payload
    OBVIOUS
  <2>4. (Records \o (h \o payload)) \o b = Records \o ((h \o payload) \o b)
    <3>1. x \in Seq(Nat) /\ y \in Seq(Nat)
      BY <1>7, <1>8, <2>3, ConcatProperties
    <3>2. (x \o y) \o b = x \o (y \o b)
      BY <2>1, <3>1, Associative
    <3> QED
      BY <2>3, <3>2
  <2>5. Drop(input, k) \in Seq(Byte)
    BY <1>1, <1>5, Cut DEF ParserTypes
  <2> QED
    BY <1>8, <2>1, <2>2, <2>4, <2>5
<1>10. CASE Len(g) = expected_payload_size
  <2>1. /\ phase' = "Header" /\ expected_payload_size' = 0 /\ payload' = <<>>
        /\ \E keep \in BOOLEAN : Deliver(g, Drop(input, k), keep)
    BY <1>4, <1>10 DEF ConsumePayload
  <2>2. PICK keep \in BOOLEAN : Deliver(g, Drop(input, k), keep)
    BY <2>1
  <2>3. Records \o EncodeRecord(g) = Read \o SubSeq(input, 1, k)
    BY <1>4, <1>6, <1>9, <1>10 DEF EncodeRecord
  <2>4. /\ Len(g) <= MaximumRecordSize /\ expected_payload_size' \in Nat
        /\ expected_payload_size' <= MAX_RECORD_SIZE
    BY <1>2, <1>10, <2>1, ByteSeqs DEF MAX_RECORD_SIZE
  <2>5. header' = <<>>
    BY <1>2, <1>3
  <2> QED
    BY <1>2, <1>3, <1>5, <1>9, <2>1, <2>2, <2>3, <2>4, <2>5, DeliverPreserves
<1>11. CASE Len(g) # expected_payload_size
  <2>1. /\ payload' = g /\ input' = Drop(input, k)
        /\ UNCHANGED <<phase, expected_payload_size, failed, delivered>>
    BY <1>4, <1>11 DEF ConsumePayload
  <2>2. ParserTypes'
    BY <1>1, <1>3, <1>9, <2>1 DEF ParserTypes
  <2>3. Len(g) < expected_payload_size
    BY <1>4, <1>5, <1>9, <1>11
  <2>4. Buffers'
    BY <1>1, <1>2, <1>3, <2>1, <2>3 DEF Buffers
  <2>5. Read' = Records \o (h \o g)
    BY <1>1, <1>4, <1>6, <2>1 DEF Read, Records, Pending
  <2>6. stream' = Read' \o input'
    BY <1>2, <1>3, <1>5, <1>9, <2>1, <2>5, TurnReads
  <2> QED
    BY <1>2, <1>3, <2>2, <2>4, <2>6 DEF ParserInv
<1> QED
  BY <1>10, <1>11

LEMMA ParserPreserved == ParserInv /\ [Next]_vars => ParserInv'
<1> SUFFICES ASSUME ParserInv, [Next]_vars PROVE ParserInv'
  OBVIOUS
<1>1. CASE UNCHANGED vars
  BY <1>1 DEF vars, ParserInv, ParserTypes, Buffers, Read, Records, Pending
<1>2. ASSUME NEW n \in 1 .. MaxFragment, NEW fragment \in [1 .. n -> Byte], Consume(fragment)
      PROVE  ParserInv'
  <2>1. n \in Nat
    BY ParserAssumption
  <2> QED
    BY <1>2, <2>1, ConsumePreserves
<1>3. CASE ConsumePreface
  BY <1>3, PrefacePreserves
<1>4. CASE ConsumeHeader
  BY <1>4, HeaderPreserves
<1>5. CASE ConsumePayload
  BY <1>5, PayloadPreserves
<1>6. CASE Finish
  BY <1>6, FinishPreserves
<1> QED
  BY <1>1, <1>2, <1>3, <1>4, <1>5, <1>6 DEF Next

(* What the parser has received is what it has read, buffered and left, in *)
(* every state of every run of its loop, whatever the preface, the limit   *)
(* and the fragments: the inductive invariant.                             *)
THEOREM ParserInvariant == Spec => []ParserInv
<1>1. Init => ParserInv
  BY InitParser
<1>2. ParserInv /\ [Next]_vars => ParserInv'
  BY ParserPreserved
<1> QED
  BY <1>1, <1>2, PTL DEF Spec

LEMMA ParserSafe == ParserInv => TypeOK /\ StreamIsRecords /\ BufferIsBounded /\ CleanEndIsComplete
<1> SUFFICES ASSUME ParserInv PROVE TypeOK /\ BufferIsBounded
  BY InvImplies
<1>1. ParserTypes /\ Buffers
  BY DEF ParserInv
<1>2. Len(<<>>) = 0 /\ MaximumRecordSize \in Nat
  BY ParserAssumption
<1>3. MAX_RECORD_SIZE \in Int
  BY ByteSeqs DEF MAX_RECORD_SIZE
<1>4. phase = "Payload" \/ payload = <<>>
  BY <1>1 DEF Buffers
<1>5. Len(payload) <= MaximumRecordSize
  <2>1. CASE phase = "Payload"
    BY <1>1, <1>2, <2>1, ByteSeqs DEF ParserTypes, Buffers
  <2>2. CASE payload = <<>>
    BY <1>2, <2>2
  <2> QED
    BY <1>4, <2>1, <2>2
<1>6. DOMAIN delivered = 1 .. Len(delivered)
  BY <1>1, LenProperties DEF ParserTypes
<1>7. BufferIsBounded
  BY <1>1, <1>5, <1>6 DEF Buffers, BufferIsBounded
<1>8. expected_payload_size \in 0 .. MAX_RECORD_SIZE
  BY <1>1, <1>3 DEF ParserTypes
<1>9. IF phase = "Payload" THEN Len(payload) < expected_payload_size ELSE payload = <<>>
  BY <1>1 DEF Buffers
<1>10. TypeOK
  BY <1>1, <1>8, <1>9 DEF ParserTypes, TypeOK
<1> QED
  BY <1>7, <1>10
=============================================================================
