-------------------------- MODULE TransportProofs ---------------------------
(***************************************************************************)
(* The codec and the connection it is for.  Reading gives back what was    *)
(* written, for every number a field can hold, every place in a message    *)
(* and every value of a byte; and a surface that may be created can be     *)
(* sent.  Whatever is said, however the streams are cut and whoever goes   *)
(* when, an end refuses only what deserves it, and each direction of a     *)
(* connection is a channel of messages.                                    *)
(***************************************************************************)
EXTENDS TransportCheck, SequenceTheorems, WellFoundedInduction, TLAPS

\* A digit and what is above it make up the number.
LEMMA SplitJoin ==
    ASSUME NEW v \in Nat, NEW m \in Nat, m >= 1
    PROVE  /\ v % m \in 0 .. m - 1 /\ v \div m \in Nat
           /\ v = (v % m) + m * (v \div m)
  OBVIOUS

\* What is above a digit of a number of so many is less.
LEMMA QuotientBound ==
    ASSUME NEW v \in Nat, NEW m \in Nat, NEW n \in Nat, m >= 1, v < m * n
    PROVE  v \div m < n
  <1>. DEFINE q == v \div m
  <1>1. q \in Nat /\ v = (v % m) + m * q /\ v % m \in Nat
    BY SplitJoin
  <1>. HIDE DEF q
  <1>2. SUFFICES ASSUME q >= n PROVE FALSE
    BY <1>1 DEF q
  <1>3. m * q >= m * n
    BY <1>1, <1>2
  <1>. QED
    BY <1>1, <1>3

\* A number of values, of digits that have some.
LEMMA ProductIsPositive ==
    ASSUME NEW a \in Nat, NEW n \in Nat, a >= 1, n >= 1
    PROVE  a * n \in Nat /\ a * n >= 1
  OBVIOUS

\* A byte and an integer of each width can have a value.
LEMMA Limits ==
    /\ Base \in Nat /\ Base >= 1
    /\ U16Limit \in Nat /\ U16Limit >= 1
    /\ U32Limit \in Nat /\ U32Limit >= 1
  <1>1. Base \in Nat /\ Base >= 1
    BY CodecAssumption
  <1>2. Base * Base \in Nat /\ Base * Base >= 1
    BY <1>1, ProductIsPositive, Zenon
  <1>3. Base * (Base * Base) \in Nat /\ Base * (Base * Base) >= 1
    BY <1>1, <1>2, ProductIsPositive, Zenon
  <1>4. Base * (Base * (Base * Base)) \in Nat /\ Base * (Base * (Base * Base)) >= 1
    BY <1>1, <1>3, ProductIsPositive, Zenon
  <1>. QED
    BY <1>1, <1>2, <1>4 DEF U16Limit, U32Limit

\* cw_store_u16_le and cw_load_u16_le.
LEMMA U16Bytes ==
    ASSUME NEW v \in U16
    PROVE  /\ StoreU16(v)[1] \in Byte /\ StoreU16(v)[2] \in Byte
           /\ v = StoreU16(v)[1] + Base * StoreU16(v)[2]
  <1>1. v \in Nat /\ v < Base * Base
    BY Limits DEF U16, U16Limit
  <1>2. /\ v % Base \in 0 .. Base - 1 /\ v \div Base \in Nat
        /\ v = (v % Base) + Base * (v \div Base)
    BY <1>1, Limits, SplitJoin, Zenon
  <1>3. v \div Base < Base
    BY <1>1, Limits, QuotientBound
  <1>. QED
    BY <1>2, <1>3, Limits DEF StoreU16, Byte

\* cw_store_u32_le and cw_load_u32_le.
LEMMA U32Bytes ==
    ASSUME NEW v \in U32
    PROVE  LET s == StoreU32(v) IN
           /\ s[1] \in Byte /\ s[2] \in Byte /\ s[3] \in Byte /\ s[4] \in Byte
           /\ v = s[1] + Base * (s[2] + Base * (s[3] + Base * s[4]))
  <1>. DEFINE v1 == v \div Base
              v2 == v1 \div Base
              v3 == v2 \div Base
  <1>0. StoreU32(v) = <<v % Base, v1 % Base, v2 % Base, v3>>
    BY DEF StoreU32
  <1>1. v \in Nat /\ v < Base * (Base * (Base * Base))
    BY Limits DEF U32, U32Limit
  <1>2. v % Base \in 0 .. Base - 1 /\ v1 \in Nat /\ v = (v % Base) + Base * v1
    BY <1>1, Limits, SplitJoin, Zenon
  <1>3. v1 < Base * (Base * Base)
    BY <1>1, Limits, QuotientBound
  <1>. HIDE DEF v1
  <1>4. v1 % Base \in 0 .. Base - 1 /\ v2 \in Nat /\ v1 = (v1 % Base) + Base * v2
    BY <1>2, Limits, SplitJoin, Zenon
  <1>5. v2 < Base * Base
    BY <1>2, <1>3, Limits, QuotientBound
  <1>. HIDE DEF v2
  <1>6. v2 % Base \in 0 .. Base - 1 /\ v3 \in Nat /\ v2 = (v2 % Base) + Base * v3
    BY <1>4, Limits, SplitJoin, Zenon
  <1>7. v3 < Base
    BY <1>4, <1>5, Limits, QuotientBound
  <1>. HIDE DEF v3
  <1>8. v = (v % Base) + Base * ((v1 % Base) + Base * ((v2 % Base) + Base * v3))
    BY <1>2, <1>4, <1>6
  <1>. QED
    BY <1>0, <1>2, <1>4, <1>6, <1>7, <1>8, Limits DEF Byte

ByteStrings == Seq(Byte)

\* What is stored is so many bytes.
LEMMA StoredBytes ==
    /\ Byte \subseteq Nat
    /\ \A v \in U16 : StoreU16(v) \in ByteStrings /\ Len(StoreU16(v)) = 2
    /\ \A v \in U32 : StoreU32(v) \in ByteStrings /\ Len(StoreU32(v)) = 4
  <1>1. ASSUME NEW v \in U16 PROVE StoreU16(v) \in ByteStrings /\ Len(StoreU16(v)) = 2
    <2>1. StoreU16(v)[1] \in Byte /\ StoreU16(v)[2] \in Byte
      BY U16Bytes
    <2>. QED
      BY <2>1 DEF StoreU16, ByteStrings
  <1>2. ASSUME NEW v \in U32 PROVE StoreU32(v) \in ByteStrings /\ Len(StoreU32(v)) = 4
    <2>1. /\ StoreU32(v)[1] \in Byte /\ StoreU32(v)[2] \in Byte
          /\ StoreU32(v)[3] \in Byte /\ StoreU32(v)[4] \in Byte
      BY U32Bytes
    <2>. QED
      BY <2>1 DEF StoreU32, ByteStrings
  <1>. QED
    BY <1>1, <1>2, Limits DEF Byte

\* A part of a message is found behind the parts before it.
LEMMA PartOfMessage ==
    ASSUME NEW p \in ByteStrings, NEW s \in ByteStrings, NEW q \in ByteStrings, NEW i \in 1 .. Len(s)
    PROVE  (p \o s \o q)[Len(p) + i] = s[i]
  BY DEF ByteStrings

\* An unsigned field is read back wherever in a message it was written.
THEOREM U16IsReadBack ==
    ASSUME NEW p \in ByteStrings, NEW q \in ByteStrings, NEW v \in U16
    PROVE  LoadU16(p \o StoreU16(v) \o q, Len(p)) = v
  <1>. DEFINE s == StoreU16(v)
              m == p \o s \o q
  <1>1. s \in ByteStrings /\ Len(s) = 2 /\ v = s[1] + Base * s[2]
    BY StoredBytes, U16Bytes
  <1>. HIDE DEF s
  <1>2. \A i \in 1 .. Len(s) : m[Len(p) + i] = s[i]
    BY <1>1, PartOfMessage, Zenon
  <1>. HIDE DEF m
  <1>3. LoadU16(m, Len(p)) = v
    BY <1>1, <1>2 DEF LoadU16
  <1>. QED
    BY <1>3 DEF m, s

\* The same for 32 bits: cw_store_u32_le and cw_load_u32_le, at any place.
THEOREM U32IsReadBack ==
    ASSUME NEW p \in ByteStrings, NEW q \in ByteStrings, NEW v \in U32
    PROVE  LoadU32(p \o StoreU32(v) \o q, Len(p)) = v
  <1>. DEFINE s == StoreU32(v)
              m == p \o s \o q
  <1>1. s \in ByteStrings /\ Len(s) = 4
    BY StoredBytes
  <1>2. v = s[1] + Base * (s[2] + Base * (s[3] + Base * s[4]))
    BY U32Bytes
  <1>. HIDE DEF s
  <1>3. \A i \in 1 .. Len(s) : m[Len(p) + i] = s[i]
    BY <1>1, PartOfMessage, Zenon
  <1>. HIDE DEF m
  <1>4. LoadU32(m, Len(p)) = v
    BY <1>1, <1>2, <1>3 DEF LoadU32
  <1>. QED
    BY <1>4 DEF m, s

\* Strings of bytes, joined.
LEMMA Concatenation ==
    ASSUME NEW a \in ByteStrings, NEW b \in ByteStrings
    PROVE  a \o b \in ByteStrings /\ Len(a \o b) = Len(a) + Len(b)
  BY DEF ByteStrings

\* Where three are joined first does not matter.
LEMMA Grouping ==
    ASSUME NEW a \in ByteStrings, NEW b \in ByteStrings, NEW c \in ByteStrings
    PROVE  (a \o b) \o c = a \o (b \o c)
  BY ConcatAssociative DEF ByteStrings

\* A number of 64 bits is stored as its two halves.
LEMMA U64Halves ==
    ASSUME NEW v \in U64
    PROVE  /\ v % U32Limit \in U32 /\ v \div U32Limit \in U32
           /\ v = (v % U32Limit) + U32Limit * (v \div U32Limit)
           /\ StoreU64(v) \in ByteStrings /\ Len(StoreU64(v)) = 8
  <1>1. v \in Nat /\ v < U32Limit * U32Limit
    BY Limits DEF U64
  <1>2. /\ v % U32Limit \in 0 .. U32Limit - 1 /\ v \div U32Limit \in Nat
        /\ v = (v % U32Limit) + U32Limit * (v \div U32Limit)
    BY <1>1, Limits, SplitJoin, Zenon
  <1>3. v \div U32Limit < U32Limit
    BY <1>1, Limits, QuotientBound
  <1>4. v % U32Limit \in U32 /\ v \div U32Limit \in U32
    BY <1>2, <1>3, Limits DEF U32
  <1>5. StoreU64(v) \in ByteStrings /\ Len(StoreU64(v)) = 8
    <2>. DEFINE low == StoreU32(v % U32Limit)
                high == StoreU32(v \div U32Limit)
    <2>1. low \in ByteStrings /\ Len(low) = 4 /\ high \in ByteStrings /\ Len(high) = 4
      BY <1>4, StoredBytes
    <2>2. StoreU64(v) = low \o high
      BY DEF StoreU64
    <2>. HIDE DEF low, high
    <2>3. low \o high \in ByteStrings /\ Len(low \o high) = Len(low) + Len(high)
      BY <2>1, Concatenation, Zenon
    <2>. QED
      BY <2>1, <2>2, <2>3
  <1>. QED
    BY <1>2, <1>4, <1>5

\* The same for 64 bits: cw_store_u64_le and cw_load_u64_le, at any place.
THEOREM U64IsReadBack ==
    ASSUME NEW p \in ByteStrings, NEW q \in ByteStrings, NEW v \in U64
    PROVE  LoadU64(p \o StoreU64(v) \o q, Len(p)) = v
  <1>. DEFINE low  == StoreU32(v % U32Limit)
              high == StoreU32(v \div U32Limit)
              m == p \o StoreU64(v) \o q
  <1>1. /\ v % U32Limit \in U32 /\ v \div U32Limit \in U32
        /\ v = (v % U32Limit) + U32Limit * (v \div U32Limit)
    BY U64Halves
  <1>2. /\ low \in ByteStrings /\ Len(low) = 4 /\ high \in ByteStrings
        /\ StoreU64(v) = low \o high
    BY <1>1, StoredBytes DEF StoreU64
  <1>3. LoadU32(p \o low \o (high \o q), Len(p)) = v % U32Limit
    BY <1>1, <1>2, Concatenation, U32IsReadBack
  <1>4. LoadU32((p \o low) \o high \o q, Len(p \o low)) = v \div U32Limit
    BY <1>1, <1>2, Concatenation, U32IsReadBack
  <1>. HIDE DEF low, high
  <1>5. m = p \o low \o (high \o q) /\ m = (p \o low) \o high \o q
    <2>1. p \o (low \o high) = (p \o low) \o high
      BY <1>2, Grouping
    <2>2. p \o low \in ByteStrings
      BY <1>2, Concatenation
    <2>3. ((p \o low) \o high) \o q = (p \o low) \o (high \o q)
      BY <1>2, <2>2, Grouping
    <2>. QED
      BY <1>2, <2>1, <2>3
  <1>6. Len(p \o low) = Len(p) + 4
    BY <1>2, Concatenation
  <1>. HIDE DEF m
  <1>7. LoadU64(m, Len(p)) = (v % U32Limit) + U32Limit * (v \div U32Limit)
    BY <1>3, <1>4, <1>5, <1>6 DEF LoadU64
  <1>. QED
    BY <1>1, <1>7 DEF m

\* A signed field is read back too: cw_store_i32_le and cw_load_i32_le agree on
\* two's complement without a conversion the C standard leaves open.
THEOREM I32IsReadBack ==
    ASSUME NEW p \in ByteStrings, NEW q \in ByteStrings, NEW v \in I32
    PROVE  LoadI32(p \o StoreI32(v) \o q, Len(p)) = v
  <1>. DEFINE bits == IF v >= 0 THEN v ELSE Half + (v + Half)
  <1>1. Half \in Nat /\ Half + Half <= U32Limit
    BY Limits DEF Half
  <1>2. bits \in U32 /\ v \in Int /\ -Half <= v /\ v < Half
    BY <1>1, Limits DEF I32, U32
  <1>3. LoadU32(p \o StoreI32(v) \o q, Len(p)) = bits
    BY <1>2, U32IsReadBack DEF StoreI32
  <1>4. LoadI32(p \o StoreI32(v) \o q, Len(p)) =
           IF bits < Half THEN bits ELSE (bits - Half) - Half
    BY <1>3 DEF LoadI32
  <1>. QED
    BY <1>1, <1>2, <1>4

HeaderType ==
    [magic : U32, version : U16, type : U16, flags : U32, length : U32, sequence : U64]

\* cw_header_encode and cw_header_decode use the same offsets: a header is
\* read as it was written, whatever follows it in the stream.
THEOREM HeaderIsReadBack ==
    ASSUME NEW h \in HeaderType, NEW rest \in ByteStrings
    PROVE  HeaderOf(HeaderBytes(h) \o rest) = h
  <1>1. /\ h.magic \in U32 /\ h.version \in U16 /\ h.type \in U16
        /\ h.flags \in U32 /\ h.length \in U32 /\ h.sequence \in U64
        /\ h = [magic |-> h.magic, version |-> h.version, type |-> h.type,
                flags |-> h.flags, length |-> h.length, sequence |-> h.sequence]
    BY DEF HeaderType
  <1>. DEFINE s1 == StoreU32(h.magic)   s2 == StoreU16(h.version)
              s3 == StoreU16(h.type)    s4 == StoreU32(h.flags)
              s5 == StoreU32(h.length)  s6 == StoreU64(h.sequence)
  <1>2. /\ s1 \in ByteStrings /\ s2 \in ByteStrings /\ s3 \in ByteStrings
        /\ s4 \in ByteStrings /\ s5 \in ByteStrings /\ s6 \in ByteStrings
        /\ Len(s1) = 4 /\ Len(s2) = 2 /\ Len(s3) = 2 /\ Len(s4) = 4 /\ Len(s5) = 4
    BY <1>1, StoredBytes, U64Halves
  <1>3. /\ \A p, q \in ByteStrings : LoadU32(p \o s1 \o q, Len(p)) = h.magic
        /\ \A p, q \in ByteStrings : LoadU16(p \o s2 \o q, Len(p)) = h.version
        /\ \A p, q \in ByteStrings : LoadU16(p \o s3 \o q, Len(p)) = h.type
        /\ \A p, q \in ByteStrings : LoadU32(p \o s4 \o q, Len(p)) = h.flags
        /\ \A p, q \in ByteStrings : LoadU32(p \o s5 \o q, Len(p)) = h.length
        /\ \A p, q \in ByteStrings : LoadU64(p \o s6 \o q, Len(p)) = h.sequence
    BY <1>1, U16IsReadBack, U32IsReadBack, U64IsReadBack, Zenon
  <1>4. HeaderBytes(h) = s1 \o s2 \o s3 \o s4 \o s5 \o s6
    BY DEF HeaderBytes
  <1>. HIDE DEF s1, s2, s3, s4, s5, s6
  <1>. DEFINE p2 == s1 \o s2   p3 == p2 \o s3   p4 == p3 \o s4   p5 == p4 \o s5
              q5 == s6 \o rest   q4 == s5 \o q5   q3 == s4 \o q4   q2 == s3 \o q3
              q1 == s2 \o q2
              m  == (p5 \o s6) \o rest
  <1>5. HeaderBytes(h) \o rest = m
    BY <1>4
  <1>6. /\ p2 \in ByteStrings /\ Len(p2) = 6 /\ p3 \in ByteStrings /\ Len(p3) = 8
        /\ p4 \in ByteStrings /\ Len(p4) = 12 /\ p5 \in ByteStrings /\ Len(p5) = 16
    <2>1. p2 \in ByteStrings /\ Len(p2) = Len(s1) + Len(s2)
      BY <1>2, Concatenation, Zenon
    <2>2. p3 \in ByteStrings /\ Len(p3) = Len(p2) + Len(s3)
      BY <1>2, <2>1, Concatenation, Zenon
    <2>3. p4 \in ByteStrings /\ Len(p4) = Len(p3) + Len(s4)
      BY <1>2, <2>2, Concatenation, Zenon
    <2>4. p5 \in ByteStrings /\ Len(p5) = Len(p4) + Len(s5)
      BY <1>2, <2>3, Concatenation, Zenon
    <2>. HIDE DEF p2, p3, p4, p5
    <2>. QED
      BY <1>2, <2>1, <2>2, <2>3, <2>4
  <1>7. /\ q5 \in ByteStrings /\ q4 \in ByteStrings /\ q3 \in ByteStrings /\ q2 \in ByteStrings /\ q1 \in ByteStrings
    BY <1>2, Concatenation, Zenon
  <1>8. m = (p5 \o s6) \o rest
    OBVIOUS
  <1>. HIDE DEF p2, p3, p4, p5, q1, q2, q3, q4, q5, m
  <1>9. LoadU64(m, 16) = h.sequence
    <2>1. p5 \in ByteStrings /\ rest \in ByteStrings /\ Len(p5) = 16
      BY <1>2, <1>6, <1>7
    <2>2. LoadU64(p5 \o s6 \o rest, Len(p5)) = h.sequence
      BY <1>3, <2>1, Zenon
    <2>. QED
      BY <1>8, <2>1, <2>2, Zenon
  <1>10. m = (p4 \o s5) \o q5
    <2>1. p5 \in ByteStrings /\ s6 \in ByteStrings /\ rest \in ByteStrings
      BY <1>2, <1>6, <1>7
    <2>2. (p5 \o s6) \o rest = p5 \o (s6 \o rest)
      BY <2>1, Grouping, ZenonT(30)
    <2>. QED
      BY <1>8, <2>2, Zenon DEF p5, q5
  <1>11. LoadU32(m, 12) = h.length
    <2>1. p4 \in ByteStrings /\ q5 \in ByteStrings /\ Len(p4) = 12
      BY <1>2, <1>6, <1>7
    <2>2. LoadU32(p4 \o s5 \o q5, Len(p4)) = h.length
      BY <1>3, <2>1, Zenon
    <2>. QED
      BY <1>10, <2>1, <2>2, Zenon
  <1>12. m = (p3 \o s4) \o q4
    <2>1. p4 \in ByteStrings /\ s5 \in ByteStrings /\ q5 \in ByteStrings
      BY <1>2, <1>6, <1>7
    <2>2. (p4 \o s5) \o q5 = p4 \o (s5 \o q5)
      BY <2>1, Grouping, ZenonT(30)
    <2>. QED
      BY <1>10, <2>2, Zenon DEF p4, q4
  <1>13. LoadU32(m, 8) = h.flags
    <2>1. p3 \in ByteStrings /\ q4 \in ByteStrings /\ Len(p3) = 8
      BY <1>2, <1>6, <1>7
    <2>2. LoadU32(p3 \o s4 \o q4, Len(p3)) = h.flags
      BY <1>3, <2>1, Zenon
    <2>. QED
      BY <1>12, <2>1, <2>2, Zenon
  <1>14. m = (p2 \o s3) \o q3
    <2>1. p3 \in ByteStrings /\ s4 \in ByteStrings /\ q4 \in ByteStrings
      BY <1>2, <1>6, <1>7
    <2>2. (p3 \o s4) \o q4 = p3 \o (s4 \o q4)
      BY <2>1, Grouping, ZenonT(30)
    <2>. QED
      BY <1>12, <2>2, Zenon DEF p3, q3
  <1>15. LoadU16(m, 6) = h.type
    <2>1. p2 \in ByteStrings /\ q3 \in ByteStrings /\ Len(p2) = 6
      BY <1>2, <1>6, <1>7
    <2>2. LoadU16(p2 \o s3 \o q3, Len(p2)) = h.type
      BY <1>3, <2>1, Zenon
    <2>. QED
      BY <1>14, <2>1, <2>2, Zenon
  <1>16. m = (s1 \o s2) \o q2
    <2>1. p2 \in ByteStrings /\ s3 \in ByteStrings /\ q3 \in ByteStrings
      BY <1>2, <1>6, <1>7
    <2>2. (p2 \o s3) \o q3 = p2 \o (s3 \o q3)
      BY <2>1, Grouping, ZenonT(30)
    <2>. QED
      BY <1>14, <2>2, Zenon DEF p2, q2
  <1>17. LoadU16(m, 4) = h.version
    <2>1. s1 \in ByteStrings /\ q2 \in ByteStrings /\ Len(s1) = 4
      BY <1>2, <1>6, <1>7
    <2>2. LoadU16(s1 \o s2 \o q2, Len(s1)) = h.version
      BY <1>3, <2>1, Zenon
    <2>. QED
      BY <1>16, <2>1, <2>2, Zenon
  <1>18. LoadU32(m, 0) = h.magic
    <2>1. <<>> \in ByteStrings /\ Len(<<>>) = 0 /\ <<>> \o s1 = s1
      BY <1>2 DEF ByteStrings
    <2>2. s1 \in ByteStrings /\ s2 \in ByteStrings /\ q2 \in ByteStrings
      BY <1>2, <1>7
    <2>3. (s1 \o s2) \o q2 = s1 \o (s2 \o q2)
      BY <2>2, Grouping, ZenonT(30)
    <2>4. m = (<<>> \o s1) \o q1
      BY <1>16, <2>1, <2>3, Zenon DEF q1
    <2>. QED
      BY <1>3, <1>7, <2>1, <2>4, Zenon
  <1>. QED
    BY <1>1, <1>5, <1>9, <1>11, <1>13, <1>15, <1>17, <1>18 DEF HeaderOf

-----------------------------------------------------------------------------
\* A surface is as large as a frame of it: a stride of whole rows fits in a
\* field, and so does the rest.
LEMMA SurfaceBounds ==
    ASSUME NEW w, NEW h, ValidFrameSurface(w, h)
    PROVE  /\ w \in U32 /\ h \in U32 /\ 4 * w \in U32 /\ 1 \in U32
           /\ w \in Nat /\ h \in Nat /\ h >= 1
           /\ (4 * w) * h = w * h * 4
           /\ w * h * 4 \in Nat /\ 32 + w * h * 4 <= MaxPayload
  <1>1. /\ w \in Nat /\ w >= 1 /\ w <= MaxDimension
        /\ h \in Nat /\ h >= 1 /\ h <= MaxDimension
        /\ MaxDimension \in Nat /\ MaxDimension < U32Limit
        /\ MaxPayload \in Nat /\ MaxPayload < U32Limit /\ MaxPayload >= 32
        /\ w * h * 4 <= MaxPayload - 32
    BY CodecAssumption, Limits DEF ValidFrameSurface, ValidSurface, U32
  <1>2. w * h \in Nat /\ w * h >= w /\ (4 * w) * h = w * h * 4
    BY <1>1
  <1>. QED
    BY <1>1, <1>2, Limits DEF U32

\* The comment on valid_frame_surface: a window is only created or resized to
\* what one WINDOW_FRAME can hold.  So the frame of a window that was accepted
\* is never the message that ends the connection.
THEOREM SurfaceFitsItsFrame ==
    ASSUME NEW id \in U64, NEW sequence \in U64, sequence # 0,
           NEW w, NEW h, ValidFrameSurface(w, h),
           NEW pixels \in ByteStrings, Len(pixels) = w * h * 4
    PROVE  ValidFrame(FramePrefix(id, sequence, w, h, 4 * w) \o pixels)
  <1>1. /\ w \in U32 /\ h \in U32 /\ 4 * w \in U32 /\ 1 \in U32
        /\ w \in Nat /\ h \in Nat
        /\ (4 * w) * h = w * h * 4
        /\ w * h * 4 \in Nat /\ 32 + w * h * 4 <= MaxPayload
    BY SurfaceBounds
  <1>. DEFINE s1 == StoreU64(id)   s2 == StoreU64(sequence)
              s3 == StoreU32(w)    s4 == StoreU32(h)
              s5 == StoreU32(4 * w)   s6 == StoreU32(1)
  <1>4. /\ s1 \in ByteStrings /\ s2 \in ByteStrings /\ s3 \in ByteStrings
        /\ s4 \in ByteStrings /\ s5 \in ByteStrings /\ s6 \in ByteStrings
        /\ Len(s1) = 8 /\ Len(s2) = 8 /\ Len(s3) = 4 /\ Len(s4) = 4
        /\ Len(s5) = 4 /\ Len(s6) = 4
    BY <1>1, StoredBytes, U64Halves
  <1>5. /\ \A p, q \in ByteStrings : LoadU64(p \o s2 \o q, Len(p)) = sequence
        /\ \A p, q \in ByteStrings : LoadU32(p \o s3 \o q, Len(p)) = w
        /\ \A p, q \in ByteStrings : LoadU32(p \o s4 \o q, Len(p)) = h
        /\ \A p, q \in ByteStrings : LoadU32(p \o s5 \o q, Len(p)) = 4 * w
        /\ \A p, q \in ByteStrings : LoadU32(p \o s6 \o q, Len(p)) = 1
    BY <1>1, U32IsReadBack, U64IsReadBack, Zenon
  <1>6. FramePrefix(id, sequence, w, h, 4 * w) = s1 \o s2 \o s3 \o s4 \o s5 \o s6
    BY DEF FramePrefix
  <1>. HIDE DEF s1, s2, s3, s4, s5, s6
  <1>. DEFINE p2 == s1 \o s2   p3 == p2 \o s3   p4 == p3 \o s4   p5 == p4 \o s5
              p6 == p5 \o s6
              q5 == s6 \o pixels   q4 == s5 \o q5   q3 == s4 \o q4   q2 == s3 \o q3
              m  == (p5 \o s6) \o pixels
  <1>7. /\ p2 \in ByteStrings /\ Len(p2) = 16 /\ p3 \in ByteStrings /\ Len(p3) = 20
        /\ p4 \in ByteStrings /\ Len(p4) = 24 /\ p5 \in ByteStrings /\ Len(p5) = 28
        /\ Len(m) = 32 + Len(pixels)
    <2>1. p2 \in ByteStrings /\ Len(p2) = Len(s1) + Len(s2)
      BY <1>4, Concatenation, Zenon
    <2>2. p3 \in ByteStrings /\ Len(p3) = Len(p2) + Len(s3)
      BY <1>4, <2>1, Concatenation, Zenon
    <2>3. p4 \in ByteStrings /\ Len(p4) = Len(p3) + Len(s4)
      BY <1>4, <2>2, Concatenation, Zenon
    <2>4. p5 \in ByteStrings /\ Len(p5) = Len(p4) + Len(s5)
      BY <1>4, <2>3, Concatenation, Zenon
    <2>5. p6 \in ByteStrings /\ Len(p6) = Len(p5) + Len(s6)
      BY <1>4, <2>4, Concatenation, Zenon
    <2>6. Len(m) = Len(p6) + Len(pixels)
      BY <2>5, Concatenation, Zenon
    <2>. HIDE DEF p2, p3, p4, p5, p6, m
    <2>7. Len(pixels) \in Nat
      BY <1>1
    <2>. QED
      BY <1>4, <2>1, <2>2, <2>3, <2>4, <2>5, <2>6, <2>7
  <1>8. /\ q5 \in ByteStrings /\ q4 \in ByteStrings /\ q3 \in ByteStrings /\ q2 \in ByteStrings
    BY <1>4, Concatenation, Zenon
  <1>9. m = (p5 \o s6) \o pixels
    OBVIOUS
  <1>. HIDE DEF p2, p3, p4, p5, p6, q2, q3, q4, q5, m
  <1>10. LoadU32(m, 28) = 1
    <2>1. p5 \in ByteStrings /\ pixels \in ByteStrings /\ Len(p5) = 28
      BY <1>4, <1>7, <1>8
    <2>2. LoadU32(p5 \o s6 \o pixels, Len(p5)) = 1
      BY <1>5, <2>1, Zenon
    <2>. QED
      BY <1>9, <2>1, <2>2, Zenon
  <1>11. m = (p4 \o s5) \o q5
    <2>1. p5 \in ByteStrings /\ s6 \in ByteStrings /\ pixels \in ByteStrings
      BY <1>4, <1>7, <1>8
    <2>2. (p5 \o s6) \o pixels = p5 \o (s6 \o pixels)
      BY <2>1, Grouping, ZenonT(30)
    <2>. QED
      BY <1>9, <2>2, Zenon DEF p5, q5
  <1>12. LoadU32(m, 24) = 4 * w
    <2>1. p4 \in ByteStrings /\ q5 \in ByteStrings /\ Len(p4) = 24
      BY <1>4, <1>7, <1>8
    <2>2. LoadU32(p4 \o s5 \o q5, Len(p4)) = 4 * w
      BY <1>5, <2>1, Zenon
    <2>. QED
      BY <1>11, <2>1, <2>2, Zenon
  <1>13. m = (p3 \o s4) \o q4
    <2>1. p4 \in ByteStrings /\ s5 \in ByteStrings /\ q5 \in ByteStrings
      BY <1>4, <1>7, <1>8
    <2>2. (p4 \o s5) \o q5 = p4 \o (s5 \o q5)
      BY <2>1, Grouping, ZenonT(30)
    <2>. QED
      BY <1>11, <2>2, Zenon DEF p4, q4
  <1>14. LoadU32(m, 20) = h
    <2>1. p3 \in ByteStrings /\ q4 \in ByteStrings /\ Len(p3) = 20
      BY <1>4, <1>7, <1>8
    <2>2. LoadU32(p3 \o s4 \o q4, Len(p3)) = h
      BY <1>5, <2>1, Zenon
    <2>. QED
      BY <1>13, <2>1, <2>2, Zenon
  <1>15. m = (p2 \o s3) \o q3
    <2>1. p3 \in ByteStrings /\ s4 \in ByteStrings /\ q4 \in ByteStrings
      BY <1>4, <1>7, <1>8
    <2>2. (p3 \o s4) \o q4 = p3 \o (s4 \o q4)
      BY <2>1, Grouping, ZenonT(30)
    <2>. QED
      BY <1>13, <2>2, Zenon DEF p3, q3
  <1>16. LoadU32(m, 16) = w
    <2>1. p2 \in ByteStrings /\ q3 \in ByteStrings /\ Len(p2) = 16
      BY <1>4, <1>7, <1>8
    <2>2. LoadU32(p2 \o s3 \o q3, Len(p2)) = w
      BY <1>5, <2>1, Zenon
    <2>. QED
      BY <1>15, <2>1, <2>2, Zenon
  <1>17. m = (s1 \o s2) \o q2
    <2>1. p2 \in ByteStrings /\ s3 \in ByteStrings /\ q3 \in ByteStrings
      BY <1>4, <1>7, <1>8
    <2>2. (p2 \o s3) \o q3 = p2 \o (s3 \o q3)
      BY <2>1, Grouping, ZenonT(30)
    <2>. QED
      BY <1>15, <2>2, Zenon DEF p2, q2
  <1>18. LoadU64(m, 8) = sequence
    <2>1. s1 \in ByteStrings /\ q2 \in ByteStrings /\ Len(s1) = 8
      BY <1>4, <1>7, <1>8
    <2>. QED
      BY <1>5, <1>17, <2>1, Zenon
  <1>19. ValidFrame(m)
    BY <1>1, <1>7, <1>10, <1>12, <1>14, <1>16, <1>18 DEF ValidFrame
  <1>. QED
    BY <1>6, <1>19, Zenon DEF m, p5, p4, p3, p2

-----------------------------------------------------------------------------
(* The payload of a message, read field by field.                          *)

\* The bytes s are at offset o of p.
Found(p, o, s) ==
    /\ o \in Nat /\ o + Len(s) <= Len(p)
    /\ \A i \in 1 .. Len(s) : p[o + i] = s[i]

\* A number that is found is read: cw_load_u16_le at that offset.
LEMMA FoundU16 ==
    ASSUME NEW p, NEW o, NEW v \in U16, Found(p, o, StoreU16(v))
    PROVE  LoadU16(p, o) = v
  <1>. DEFINE s == StoreU16(v)
  <1>1. s \in ByteStrings /\ Len(s) = 2 /\ v = s[1] + Base * s[2]
    BY StoredBytes, U16Bytes
  <1>. HIDE DEF s
  <1>2. p[o + 1] = s[1] /\ p[o + 2] = s[2]
    BY <1>1 DEF Found, s
  <1>. QED
    BY <1>1, <1>2 DEF LoadU16

\* cw_load_u32_le.
LEMMA FoundU32 ==
    ASSUME NEW p, NEW o, NEW v \in U32, Found(p, o, StoreU32(v))
    PROVE  LoadU32(p, o) = v
  <1>. DEFINE s == StoreU32(v)
  <1>1. s \in ByteStrings /\ Len(s) = 4
    BY StoredBytes
  <1>2. v = s[1] + Base * (s[2] + Base * (s[3] + Base * s[4]))
    BY U32Bytes
  <1>. HIDE DEF s
  <1>3. p[o + 1] = s[1] /\ p[o + 2] = s[2] /\ p[o + 3] = s[3] /\ p[o + 4] = s[4]
    BY <1>1 DEF Found, s
  <1>. QED
    BY <1>2, <1>3 DEF LoadU32

\* cw_load_i32_le.
LEMMA FoundI32 ==
    ASSUME NEW p, NEW o, NEW v \in I32, Found(p, o, StoreI32(v))
    PROVE  LoadI32(p, o) = v
  <1>. DEFINE bits == IF v >= 0 THEN v ELSE Half + (v + Half)
  <1>1. Half \in Nat /\ Half + Half <= U32Limit
    BY Limits DEF Half
  <1>2. bits \in U32 /\ v \in Int /\ -Half <= v /\ v < Half
    BY <1>1, Limits DEF I32, U32
  <1>3. LoadU32(p, o) = bits
    BY <1>2, FoundU32 DEF StoreI32
  <1>4. LoadI32(p, o) = IF bits < Half THEN bits ELSE (bits - Half) - Half
    BY <1>3 DEF LoadI32
  <1>. QED
    BY <1>1, <1>2, <1>4

\* What is found in a part is found in the whole.
LEMMA FoundInPart ==
    ASSUME NEW p \in ByteStrings, NEW o, NEW s \in ByteStrings, NEW k, NEW t \in ByteStrings,
           Found(p, o, s), Found(s, k, t)
    PROVE  Found(p, o + k, t)
  <1>0. Len(p) \in Nat /\ Len(s) \in Nat /\ Len(t) \in Nat
    BY LenProperties DEF ByteStrings
  <1>1. /\ o \in Nat /\ k \in Nat /\ o + Len(s) <= Len(p) /\ k + Len(t) <= Len(s)
        /\ \A i \in 1 .. Len(s) : p[o + i] = s[i]
        /\ \A i \in 1 .. Len(t) : s[k + i] = t[i]
    BY DEF Found
  <1>2. o + k \in Nat /\ (o + k) + Len(t) <= Len(p)
    BY <1>0, <1>1
  <1>3. ASSUME NEW i \in 1 .. Len(t) PROVE p[(o + k) + i] = t[i]
    <2>1. k + i \in 1 .. Len(s) /\ (o + k) + i = o + (k + i)
      BY <1>0, <1>1
    <2>. QED
      BY <1>1, <2>1
  <1>. QED
    BY <1>2, <1>3 DEF Found

\* A whole is found in itself.
LEMMA OnePart ==
    ASSUME NEW a \in ByteStrings
    PROVE  Found(a, 0, a)
  <1>1. Len(a) \in Nat /\ \A i \in 1 .. Len(a) : 0 + i = i
    BY LenProperties DEF ByteStrings
  <1>. QED
    BY <1>1 DEF Found

\* Two parts of a whole.
LEMMA TwoParts ==
    ASSUME NEW a \in ByteStrings, NEW b \in ByteStrings
    PROVE  /\ a \o b \in ByteStrings /\ Len(a \o b) = Len(a) + Len(b)
           /\ Found(a \o b, 0, a) /\ Found(a \o b, Len(a), b)
  <1>1. a \o b \in ByteStrings /\ Len(a \o b) = Len(a) + Len(b)
    BY Concatenation
  <1>2. Len(a) \in Nat /\ Len(b) \in Nat
    BY LenProperties DEF ByteStrings
  <1>3. \A i \in 1 .. Len(a) : (a \o b)[0 + i] = a[i]
    BY <1>2 DEF ByteStrings
  <1>4. \A i \in 1 .. Len(b) : (a \o b)[Len(a) + i] = b[i]
    BY <1>2 DEF ByteStrings
  <1>5. Found(a \o b, 0, a)
    BY <1>1, <1>2, <1>3 DEF Found
  <1>6. Found(a \o b, Len(a), b)
    BY <1>1, <1>2, <1>4 DEF Found
  <1>. QED
    BY <1>1, <1>5, <1>6

\* What follows does not hide what is there.
LEMMA FoundBehindIt ==
    ASSUME NEW a \in ByteStrings, NEW b \in ByteStrings, NEW o, NEW s \in ByteStrings, Found(a, o, s)
    PROVE  Found(a \o b, o, s)
  <1>1. a \o b \in ByteStrings /\ Found(a \o b, 0, a)
    BY TwoParts
  <1>2. Found(a \o b, 0 + o, s)
    BY <1>1, FoundInPart, Zenon
  <1>3. 0 + o = o
    BY DEF Found
  <1>. QED
    BY <1>2, <1>3

\* Three parts of a whole.
LEMMA ThreeParts ==
    ASSUME NEW a \in ByteStrings, NEW b \in ByteStrings, NEW c \in ByteStrings
    PROVE  LET p == a \o b \o c IN
           /\ p \in ByteStrings /\ Len(p) = Len(a) + Len(b) + Len(c)
           /\ Found(p, 0, a) /\ Found(p, Len(a), b) /\ Found(p, Len(a) + Len(b), c)
  <1>. DEFINE q == a \o b
  <1>1. /\ q \in ByteStrings /\ Len(q) = Len(a) + Len(b)
        /\ Found(q, 0, a) /\ Found(q, Len(a), b)
    BY TwoParts
  <1>. HIDE DEF q
  <1>2. /\ q \o c \in ByteStrings /\ Len(q \o c) = Len(q) + Len(c)
        /\ Found(q \o c, Len(q), c)
    BY <1>1, TwoParts
  <1>3. Found(q \o c, 0, a) /\ Found(q \o c, Len(a), b)
    BY <1>1, FoundBehindIt
  <1>. QED
    BY <1>1, <1>2, <1>3 DEF q

\* Four parts of a whole.
LEMMA FourParts ==
    ASSUME NEW a \in ByteStrings, NEW b \in ByteStrings, NEW c \in ByteStrings,
           NEW d \in ByteStrings
    PROVE  LET p == a \o b \o c \o d IN
           /\ p \in ByteStrings /\ Len(p) = Len(a) + Len(b) + Len(c) + Len(d)
           /\ Found(p, 0, a) /\ Found(p, Len(a), b) /\ Found(p, Len(a) + Len(b), c)
           /\ Found(p, Len(a) + Len(b) + Len(c), d)
  <1>. DEFINE q == a \o b \o c
  <1>1. /\ q \in ByteStrings /\ Len(q) = Len(a) + Len(b) + Len(c)
        /\ Found(q, 0, a) /\ Found(q, Len(a), b) /\ Found(q, Len(a) + Len(b), c)
    BY ThreeParts
  <1>. HIDE DEF q
  <1>2. /\ q \o d \in ByteStrings /\ Len(q \o d) = Len(q) + Len(d)
        /\ Found(q \o d, Len(q), d)
    BY <1>1, TwoParts
  <1>3. Found(q \o d, 0, a) /\ Found(q \o d, Len(a), b) /\ Found(q \o d, Len(a) + Len(b), c)
    BY <1>1, FoundBehindIt
  <1>. QED
    BY <1>1, <1>2, <1>3 DEF q

\* Five parts of a whole.
LEMMA FiveParts ==
    ASSUME NEW a \in ByteStrings, NEW b \in ByteStrings, NEW c \in ByteStrings,
           NEW d \in ByteStrings, NEW e \in ByteStrings
    PROVE  LET p == a \o b \o c \o d \o e IN
           /\ p \in ByteStrings /\ Len(p) = Len(a) + Len(b) + Len(c) + Len(d) + Len(e)
           /\ Found(p, 0, a) /\ Found(p, Len(a), b) /\ Found(p, Len(a) + Len(b), c)
           /\ Found(p, Len(a) + Len(b) + Len(c), d)
           /\ Found(p, Len(a) + Len(b) + Len(c) + Len(d), e)
  <1>. DEFINE q == a \o b \o c \o d
  <1>1. /\ q \in ByteStrings /\ Len(q) = Len(a) + Len(b) + Len(c) + Len(d)
        /\ Found(q, 0, a) /\ Found(q, Len(a), b) /\ Found(q, Len(a) + Len(b), c)
        /\ Found(q, Len(a) + Len(b) + Len(c), d)
    BY FourParts
  <1>. HIDE DEF q
  <1>2. /\ q \o e \in ByteStrings /\ Len(q \o e) = Len(q) + Len(e)
        /\ Found(q \o e, Len(q), e)
    BY <1>1, TwoParts
  <1>3. /\ Found(q \o e, 0, a) /\ Found(q \o e, Len(a), b) /\ Found(q \o e, Len(a) + Len(b), c)
        /\ Found(q \o e, Len(a) + Len(b) + Len(c), d)
    BY <1>1, FoundBehindIt
  <1>. QED
    BY <1>1, <1>2, <1>3 DEF q

\* Six parts of a whole.
LEMMA SixParts ==
    ASSUME NEW a \in ByteStrings, NEW b \in ByteStrings, NEW c \in ByteStrings,
           NEW d \in ByteStrings, NEW e \in ByteStrings, NEW f \in ByteStrings
    PROVE  LET p == a \o b \o c \o d \o e \o f IN
           /\ p \in ByteStrings
           /\ Len(p) = Len(a) + Len(b) + Len(c) + Len(d) + Len(e) + Len(f)
           /\ Found(p, 0, a) /\ Found(p, Len(a), b) /\ Found(p, Len(a) + Len(b), c)
           /\ Found(p, Len(a) + Len(b) + Len(c), d)
           /\ Found(p, Len(a) + Len(b) + Len(c) + Len(d), e)
           /\ Found(p, Len(a) + Len(b) + Len(c) + Len(d) + Len(e), f)
  <1>. DEFINE q == a \o b \o c \o d \o e
  <1>1. /\ q \in ByteStrings /\ Len(q) = Len(a) + Len(b) + Len(c) + Len(d) + Len(e)
        /\ Found(q, 0, a) /\ Found(q, Len(a), b) /\ Found(q, Len(a) + Len(b), c)
        /\ Found(q, Len(a) + Len(b) + Len(c), d)
        /\ Found(q, Len(a) + Len(b) + Len(c) + Len(d), e)
    BY FiveParts
  <1>. HIDE DEF q
  <1>2. /\ q \o f \in ByteStrings /\ Len(q \o f) = Len(q) + Len(f)
        /\ Found(q \o f, Len(q), f)
    BY <1>1, TwoParts
  <1>3. /\ Found(q \o f, 0, a) /\ Found(q \o f, Len(a), b) /\ Found(q \o f, Len(a) + Len(b), c)
        /\ Found(q \o f, Len(a) + Len(b) + Len(c), d)
        /\ Found(q \o f, Len(a) + Len(b) + Len(c) + Len(d), e)
    BY <1>1, FoundBehindIt
  <1>. QED
    BY <1>1, <1>2, <1>3 DEF q

\* The field of a number is so many bytes, of every width.
LEMMA StoredFields ==
    /\ \A v \in U16 : StoreU16(v) \in ByteStrings /\ Len(StoreU16(v)) = 2
    /\ \A v \in U32 : StoreU32(v) \in ByteStrings /\ Len(StoreU32(v)) = 4
    /\ \A v \in I32 : StoreI32(v) \in ByteStrings /\ Len(StoreI32(v)) = 4
    /\ \A v \in U64 : StoreU64(v) \in ByteStrings /\ Len(StoreU64(v)) = 8
    /\ \A b \in BOOLEAN : Flag(b) \in ByteStrings /\ Len(Flag(b)) = 4
    /\ 0 \in U16 /\ 0 \in U32 /\ 1 \in U32
  <1>1. 0 \in U16 /\ 0 \in U32 /\ 1 \in U32
    <2>1. Base \in Nat /\ Base >= 2
      BY CodecAssumption
    <2>2. U32Limit \in Nat /\ U32Limit >= 1
      BY Limits
    <2>3. Base * Base \in Nat /\ Base * Base >= 1
      BY Limits DEF U16Limit
    <2>. DEFINE k == Base * (Base * Base)
    <2>4. k \in Nat /\ k >= 1
      BY <2>1, <2>3, ProductIsPositive
    <2>. HIDE DEF k
    <2>5. Base * k >= 2
      BY <2>1, <2>4
    <2>6. U32Limit >= 2
      BY <2>5 DEF k, U32Limit
    <2>. QED
      BY <2>2, <2>6, Limits DEF U16, U32
  <1>2. ASSUME NEW v \in I32 PROVE StoreI32(v) \in ByteStrings /\ Len(StoreI32(v)) = 4
    <2>. DEFINE bits == IF v >= 0 THEN v ELSE Half + (v + Half)
    <2>1. Half \in Nat /\ Half + Half <= U32Limit
      BY Limits DEF Half
    <2>2. bits \in U32
      BY <2>1, Limits DEF I32, U32
    <2>. QED
      BY <2>2, StoredBytes DEF StoreI32
  <1>3. \A b \in BOOLEAN : Flag(b) \in ByteStrings /\ Len(Flag(b)) = 4
    BY <1>1, StoredBytes DEF Flag
  <1>. QED
    BY <1>1, <1>2, <1>3, StoredBytes, U64Halves

\* cw_load_u64_le.
LEMMA FoundU64 ==
    ASSUME NEW p \in ByteStrings, NEW o, NEW v \in U64, Found(p, o, StoreU64(v))
    PROVE  LoadU64(p, o) = v
  <1>. DEFINE low  == StoreU32(v % U32Limit)
              high == StoreU32(v \div U32Limit)
  <1>1. /\ v % U32Limit \in U32 /\ v \div U32Limit \in U32
        /\ v = (v % U32Limit) + U32Limit * (v \div U32Limit)
    BY U64Halves
  <1>2. /\ low \in ByteStrings /\ Len(low) = 4 /\ high \in ByteStrings /\ Len(high) = 4
        /\ StoreU64(v) = low \o high
    BY <1>1, StoredBytes DEF StoreU64
  <1>. HIDE DEF low, high
  <1>3. /\ StoreU64(v) \in ByteStrings
        /\ Found(StoreU64(v), 0, low) /\ Found(StoreU64(v), 4, high)
    <2>1. /\ low \o high \in ByteStrings
          /\ Found(low \o high, 0, low) /\ Found(low \o high, Len(low), high)
      BY <1>2, TwoParts, Zenon
    <2>. QED
      BY <1>2, <2>1, Zenon
  <1>4. o \in Nat
    BY DEF Found
  <1>5. Found(p, o + 0, low) /\ Found(p, o + 4, high)
    BY <1>2, <1>3, FoundInPart, Zenon
  <1>6. LoadU32(p, o) = v % U32Limit /\ LoadU32(p, o + 4) = v \div U32Limit
    BY <1>1, <1>4, <1>5, FoundU32 DEF low, high
  <1>. QED
    BY <1>1, <1>6 DEF LoadU64

\* A boolean is written as 0 or 1 and read as not 0.
LEMMA FoundFlag ==
    ASSUME NEW p, NEW o, NEW b \in BOOLEAN, Found(p, o, Flag(b))
    PROVE  LoadFlag(p, o) = b
  <1>1. LoadU32(p, o) = IF b THEN 1 ELSE 0
    BY FoundU32, StoredFields DEF Flag
  <1>. QED
    BY <1>1 DEF LoadFlag

\* A point, two numbers.
LEMMA FoundXY ==
    ASSUME NEW p \in ByteStrings, NEW o, NEW v \in Points
    PROVE  /\ StoreXY(v) \in ByteStrings /\ Len(StoreXY(v)) = 8
           /\ Found(p, o, StoreXY(v)) => LoadXY(p, o) = v
  <1>. DEFINE a == StoreI32(v.x)
              b == StoreI32(v.y)
  <1>1. v.x \in I32 /\ v.y \in I32 /\ v = [x |-> v.x, y |-> v.y]
    BY DEF Points
  <1>2. /\ a \in ByteStrings /\ Len(a) = 4 /\ b \in ByteStrings /\ Len(b) = 4
        /\ StoreXY(v) = a \o b
    BY <1>1, StoredFields DEF StoreXY
  <1>. HIDE DEF a, b
  <1>3. /\ StoreXY(v) \in ByteStrings /\ Len(StoreXY(v)) = 8
        /\ Found(StoreXY(v), 0, a) /\ Found(StoreXY(v), 4, b)
    <2>. DEFINE q == a \o b
    <2>1. /\ q \in ByteStrings /\ Len(q) = Len(a) + Len(b)
          /\ Found(q, 0, a)
          /\ Found(q, Len(a), b)
      BY <1>2, TwoParts, Zenon
    <2>. HIDE DEF q
    <2>2. StoreXY(v) = q
      BY <1>2 DEF q
    <2>. QED
      BY <1>2, <2>1, <2>2
  <1>4. ASSUME Found(p, o, StoreXY(v)) PROVE LoadXY(p, o) = v
    <2>1. o \in Nat
      BY <1>4 DEF Found
    <2>2. Found(p, o + 0, a) /\ Found(p, o + 4, b)
      BY <1>2, <1>3, <1>4, FoundInPart, Zenon
    <2>3. LoadI32(p, o) = v.x /\ LoadI32(p, o + 4) = v.y
      BY <1>1, <2>1, <2>2, FoundI32 DEF a, b
    <2>. QED
      BY <1>1, <2>3 DEF LoadXY
  <1>. QED
    BY <1>3, <1>4

\* A rectangle with signed sides.
LEMMA FoundRect ==
    ASSUME NEW p \in ByteStrings, NEW o, NEW v \in Rects
    PROVE  /\ StoreRect(v) \in ByteStrings /\ Len(StoreRect(v)) = 16
           /\ Found(p, o, StoreRect(v)) => LoadRect(p, o) = v
  <1>. DEFINE a == StoreI32(v.x)
              b == StoreI32(v.y)
              c == StoreI32(v.w)
              d == StoreI32(v.h)
  <1>1. /\ v.x \in I32 /\ v.y \in I32 /\ v.w \in I32 /\ v.h \in I32
        /\ v = [x |-> v.x, y |-> v.y, w |-> v.w, h |-> v.h]
    BY DEF Rects
  <1>2. /\ a \in ByteStrings /\ Len(a) = 4 /\ b \in ByteStrings /\ Len(b) = 4
        /\ c \in ByteStrings /\ Len(c) = 4 /\ d \in ByteStrings /\ Len(d) = 4
        /\ StoreRect(v) = a \o b \o c \o d
    BY <1>1, StoredFields DEF StoreRect
  <1>. HIDE DEF a, b, c, d
  <1>3. /\ StoreRect(v) \in ByteStrings /\ Len(StoreRect(v)) = 16
        /\ Found(StoreRect(v), 0, a) /\ Found(StoreRect(v), 4, b)
        /\ Found(StoreRect(v), 8, c) /\ Found(StoreRect(v), 12, d)
    <2>. DEFINE q == a \o b \o c \o d
    <2>0. /\ a \in ByteStrings /\ b \in ByteStrings /\ c \in ByteStrings
          /\ d \in ByteStrings
      BY <1>2
    <2>1. /\ q \in ByteStrings /\ Len(q) = Len(a) + Len(b) + Len(c) + Len(d)
          /\ Found(q, 0, a)
          /\ Found(q, Len(a), b)
          /\ Found(q, Len(a) + Len(b), c)
          /\ Found(q, Len(a) + Len(b) + Len(c), d)
      BY <2>0, FourParts
    <2>. HIDE DEF q
    <2>2. StoreRect(v) = q
      BY <1>2 DEF q
    <2>. QED
      BY <1>2, <2>1, <2>2
  <1>4. ASSUME Found(p, o, StoreRect(v)) PROVE LoadRect(p, o) = v
    <2>1. o \in Nat
      BY <1>4 DEF Found
    <2>2. Found(p, o + 0, a) /\ Found(p, o + 4, b) /\ Found(p, o + 8, c) /\ Found(p, o + 12, d)
      BY <1>2, <1>3, <1>4, FoundInPart, Zenon
    <2>3. /\ LoadI32(p, o) = v.x /\ LoadI32(p, o + 4) = v.y
          /\ LoadI32(p, o + 8) = v.w /\ LoadI32(p, o + 12) = v.h
      BY <1>1, <2>1, <2>2, FoundI32 DEF a, b, c, d
    <2>. QED
      BY <1>1, <2>3 DEF LoadRect
  <1>. QED
    BY <1>3, <1>4

\* A rectangle with unsigned sides.
LEMMA FoundArea ==
    ASSUME NEW p \in ByteStrings, NEW o,
           NEW v, v.x \in I32, v.y \in I32, v.w \in U32, v.h \in U32
    PROVE  /\ StoreArea(v) \in ByteStrings /\ Len(StoreArea(v)) = 16
           /\ Found(p, o, StoreArea(v)) =>
                 LoadArea(p, o) = [x |-> v.x, y |-> v.y, w |-> v.w, h |-> v.h]
  <1>. DEFINE a == StoreI32(v.x)
              b == StoreI32(v.y)
              c == StoreU32(v.w)
              d == StoreU32(v.h)
  <1>2. /\ a \in ByteStrings /\ Len(a) = 4 /\ b \in ByteStrings /\ Len(b) = 4
        /\ c \in ByteStrings /\ Len(c) = 4 /\ d \in ByteStrings /\ Len(d) = 4
        /\ StoreArea(v) = a \o b \o c \o d
    BY StoredFields DEF StoreArea
  <1>. HIDE DEF a, b, c, d
  <1>3. /\ StoreArea(v) \in ByteStrings /\ Len(StoreArea(v)) = 16
        /\ Found(StoreArea(v), 0, a) /\ Found(StoreArea(v), 4, b)
        /\ Found(StoreArea(v), 8, c) /\ Found(StoreArea(v), 12, d)
    <2>. DEFINE q == a \o b \o c \o d
    <2>0. /\ a \in ByteStrings /\ b \in ByteStrings /\ c \in ByteStrings
          /\ d \in ByteStrings
      BY <1>2
    <2>1. /\ q \in ByteStrings /\ Len(q) = Len(a) + Len(b) + Len(c) + Len(d)
          /\ Found(q, 0, a)
          /\ Found(q, Len(a), b)
          /\ Found(q, Len(a) + Len(b), c)
          /\ Found(q, Len(a) + Len(b) + Len(c), d)
      BY <2>0, FourParts
    <2>. HIDE DEF q
    <2>2. StoreArea(v) = q
      BY <1>2 DEF q
    <2>. QED
      BY <1>2, <2>1, <2>2
  <1>4. ASSUME Found(p, o, StoreArea(v))
        PROVE  LoadArea(p, o) = [x |-> v.x, y |-> v.y, w |-> v.w, h |-> v.h]
    <2>1. o \in Nat
      BY <1>4 DEF Found
    <2>2. Found(p, o + 0, a) /\ Found(p, o + 4, b) /\ Found(p, o + 8, c) /\ Found(p, o + 12, d)
      BY <1>2, <1>3, <1>4, FoundInPart, Zenon
    <2>3. /\ LoadI32(p, o) = v.x /\ LoadI32(p, o + 4) = v.y
          /\ LoadU32(p, o + 8) = v.w /\ LoadU32(p, o + 12) = v.h
      BY <2>1, <2>2, FoundI32, FoundU32 DEF a, b, c, d
    <2>. QED
      BY <2>3 DEF LoadArea
  <1>. QED
    BY <1>3, <1>4

\* What every pointer message begins with.
LEMMA FoundLocation ==
    ASSUME NEW p \in ByteStrings, NEW v \in Locations
    PROVE  /\ StoreLocation(v) \in ByteStrings /\ Len(StoreLocation(v)) = 40
           /\ Found(p, 0, StoreLocation(v)) => LoadLocation(p) = v
  <1>. DEFINE a == StoreU64(v.id)
              b == StoreU64(v.presented)
              c == StoreXY(v.client)
              d == StoreXY(v.output)
              e == StoreU64(v.time)
  <1>1. /\ v.id \in U64 /\ v.presented \in U64 /\ v.client \in Points /\ v.output \in Points
        /\ v.time \in U64
        /\ v = [id |-> v.id, presented |-> v.presented, client |-> v.client,
                output |-> v.output, time |-> v.time]
    BY DEF Locations
  <1>2. /\ a \in ByteStrings /\ Len(a) = 8 /\ b \in ByteStrings /\ Len(b) = 8
        /\ c \in ByteStrings /\ Len(c) = 8 /\ d \in ByteStrings /\ Len(d) = 8
        /\ e \in ByteStrings /\ Len(e) = 8
        /\ StoreLocation(v) = a \o b \o c \o d \o e
    BY <1>1, StoredFields, FoundXY DEF StoreLocation
  <1>. HIDE DEF a, b, c, d, e
  <1>3. /\ StoreLocation(v) \in ByteStrings /\ Len(StoreLocation(v)) = 40
        /\ Found(StoreLocation(v), 0, a) /\ Found(StoreLocation(v), 8, b)
        /\ Found(StoreLocation(v), 16, c) /\ Found(StoreLocation(v), 24, d)
        /\ Found(StoreLocation(v), 32, e)
    <2>. DEFINE q == a \o b \o c \o d \o e
    <2>0. /\ a \in ByteStrings /\ b \in ByteStrings /\ c \in ByteStrings
          /\ d \in ByteStrings /\ e \in ByteStrings
      BY <1>2
    <2>1. /\ q \in ByteStrings /\ Len(q) = Len(a) + Len(b) + Len(c) + Len(d) + Len(e)
          /\ Found(q, 0, a)
          /\ Found(q, Len(a), b)
          /\ Found(q, Len(a) + Len(b), c)
          /\ Found(q, Len(a) + Len(b) + Len(c), d)
          /\ Found(q, Len(a) + Len(b) + Len(c) + Len(d), e)
      BY <2>0, FiveParts
    <2>. HIDE DEF q
    <2>2. StoreLocation(v) = q
      BY <1>2 DEF q
    <2>. QED
      BY <1>2, <2>1, <2>2
  <1>4. ASSUME Found(p, 0, StoreLocation(v)) PROVE LoadLocation(p) = v
    <2>1. ASSUME NEW k, NEW s \in ByteStrings, Found(StoreLocation(v), k, s)
          PROVE  Found(p, k, s)
      <3>1. Found(p, 0 + k, s)
        BY <1>3, <1>4, <2>1, FoundInPart
      <3>2. 0 + k = k
        BY <2>1 DEF Found
      <3>. QED
        BY <3>1, <3>2
    <2>2. /\ Found(p, 0, a) /\ Found(p, 8, b) /\ Found(p, 16, c)
          /\ Found(p, 24, d) /\ Found(p, 32, e)
      BY <1>2, <1>3, <2>1
    <2>3. /\ LoadU64(p, 0) = v.id /\ LoadU64(p, 8) = v.presented /\ LoadXY(p, 16) = v.client
          /\ LoadXY(p, 24) = v.output /\ LoadU64(p, 32) = v.time
      BY <1>1, <2>2, FoundU64, FoundXY DEF a, b, c, d, e
    <2>. QED
      BY <1>1, <2>3 DEF LoadLocation
  <1>. QED
    BY <1>3, <1>4

\* cw_decode_hello.
LEMMA HelloIsReadBack ==
    ASSUME NEW m \in MessagesOf("HELLO")
    PROVE  Fields("HELLO", Payload(m)) = m
  <1>1. /\ m.type = "HELLO" /\ m.min \in U16 /\ m.max \in U16 /\ m.formats \in U32
        /\ m = [type |-> "HELLO", min |-> m.min, max |-> m.max, formats |-> m.formats]
    BY DEF MessagesOf
  <1>. DEFINE p == Payload(m)
              a == StoreU16(m.min)
              b == StoreU16(m.max)
              c == StoreU32(m.formats)
  <1>2. /\ a \in ByteStrings /\ Len(a) = 2 /\ b \in ByteStrings /\ Len(b) = 2
        /\ c \in ByteStrings /\ Len(c) = 4
    BY <1>1, StoredFields
  <1>3. p = a \o b \o c
    BY <1>1 DEF Payload
  <1>. HIDE DEF p, a, b, c
  <1>4. /\ p \in ByteStrings /\ Found(p, 0, a) /\ Found(p, 2, b) /\ Found(p, 4, c)
    <2>1. /\ a \in ByteStrings /\ b \in ByteStrings /\ c \in ByteStrings
      BY <1>2
    <2>. DEFINE q == a \o b \o c
    <2>2. /\ q \in ByteStrings /\ Found(q, 0, a) /\ Found(q, Len(a), b)
          /\ Found(q, Len(a) + Len(b), c)
      BY <2>1, ThreeParts
    <2>. HIDE DEF q
    <2>3. p = q
      BY <1>3 DEF q
    <2>. QED
      BY <1>2, <2>2, <2>3
  <1>5. /\ LoadU16(p, 0) = m.min /\ LoadU16(p, 2) = m.max /\ LoadU32(p, 4) = m.formats
    BY <1>1, <1>4, FoundU16, FoundU32 DEF a, b, c
  <1>6. Fields("HELLO", p) = m
    BY <1>1, <1>5 DEF Fields
  <1>. QED
    BY <1>6 DEF p

\* cw_decode_hello_ack.
LEMMA HelloAckIsReadBack ==
    ASSUME NEW m \in MessagesOf("HELLO_ACK")
    PROVE  Fields("HELLO_ACK", Payload(m)) = m
  <1>1. /\ m.type = "HELLO_ACK" /\ m.version \in U16 /\ m.formats \in U32
        /\ m = [type |-> "HELLO_ACK", version |-> m.version, formats |-> m.formats]
    BY DEF MessagesOf
  <1>. DEFINE p == Payload(m)
              a == StoreU16(m.version)
              b == StoreU16(0)
              c == StoreU32(m.formats)
  <1>2. /\ a \in ByteStrings /\ Len(a) = 2 /\ b \in ByteStrings /\ Len(b) = 2
        /\ c \in ByteStrings /\ Len(c) = 4
    BY <1>1, StoredFields
  <1>3. p = a \o b \o c
    BY <1>1 DEF Payload
  <1>. HIDE DEF p, a, b, c
  <1>4. /\ p \in ByteStrings /\ Found(p, 0, a) /\ Found(p, 2, b) /\ Found(p, 4, c)
    <2>1. /\ a \in ByteStrings /\ b \in ByteStrings /\ c \in ByteStrings
      BY <1>2
    <2>. DEFINE q == a \o b \o c
    <2>2. /\ q \in ByteStrings /\ Found(q, 0, a) /\ Found(q, Len(a), b)
          /\ Found(q, Len(a) + Len(b), c)
      BY <2>1, ThreeParts
    <2>. HIDE DEF q
    <2>3. p = q
      BY <1>3 DEF q
    <2>. QED
      BY <1>2, <2>2, <2>3
  <1>5. /\ LoadU16(p, 0) = m.version /\ LoadU32(p, 4) = m.formats
    BY <1>1, <1>4, FoundU16, FoundU32 DEF a, c
  <1>6. Fields("HELLO_ACK", p) = m
    BY <1>1, <1>5 DEF Fields
  <1>. QED
    BY <1>6 DEF p

\* cw_decode_output_config: the size of the output is unsigned, its place is not.
LEMMA OutputConfigIsReadBack ==
    ASSUME NEW m \in MessagesOf("OUTPUT_CONFIG")
    PROVE  Fields("OUTPUT_CONFIG", Payload(m)) = m
  <1>1. /\ m.type = "OUTPUT_CONFIG" /\ m.logical \in Areas /\ m.numerator \in U32
        /\ m.denominator \in U32
        /\ m = [type |-> "OUTPUT_CONFIG", logical |-> m.logical, numerator |-> m.numerator,
                denominator |-> m.denominator]
    BY DEF MessagesOf
  <1>. DEFINE p == Payload(m)
              a == StoreArea(m.logical)
              b == StoreU32(m.numerator)
              c == StoreU32(m.denominator)
  <1>2. /\ a \in ByteStrings /\ Len(a) = 16 /\ b \in ByteStrings /\ Len(b) = 4
        /\ c \in ByteStrings /\ Len(c) = 4
    BY <1>1, StoredFields, FoundArea DEF Areas
  <1>3. p = a \o b \o c
    BY <1>1 DEF Payload
  <1>. HIDE DEF p, a, b, c
  <1>4. /\ p \in ByteStrings /\ Found(p, 0, a) /\ Found(p, 16, b) /\ Found(p, 20, c)
    <2>1. /\ a \in ByteStrings /\ b \in ByteStrings /\ c \in ByteStrings
      BY <1>2
    <2>. DEFINE q == a \o b \o c
    <2>2. /\ q \in ByteStrings /\ Found(q, 0, a) /\ Found(q, Len(a), b)
          /\ Found(q, Len(a) + Len(b), c)
      BY <2>1, ThreeParts
    <2>. HIDE DEF q
    <2>3. p = q
      BY <1>3 DEF q
    <2>. QED
      BY <1>2, <2>2, <2>3
  <1>5. /\ LoadArea(p, 0) = m.logical /\ LoadU32(p, 16) = m.numerator
        /\ LoadU32(p, 20) = m.denominator
    BY <1>1, <1>4, FoundArea, FoundU32 DEF a, b, c, Areas
  <1>6. Fields("OUTPUT_CONFIG", p) = m
    BY <1>1, <1>5 DEF Fields
  <1>. QED
    BY <1>6 DEF p

\* cw_decode_window_create.
LEMMA CreateIsReadBack ==
    ASSUME NEW m \in MessagesOf("WINDOW_CREATE")
    PROVE  Fields("WINDOW_CREATE", Payload(m)) = m
  <1>1. /\ m.type = "WINDOW_CREATE" /\ m.id \in U64 /\ m.parent \in U64 /\ m.width \in U32
        /\ m.height \in U32
        /\ m = [type |-> "WINDOW_CREATE", id |-> m.id, parent |-> m.parent, width |-> m.width,
                height |-> m.height]
    BY DEF MessagesOf
  <1>. DEFINE p == Payload(m)
              a == StoreU64(m.id)
              b == StoreU32(m.width)
              c == StoreU32(m.height)
              d == StoreU64(m.parent)
  <1>2. /\ a \in ByteStrings /\ Len(a) = 8 /\ b \in ByteStrings /\ Len(b) = 4
        /\ c \in ByteStrings /\ Len(c) = 4 /\ d \in ByteStrings /\ Len(d) = 8
    BY <1>1, StoredFields
  <1>3. p = a \o b \o c \o d
    BY <1>1 DEF Payload
  <1>. HIDE DEF p, a, b, c, d
  <1>4. /\ p \in ByteStrings /\ Found(p, 0, a) /\ Found(p, 8, b) /\ Found(p, 12, c)
        /\ Found(p, 16, d)
    <2>1. /\ a \in ByteStrings /\ b \in ByteStrings /\ c \in ByteStrings /\ d \in ByteStrings
      BY <1>2
    <2>. DEFINE q == a \o b \o c \o d
    <2>2. /\ q \in ByteStrings /\ Found(q, 0, a) /\ Found(q, Len(a), b)
          /\ Found(q, Len(a) + Len(b), c) /\ Found(q, Len(a) + Len(b) + Len(c), d)
      BY <2>1, FourParts
    <2>. HIDE DEF q
    <2>3. p = q
      BY <1>3 DEF q
    <2>. QED
      BY <1>2, <2>2, <2>3
  <1>5. /\ LoadU64(p, 0) = m.id /\ LoadU32(p, 8) = m.width /\ LoadU32(p, 12) = m.height
        /\ LoadU64(p, 16) = m.parent
    BY <1>1, <1>4, FoundU64, FoundU32 DEF a, b, c, d
  <1>6. Fields("WINDOW_CREATE", p) = m
    BY <1>1, <1>5 DEF Fields
  <1>. QED
    BY <1>6 DEF p

\* cw_decode_window_resize.
LEMMA ResizeIsReadBack ==
    ASSUME NEW m \in MessagesOf("WINDOW_RESIZE")
    PROVE  Fields("WINDOW_RESIZE", Payload(m)) = m
  <1>1. /\ m.type = "WINDOW_RESIZE" /\ m.id \in U64 /\ m.width \in U32 /\ m.height \in U32
        /\ m = [type |-> "WINDOW_RESIZE", id |-> m.id, width |-> m.width, height |-> m.height]
    BY DEF MessagesOf
  <1>. DEFINE p == Payload(m)
              a == StoreU64(m.id)
              b == StoreU32(m.width)
              c == StoreU32(m.height)
  <1>2. /\ a \in ByteStrings /\ Len(a) = 8 /\ b \in ByteStrings /\ Len(b) = 4
        /\ c \in ByteStrings /\ Len(c) = 4
    BY <1>1, StoredFields
  <1>3. p = a \o b \o c
    BY <1>1 DEF Payload
  <1>. HIDE DEF p, a, b, c
  <1>4. /\ p \in ByteStrings /\ Found(p, 0, a) /\ Found(p, 8, b) /\ Found(p, 12, c)
    <2>1. /\ a \in ByteStrings /\ b \in ByteStrings /\ c \in ByteStrings
      BY <1>2
    <2>. DEFINE q == a \o b \o c
    <2>2. /\ q \in ByteStrings /\ Found(q, 0, a) /\ Found(q, Len(a), b)
          /\ Found(q, Len(a) + Len(b), c)
      BY <2>1, ThreeParts
    <2>. HIDE DEF q
    <2>3. p = q
      BY <1>3 DEF q
    <2>. QED
      BY <1>2, <2>2, <2>3
  <1>5. /\ LoadU64(p, 0) = m.id /\ LoadU32(p, 8) = m.width /\ LoadU32(p, 12) = m.height
    BY <1>1, <1>4, FoundU64, FoundU32 DEF a, b, c
  <1>6. Fields("WINDOW_RESIZE", p) = m
    BY <1>1, <1>5 DEF Fields
  <1>. QED
    BY <1>6 DEF p

\* cw_decode_window_present.
LEMMA PresentIsReadBack ==
    ASSUME NEW m \in MessagesOf("WINDOW_PRESENT")
    PROVE  Fields("WINDOW_PRESENT", Payload(m)) = m
  <1>1. /\ m.type = "WINDOW_PRESENT" /\ m.id \in U64 /\ m.sequence \in U64 /\ m.source \in Rects
        /\ m.destination \in Rects /\ m.visible \in BOOLEAN
        /\ m = [type |-> "WINDOW_PRESENT", id |-> m.id, sequence |-> m.sequence,
                source |-> m.source, destination |-> m.destination, visible |-> m.visible]
    BY DEF MessagesOf
  <1>. DEFINE p == Payload(m)
              a == StoreU64(m.id)
              b == StoreU64(m.sequence)
              c == StoreRect(m.source)
              d == StoreRect(m.destination)
              e == Flag(m.visible)
              f == StoreU32(0)
  <1>2. /\ a \in ByteStrings /\ Len(a) = 8 /\ b \in ByteStrings /\ Len(b) = 8
        /\ c \in ByteStrings /\ Len(c) = 16 /\ d \in ByteStrings /\ Len(d) = 16
        /\ e \in ByteStrings /\ Len(e) = 4 /\ f \in ByteStrings /\ Len(f) = 4
    BY <1>1, StoredFields, FoundRect
  <1>3. p = a \o b \o c \o d \o e \o f
    BY <1>1 DEF Payload
  <1>. HIDE DEF p, a, b, c, d, e, f
  <1>4. /\ p \in ByteStrings /\ Found(p, 0, a) /\ Found(p, 8, b) /\ Found(p, 16, c)
        /\ Found(p, 32, d) /\ Found(p, 48, e) /\ Found(p, 52, f)
    <2>1. /\ a \in ByteStrings /\ b \in ByteStrings /\ c \in ByteStrings /\ d \in ByteStrings
          /\ e \in ByteStrings /\ f \in ByteStrings
      BY <1>2
    <2>. DEFINE q == a \o b \o c \o d \o e \o f
    <2>2. /\ q \in ByteStrings /\ Found(q, 0, a) /\ Found(q, Len(a), b)
          /\ Found(q, Len(a) + Len(b), c) /\ Found(q, Len(a) + Len(b) + Len(c), d)
          /\ Found(q, Len(a) + Len(b) + Len(c) + Len(d), e)
          /\ Found(q, Len(a) + Len(b) + Len(c) + Len(d) + Len(e), f)
      BY <2>1, SixParts
    <2>. HIDE DEF q
    <2>3. p = q
      BY <1>3 DEF q
    <2>. QED
      BY <1>2, <2>2, <2>3
  <1>5. /\ LoadU64(p, 0) = m.id /\ LoadU64(p, 8) = m.sequence /\ LoadRect(p, 16) = m.source
        /\ LoadRect(p, 32) = m.destination /\ LoadFlag(p, 48) = m.visible
    BY <1>1, <1>4, FoundU64, FoundRect, FoundFlag DEF a, b, c, d, e
  <1>6. Fields("WINDOW_PRESENT", p) = m
    BY <1>1, <1>5 DEF Fields
  <1>. QED
    BY <1>6 DEF p

\* cw_decode_window_present_ack and cw_decode_window_frame_request.
LEMMA AckIsReadBack ==
    ASSUME NEW name \in {"WINDOW_PRESENT_ACK", "WINDOW_FRAME_REQUEST"}, NEW m \in MessagesOf(name)
    PROVE  Fields(name, Payload(m)) = m
  <1>1. /\ m.type = name /\ m.id \in U64 /\ m.sequence \in U64
        /\ m = [type |-> name, id |-> m.id, sequence |-> m.sequence]
    BY DEF MessagesOf
  <1>. DEFINE p == Payload(m)
              a == StoreU64(m.id)
              b == StoreU64(m.sequence)
  <1>2. /\ a \in ByteStrings /\ Len(a) = 8 /\ b \in ByteStrings /\ Len(b) = 8
    BY <1>1, StoredFields
  <1>3. p = a \o b
    BY <1>1 DEF Payload
  <1>. HIDE DEF p, a, b
  <1>4. /\ p \in ByteStrings /\ Found(p, 0, a) /\ Found(p, 8, b)
    <2>1. /\ a \in ByteStrings /\ b \in ByteStrings
      BY <1>2
    <2>. DEFINE q == a \o b
    <2>2. /\ q \in ByteStrings /\ Found(q, 0, a) /\ Found(q, Len(a), b)
      BY <2>1, TwoParts
    <2>. HIDE DEF q
    <2>3. p = q
      BY <1>3 DEF q
    <2>. QED
      BY <1>2, <2>2, <2>3
  <1>5. /\ LoadU64(p, 0) = m.id /\ LoadU64(p, 8) = m.sequence
    BY <1>1, <1>4, FoundU64 DEF a, b
  <1>6. Fields(name, p) = m
    BY <1>1, <1>5 DEF Fields
  <1>. QED
    BY <1>6 DEF p

\* cw_decode_window_activate, and the id of a WINDOW_DESTROY.
LEMMA DestroyIsReadBack ==
    ASSUME NEW name \in {"WINDOW_DESTROY", "WINDOW_ACTIVATE"}, NEW m \in MessagesOf(name)
    PROVE  Fields(name, Payload(m)) = m
  <1>1. /\ m.type = name /\ m.id \in U64
        /\ m = [type |-> name, id |-> m.id]
    BY DEF MessagesOf
  <1>. DEFINE p == Payload(m)
              a == StoreU64(m.id)
  <1>2. /\ a \in ByteStrings /\ Len(a) = 8
    BY <1>1, StoredFields
  <1>3. p = a
    BY <1>1 DEF Payload
  <1>. HIDE DEF p, a
  <1>4. /\ p \in ByteStrings /\ Found(p, 0, a)
    BY <1>2, <1>3, OnePart
  <1>5. /\ LoadU64(p, 0) = m.id
    BY <1>1, <1>4, FoundU64 DEF a
  <1>6. Fields(name, p) = m
    BY <1>1, <1>5 DEF Fields
  <1>. QED
    BY <1>6 DEF p

\* cw_decode_pointer_location, which is all of a POINTER_ENTER or POINTER_LEAVE.
LEMMA CrossingIsReadBack ==
    ASSUME NEW name \in {"POINTER_ENTER", "POINTER_LEAVE"}, NEW m \in MessagesOf(name)
    PROVE  Fields(name, Payload(m)) = m
  <1>1. /\ m.type = name /\ m.at \in Locations
        /\ m = [type |-> name, at |-> m.at]
    BY DEF MessagesOf
  <1>. DEFINE p == Payload(m)
              a == StoreLocation(m.at)
  <1>2. /\ a \in ByteStrings /\ Len(a) = 40
    BY <1>1, StoredFields, FoundLocation
  <1>3. p = a
    BY <1>1 DEF Payload
  <1>. HIDE DEF p, a
  <1>4. /\ p \in ByteStrings /\ Found(p, 0, a)
    BY <1>2, <1>3, OnePart
  <1>5. /\ LoadLocation(p) = m.at
    BY <1>1, <1>4, FoundLocation DEF a
  <1>6. Fields(name, p) = m
    BY <1>1, <1>5 DEF Fields
  <1>. QED
    BY <1>6 DEF p

\* cw_decode_pointer_motion.
LEMMA MotionIsReadBack ==
    ASSUME NEW m \in MessagesOf("POINTER_MOTION")
    PROVE  Fields("POINTER_MOTION", Payload(m)) = m
  <1>1. /\ m.type = "POINTER_MOTION" /\ m.at \in Locations /\ m.mask \in U32
        /\ m = [type |-> "POINTER_MOTION", at |-> m.at, mask |-> m.mask]
    BY DEF MessagesOf
  <1>. DEFINE p == Payload(m)
              a == StoreLocation(m.at)
              b == StoreU32(m.mask)
              c == StoreU32(0)
  <1>2. /\ a \in ByteStrings /\ Len(a) = 40 /\ b \in ByteStrings /\ Len(b) = 4
        /\ c \in ByteStrings /\ Len(c) = 4
    BY <1>1, StoredFields, FoundLocation
  <1>3. p = a \o b \o c
    BY <1>1 DEF Payload
  <1>. HIDE DEF p, a, b, c
  <1>4. /\ p \in ByteStrings /\ Found(p, 0, a) /\ Found(p, 40, b) /\ Found(p, 44, c)
    <2>1. /\ a \in ByteStrings /\ b \in ByteStrings /\ c \in ByteStrings
      BY <1>2
    <2>. DEFINE q == a \o b \o c
    <2>2. /\ q \in ByteStrings /\ Found(q, 0, a) /\ Found(q, Len(a), b)
          /\ Found(q, Len(a) + Len(b), c)
      BY <2>1, ThreeParts
    <2>. HIDE DEF q
    <2>3. p = q
      BY <1>3 DEF q
    <2>. QED
      BY <1>2, <2>2, <2>3
  <1>5. /\ LoadLocation(p) = m.at /\ LoadU32(p, 40) = m.mask
    BY <1>1, <1>4, FoundLocation, FoundU32 DEF a, b
  <1>6. Fields("POINTER_MOTION", p) = m
    BY <1>1, <1>5 DEF Fields
  <1>. QED
    BY <1>6 DEF p

\* cw_decode_pointer_button.
LEMMA ButtonIsReadBack ==
    ASSUME NEW m \in MessagesOf("POINTER_BUTTON")
    PROVE  Fields("POINTER_BUTTON", Payload(m)) = m
  <1>1. /\ m.type = "POINTER_BUTTON" /\ m.at \in Locations /\ m.button \in U32
        /\ m.down \in BOOLEAN
        /\ m = [type |-> "POINTER_BUTTON", at |-> m.at, button |-> m.button, down |-> m.down]
    BY DEF MessagesOf
  <1>. DEFINE p == Payload(m)
              a == StoreLocation(m.at)
              b == StoreU32(m.button)
              c == Flag(m.down)
  <1>2. /\ a \in ByteStrings /\ Len(a) = 40 /\ b \in ByteStrings /\ Len(b) = 4
        /\ c \in ByteStrings /\ Len(c) = 4
    BY <1>1, StoredFields, FoundLocation
  <1>3. p = a \o b \o c
    BY <1>1 DEF Payload
  <1>. HIDE DEF p, a, b, c
  <1>4. /\ p \in ByteStrings /\ Found(p, 0, a) /\ Found(p, 40, b) /\ Found(p, 44, c)
    <2>1. /\ a \in ByteStrings /\ b \in ByteStrings /\ c \in ByteStrings
      BY <1>2
    <2>. DEFINE q == a \o b \o c
    <2>2. /\ q \in ByteStrings /\ Found(q, 0, a) /\ Found(q, Len(a), b)
          /\ Found(q, Len(a) + Len(b), c)
      BY <2>1, ThreeParts
    <2>. HIDE DEF q
    <2>3. p = q
      BY <1>3 DEF q
    <2>. QED
      BY <1>2, <2>2, <2>3
  <1>5. /\ LoadLocation(p) = m.at /\ LoadU32(p, 40) = m.button /\ LoadFlag(p, 44) = m.down
    BY <1>1, <1>4, FoundLocation, FoundU32, FoundFlag DEF a, b, c
  <1>6. Fields("POINTER_BUTTON", p) = m
    BY <1>1, <1>5 DEF Fields
  <1>. QED
    BY <1>6 DEF p

\* cw_decode_pointer_wheel.
LEMMA WheelIsReadBack ==
    ASSUME NEW m \in MessagesOf("POINTER_WHEEL")
    PROVE  Fields("POINTER_WHEEL", Payload(m)) = m
  <1>1. /\ m.type = "POINTER_WHEEL" /\ m.at \in Locations /\ m.delta \in Points
        /\ m = [type |-> "POINTER_WHEEL", at |-> m.at, delta |-> m.delta]
    BY DEF MessagesOf
  <1>. DEFINE p == Payload(m)
              a == StoreLocation(m.at)
              b == StoreXY(m.delta)
  <1>2. /\ a \in ByteStrings /\ Len(a) = 40 /\ b \in ByteStrings /\ Len(b) = 8
    BY <1>1, StoredFields, FoundLocation, FoundXY
  <1>3. p = a \o b
    BY <1>1 DEF Payload
  <1>. HIDE DEF p, a, b
  <1>4. /\ p \in ByteStrings /\ Found(p, 0, a) /\ Found(p, 40, b)
    <2>1. /\ a \in ByteStrings /\ b \in ByteStrings
      BY <1>2
    <2>. DEFINE q == a \o b
    <2>2. /\ q \in ByteStrings /\ Found(q, 0, a) /\ Found(q, Len(a), b)
      BY <2>1, TwoParts
    <2>. HIDE DEF q
    <2>3. p = q
      BY <1>3 DEF q
    <2>. QED
      BY <1>2, <2>2, <2>3
  <1>5. /\ LoadLocation(p) = m.at /\ LoadXY(p, 40) = m.delta
    BY <1>1, <1>4, FoundLocation, FoundXY DEF a, b
  <1>6. Fields("POINTER_WHEEL", p) = m
    BY <1>1, <1>5 DEF Fields
  <1>. QED
    BY <1>6 DEF p

\* cw_decode_pointer_capture_lost.
LEMMA CaptureLostIsReadBack ==
    ASSUME NEW m \in MessagesOf("POINTER_CAPTURE_LOST")
    PROVE  Fields("POINTER_CAPTURE_LOST", Payload(m)) = m
  <1>1. /\ m.type = "POINTER_CAPTURE_LOST" /\ m.id \in U64 /\ m.presented \in U64
        /\ m.time \in U64
        /\ m = [type |-> "POINTER_CAPTURE_LOST", id |-> m.id, presented |-> m.presented,
                time |-> m.time]
    BY DEF MessagesOf
  <1>. DEFINE p == Payload(m)
              a == StoreU64(m.id)
              b == StoreU64(m.presented)
              c == StoreU64(m.time)
  <1>2. /\ a \in ByteStrings /\ Len(a) = 8 /\ b \in ByteStrings /\ Len(b) = 8
        /\ c \in ByteStrings /\ Len(c) = 8
    BY <1>1, StoredFields
  <1>3. p = a \o b \o c
    BY <1>1 DEF Payload
  <1>. HIDE DEF p, a, b, c
  <1>4. /\ p \in ByteStrings /\ Found(p, 0, a) /\ Found(p, 8, b) /\ Found(p, 16, c)
    <2>1. /\ a \in ByteStrings /\ b \in ByteStrings /\ c \in ByteStrings
      BY <1>2
    <2>. DEFINE q == a \o b \o c
    <2>2. /\ q \in ByteStrings /\ Found(q, 0, a) /\ Found(q, Len(a), b)
          /\ Found(q, Len(a) + Len(b), c)
      BY <2>1, ThreeParts
    <2>. HIDE DEF q
    <2>3. p = q
      BY <1>3 DEF q
    <2>. QED
      BY <1>2, <2>2, <2>3
  <1>5. /\ LoadU64(p, 0) = m.id /\ LoadU64(p, 8) = m.presented /\ LoadU64(p, 16) = m.time
    BY <1>1, <1>4, FoundU64 DEF a, b, c
  <1>6. Fields("POINTER_CAPTURE_LOST", p) = m
    BY <1>1, <1>5 DEF Fields
  <1>. QED
    BY <1>6 DEF p

\* cw_decode_keyboard_focus.
LEMMA FocusIsReadBack ==
    ASSUME NEW m \in MessagesOf("KEYBOARD_FOCUS")
    PROVE  Fields("KEYBOARD_FOCUS", Payload(m)) = m
  <1>1. /\ m.type = "KEYBOARD_FOCUS" /\ m.id \in U64 /\ m.focused \in BOOLEAN
        /\ m = [type |-> "KEYBOARD_FOCUS", id |-> m.id, focused |-> m.focused]
    BY DEF MessagesOf
  <1>. DEFINE p == Payload(m)
              a == StoreU64(m.id)
              b == Flag(m.focused)
              c == StoreU32(0)
  <1>2. /\ a \in ByteStrings /\ Len(a) = 8 /\ b \in ByteStrings /\ Len(b) = 4
        /\ c \in ByteStrings /\ Len(c) = 4
    BY <1>1, StoredFields
  <1>3. p = a \o b \o c
    BY <1>1 DEF Payload
  <1>. HIDE DEF p, a, b, c
  <1>4. /\ p \in ByteStrings /\ Found(p, 0, a) /\ Found(p, 8, b) /\ Found(p, 12, c)
    <2>1. /\ a \in ByteStrings /\ b \in ByteStrings /\ c \in ByteStrings
      BY <1>2
    <2>. DEFINE q == a \o b \o c
    <2>2. /\ q \in ByteStrings /\ Found(q, 0, a) /\ Found(q, Len(a), b)
          /\ Found(q, Len(a) + Len(b), c)
      BY <2>1, ThreeParts
    <2>. HIDE DEF q
    <2>3. p = q
      BY <1>3 DEF q
    <2>. QED
      BY <1>2, <2>2, <2>3
  <1>5. /\ LoadU64(p, 0) = m.id /\ LoadFlag(p, 8) = m.focused
    BY <1>1, <1>4, FoundU64, FoundFlag DEF a, b
  <1>6. Fields("KEYBOARD_FOCUS", p) = m
    BY <1>1, <1>5 DEF Fields
  <1>. QED
    BY <1>6 DEF p

\* cw_decode_keyboard_key.
LEMMA KeyIsReadBack ==
    ASSUME NEW m \in MessagesOf("KEYBOARD_KEY")
    PROVE  Fields("KEYBOARD_KEY", Payload(m)) = m
  <1>1. /\ m.type = "KEYBOARD_KEY" /\ m.id \in U64 /\ m.key \in U32 /\ m.down \in BOOLEAN
        /\ m.time \in U64
        /\ m = [type |-> "KEYBOARD_KEY", id |-> m.id, key |-> m.key, down |-> m.down,
                time |-> m.time]
    BY DEF MessagesOf
  <1>. DEFINE p == Payload(m)
              a == StoreU64(m.id)
              b == StoreU32(m.key)
              c == Flag(m.down)
              d == StoreU64(m.time)
  <1>2. /\ a \in ByteStrings /\ Len(a) = 8 /\ b \in ByteStrings /\ Len(b) = 4
        /\ c \in ByteStrings /\ Len(c) = 4 /\ d \in ByteStrings /\ Len(d) = 8
    BY <1>1, StoredFields
  <1>3. p = a \o b \o c \o d
    BY <1>1 DEF Payload
  <1>. HIDE DEF p, a, b, c, d
  <1>4. /\ p \in ByteStrings /\ Found(p, 0, a) /\ Found(p, 8, b) /\ Found(p, 12, c)
        /\ Found(p, 16, d)
    <2>1. /\ a \in ByteStrings /\ b \in ByteStrings /\ c \in ByteStrings /\ d \in ByteStrings
      BY <1>2
    <2>. DEFINE q == a \o b \o c \o d
    <2>2. /\ q \in ByteStrings /\ Found(q, 0, a) /\ Found(q, Len(a), b)
          /\ Found(q, Len(a) + Len(b), c) /\ Found(q, Len(a) + Len(b) + Len(c), d)
      BY <2>1, FourParts
    <2>. HIDE DEF q
    <2>3. p = q
      BY <1>3 DEF q
    <2>. QED
      BY <1>2, <2>2, <2>3
  <1>5. /\ LoadU64(p, 0) = m.id /\ LoadU32(p, 8) = m.key /\ LoadFlag(p, 12) = m.down
        /\ LoadU64(p, 16) = m.time
    BY <1>1, <1>4, FoundU64, FoundU32, FoundFlag DEF a, b, c, d
  <1>6. Fields("KEYBOARD_KEY", p) = m
    BY <1>1, <1>5 DEF Fields
  <1>. QED
    BY <1>6 DEF p

\* A set of naturals that is not empty has a least member.
LEMMA Least ==
    ASSUME NEW T, T \subseteq Nat, T # {}
    PROVE  \E n \in T : \A k \in T : n <= k
  <1>. DEFINE R == OpToRel(<, Nat)
  <1>1. IsWellFoundedOn(R, Nat)
    BY NatLessThanWellFounded
  <1>2. \A x, y \in Nat : y < x => <<y, x>> \in R
    BY DEF OpToRel
  <1>. HIDE DEF R
  <1>3. PICK x \in T : \A y \in T : ~ (<<y, x>> \in R)
    BY <1>1, WFMin
  <1>4. x \in Nat /\ \A y \in T : y \in Nat
    OBVIOUS
  <1>5. \A y \in T : ~(y < x)
    BY <1>2, <1>3, <1>4
  <1>6. \A y \in T : x <= y
    BY <1>4, <1>5
  <1>. QED
    BY <1>6

\* Induction up to a number, over a set and not over a predicate.
LEMMA NatInd ==
    ASSUME NEW P, 0 \in P, NEW m \in Nat,
           \A n \in 0 .. m - 1 : n \in P => n + 1 \in P
    PROVE  \A n \in 0 .. m : n \in P
  <1>. DEFINE T == {n \in 0 .. m : n \notin P}
  <1>1. SUFFICES ASSUME T # {} PROVE FALSE
    OBVIOUS
  <1>2. T \subseteq Nat
    OBVIOUS
  <1>3. PICK n \in T : \A k \in T : n <= k
    BY <1>1, <1>2, Least
  <1>4. n \in Nat /\ n <= m /\ n \notin P /\ n # 0
    BY <1>3
  <1>5. n - 1 \in 0 .. m - 1 /\ n - 1 \notin T
    BY <1>3, <1>4
  <1>6. n - 1 \in P
    BY <1>5
  <1>7. (n - 1) + 1 \in P
    BY <1>5, <1>6
  <1>. QED
    BY <1>4, <1>7

\* What is found is what a SubSeq cuts out.
LEMMA FoundIsCutOut ==
    ASSUME NEW p \in ByteStrings, NEW o, NEW s \in ByteStrings, Found(p, o, s)
    PROVE  SubSeq(p, o + 1, o + Len(s)) = s
  <1>1. Len(p) \in Nat /\ Len(s) \in Nat /\ p \in Seq(Byte) /\ s \in Seq(Byte)
    BY LenProperties DEF ByteStrings
  <1>2. o \in Nat /\ o + Len(s) <= Len(p) /\ \A i \in 1 .. Len(s) : p[o + i] = s[i]
    BY DEF Found
  <1>. DEFINE n == Len(s)
              t == SubSeq(p, o + 1, o + n)
  <1>3. \A i \in o + 1 .. o + n : p[i] \in Byte
    BY <1>1, <1>2, ElementOfSeq
  <1>4. t \in Seq(Byte) /\ Len(t) = n /\ \A i \in 1 .. n : t[i] = p[o + i]
    BY <1>1, <1>2
  <1>. HIDE DEF n, t
  <1>5. t = s
    BY <1>1, <1>2, <1>4, SeqEqual DEF n
  <1>. QED
    BY <1>5 DEF t, n

\* cw_decode_window_frame.
LEMMA FrameIsReadBack ==
    ASSUME NEW m \in MessagesOf("WINDOW_FRAME")
    PROVE  Fields("WINDOW_FRAME", Payload(m)) = m
  <1>1. /\ m.type = "WINDOW_FRAME" /\ m.id \in U64 /\ m.sequence \in U64 /\ m.width \in U32
        /\ m.height \in U32 /\ m.stride \in U32 /\ m.pixels \in ByteStrings
        /\ m = [type |-> "WINDOW_FRAME", id |-> m.id, sequence |-> m.sequence, width |-> m.width,
                height |-> m.height, stride |-> m.stride, pixels |-> m.pixels]
    BY DEF MessagesOf, ByteStrings
  <1>. DEFINE p == Payload(m)
              a == StoreU64(m.id)
              b == StoreU64(m.sequence)
              c == StoreU32(m.width)
              d == StoreU32(m.height)
              e == StoreU32(m.stride)
              f == StoreU32(1)
              x == m.pixels
  <1>2. /\ a \in ByteStrings /\ Len(a) = 8 /\ b \in ByteStrings /\ Len(b) = 8
        /\ c \in ByteStrings /\ Len(c) = 4 /\ d \in ByteStrings /\ Len(d) = 4
        /\ e \in ByteStrings /\ Len(e) = 4 /\ f \in ByteStrings /\ Len(f) = 4
        /\ x \in ByteStrings
    BY <1>1, StoredFields
  <1>3. p = (a \o b \o c \o d \o e \o f) \o x
    BY <1>1 DEF Payload, FramePrefix
  <1>. HIDE DEF p, a, b, c, d, e, f, x
  <1>. DEFINE q == a \o b \o c \o d \o e \o f
  <1>4. /\ q \in ByteStrings /\ Len(q) = 32 /\ Found(q, 0, a) /\ Found(q, 8, b)
        /\ Found(q, 16, c) /\ Found(q, 20, d) /\ Found(q, 24, e)
    <2>1. /\ a \in ByteStrings /\ b \in ByteStrings /\ c \in ByteStrings
          /\ d \in ByteStrings /\ e \in ByteStrings /\ f \in ByteStrings
      BY <1>2
    <2>2. /\ q \in ByteStrings
          /\ Len(q) = Len(a) + Len(b) + Len(c) + Len(d) + Len(e) + Len(f)
          /\ Found(q, 0, a) /\ Found(q, Len(a), b)
          /\ Found(q, Len(a) + Len(b), c) /\ Found(q, Len(a) + Len(b) + Len(c), d)
          /\ Found(q, Len(a) + Len(b) + Len(c) + Len(d), e)
      BY <2>1, SixParts
    <2>. HIDE DEF q
    <2>. QED
      BY <1>2, <2>2
  <1>5. p = q \o x
    BY <1>3
  <1>. HIDE DEF q
  <1>6. p \in ByteStrings /\ Len(p) = 32 + Len(x) /\ Found(p, 32, x)
    <2>1. q \o x \in ByteStrings /\ Len(q \o x) = Len(q) + Len(x) /\ Found(q \o x, Len(q), x)
      BY <1>2, <1>4, TwoParts
    <2>. QED
      BY <1>4, <1>5, <2>1
  <1>7. /\ Found(p, 0, a) /\ Found(p, 8, b) /\ Found(p, 16, c) /\ Found(p, 20, d)
        /\ Found(p, 24, e)
    BY <1>2, <1>4, <1>5, FoundBehindIt
  <1>8. /\ LoadU64(p, 0) = m.id /\ LoadU64(p, 8) = m.sequence /\ LoadU32(p, 16) = m.width
        /\ LoadU32(p, 20) = m.height /\ LoadU32(p, 24) = m.stride
    BY <1>1, <1>6, <1>7, FoundU64, FoundU32 DEF a, b, c, d, e
  <1>9. SubSeq(p, 33, Len(p)) = m.pixels
    <2>1. SubSeq(p, 32 + 1, 32 + Len(x)) = x
      BY <1>2, <1>6, FoundIsCutOut
    <2>. QED
      BY <1>6, <2>1 DEF x
  <1>10. Fields("WINDOW_FRAME", p) = m
    BY <1>1, <1>8, <1>9 DEF Fields
  <1>. QED
    BY <1>10 DEF p

\* What the recursive function inside DamageBytes computes, step by step.
JoinsRects(f, rects) ==
    /\ f[0] = <<>>
    /\ \A k \in 1 .. Len(rects) : f[k] = f[k - 1] \o StoreArea(rects[k]) \o rects[k].pixels

\* The recursive function inside DamageBytes exists.
LEMMA RectsAreJoined ==
    ASSUME NEW rects, Len(rects) \in Nat
    PROVE  \E f : JoinsRects(f, rects) /\ DamageBytes(rects) = f[Len(rects)]
  <1>. DEFINE N == Len(rects)
              Step(x, k) == x \o StoreArea(rects[k]) \o rects[k].pixels
              Upto(g, m) == g[0] = <<>> /\ \A k \in 1 .. m : g[k] = Step(g[k - 1], k)
              P == {m \in 0 .. N : \E g : Upto(g, m)}
  <1>1. N \in Nat
    OBVIOUS
  <1>. HIDE DEF Step, N
  <1>2. 0 \in P
    <2>. DEFINE g == [k \in {0} |-> <<>>]
    <2>1. Upto(g, 0)
      OBVIOUS
    <2>2. \E h : Upto(h, 0)
      BY <2>1, Zenon
    <2>. QED
      BY <1>1, <2>2
  <1>3. ASSUME NEW m \in 0 .. N - 1, m \in P PROVE m + 1 \in P
    <2>1. PICK g : Upto(g, m)
      BY <1>3
    <2>2. m \in Nat /\ m + 1 \in 0 .. N /\ m + 1 >= 1
      BY <1>1
    <2>. DEFINE last == Step(g[m], m + 1)
                h == [k \in 0 .. m + 1 |-> IF k = m + 1 THEN last ELSE g[k]]
    <2>3. h[m + 1] = last /\ h[m] = g[m] /\ h[0] = <<>>
      <3>1. g[0] = <<>>
        BY <2>1
      <3>2. m + 1 \in 0 .. m + 1 /\ m \in 0 .. m + 1 /\ 0 \in 0 .. m + 1 /\ m # m + 1 /\ 0 # m + 1
        BY <2>2
      <3>. HIDE DEF last
      <3>. QED
        BY <3>1, <3>2
    <2>4. \A k \in 1 .. m : h[k] = g[k] /\ h[k - 1] = g[k - 1]
      BY <2>2
    <2>5. \A k \in 1 .. m + 1 : k \in 1 .. m \/ k = m + 1
      BY <2>2
    <2>6. (m + 1) - 1 = m
      BY <2>2
    <2>. HIDE DEF h
    <2>7. \A k \in 1 .. m + 1 : h[k] = Step(h[k - 1], k)
      <3>1. ASSUME NEW k \in 1 .. m PROVE h[k] = Step(h[k - 1], k)
        BY <2>1, <2>4
      <3>2. h[m + 1] = Step(h[(m + 1) - 1], m + 1)
        BY <2>3, <2>6
      <3>. QED
        BY <2>5, <3>1, <3>2
    <2>8. Upto(h, m + 1)
      BY <2>3, <2>7
    <2>. HIDE DEF Upto
    <2>. QED
      BY <2>2, <2>8
  <1>4. N \in P
    <2>. HIDE DEF P
    <2>1. \A m \in 0 .. N : m \in P
      BY <1>1, <1>2, <1>3, NatInd
    <2>. QED
      BY <1>1, <2>1
  <1>5. PICK g : Upto(g, N)
    BY <1>4
  <1>. DEFINE Body(k) == [m \in 0 .. N |-> IF m = 0 THEN <<>> ELSE Step(k[m - 1], m)]
              f == [m \in 0 .. N |-> g[m]]
  <1>6. f = Body(f)
    <2>1. \A m \in 1 .. N : f[m] = g[m] /\ f[m - 1] = g[m - 1]
      BY <1>1
    <2>2. f[0] = <<>>
      BY <1>1, <1>5
    <2>3. \A m \in 0 .. N : m = 0 \/ m \in 1 .. N
      BY <1>1
    <2>4. \A m \in 0 .. N : f[m] = Body(f)[m]
      BY <1>5, <2>1, <2>2, <2>3
    <2>. QED
      BY <2>4
  <1>. DEFINE at == CHOOSE k : k = Body(k)
  <1>7. at = Body(at)
    BY <1>6
  <1>8. DamageBytes(rects) = at[N]
    BY DEF DamageBytes, Step, N
  <1>9. at[0] = <<>> /\ \A m \in 1 .. N : at[m] = Step(at[m - 1], m)
    <2>. HIDE DEF at
    <2>1. \A k : Body(k)[0] = <<>> /\ \A m \in 1 .. N : Body(k)[m] = Step(k[m - 1], m)
      BY <1>1
    <2>. HIDE DEF Body
    <2>. QED
      BY <1>7, <2>1
  <1>. HIDE DEF at
  <1>10. JoinsRects(at, rects)
    BY <1>9 DEF JoinsRects, Step, N
  <1>. QED
    BY <1>8, <1>10 DEF N

\* So does the one of the walk of valid_damage_payload, and this is what it does.
LEMMA RectsAreWalked ==
    ASSUME NEW p, LoadU32(p, 24) \in Nat
    PROVE  /\ OffsetOfRect(p)[0] = {32}
           /\ \A k \in 1 .. LoadU32(p, 24) :
                 OffsetOfRect(p)[k] = UNION {AfterRect(p, o) : o \in OffsetOfRect(p)[k - 1]}
  <1>. DEFINE N == LoadU32(p, 24)
              Step(x, k) == UNION {AfterRect(p, o) : o \in x}
              Upto(g, m) == g[0] = {32} /\ \A k \in 1 .. m : g[k] = Step(g[k - 1], k)
              P == {m \in 0 .. N : \E g : Upto(g, m)}
  <1>1. N \in Nat
    OBVIOUS
  <1>. HIDE DEF Step, N
  <1>2. 0 \in P
    <2>. DEFINE g == [k \in {0} |-> {32}]
    <2>1. Upto(g, 0)
      OBVIOUS
    <2>2. \E h : Upto(h, 0)
      BY <2>1, Zenon
    <2>. QED
      BY <1>1, <2>2
  <1>3. ASSUME NEW m \in 0 .. N - 1, m \in P PROVE m + 1 \in P
    <2>1. PICK g : Upto(g, m)
      BY <1>3
    <2>2. m \in Nat /\ m + 1 \in 0 .. N /\ m + 1 >= 1
      BY <1>1
    <2>. DEFINE last == Step(g[m], m + 1)
                h == [k \in 0 .. m + 1 |-> IF k = m + 1 THEN last ELSE g[k]]
    <2>3. h[m + 1] = last /\ h[m] = g[m] /\ h[0] = {32}
      <3>1. g[0] = {32}
        BY <2>1
      <3>2. m + 1 \in 0 .. m + 1 /\ m \in 0 .. m + 1 /\ 0 \in 0 .. m + 1 /\ m # m + 1 /\ 0 # m + 1
        BY <2>2
      <3>. HIDE DEF last
      <3>. QED
        BY <3>1, <3>2
    <2>4. \A k \in 1 .. m : h[k] = g[k] /\ h[k - 1] = g[k - 1]
      BY <2>2
    <2>5. \A k \in 1 .. m + 1 : k \in 1 .. m \/ k = m + 1
      BY <2>2
    <2>6. (m + 1) - 1 = m
      BY <2>2
    <2>. HIDE DEF h
    <2>7. \A k \in 1 .. m + 1 : h[k] = Step(h[k - 1], k)
      <3>1. ASSUME NEW k \in 1 .. m PROVE h[k] = Step(h[k - 1], k)
        BY <2>1, <2>4
      <3>2. h[m + 1] = Step(h[(m + 1) - 1], m + 1)
        BY <2>3, <2>6
      <3>. QED
        BY <2>5, <3>1, <3>2
    <2>8. Upto(h, m + 1)
      BY <2>3, <2>7
    <2>. HIDE DEF Upto
    <2>. QED
      BY <2>2, <2>8
  <1>4. N \in P
    <2>. HIDE DEF P
    <2>1. \A m \in 0 .. N : m \in P
      BY <1>1, <1>2, <1>3, NatInd
    <2>. QED
      BY <1>1, <2>1
  <1>5. PICK g : Upto(g, N)
    BY <1>4
  <1>. DEFINE Body(k) == [m \in 0 .. N |-> IF m = 0 THEN {32} ELSE Step(k[m - 1], m)]
              f == [m \in 0 .. N |-> g[m]]
  <1>6. f = Body(f)
    <2>1. \A m \in 1 .. N : f[m] = g[m] /\ f[m - 1] = g[m - 1]
      BY <1>1
    <2>2. f[0] = {32}
      BY <1>1, <1>5
    <2>3. \A m \in 0 .. N : m = 0 \/ m \in 1 .. N
      BY <1>1
    <2>4. \A m \in 0 .. N : f[m] = Body(f)[m]
      BY <1>5, <2>1, <2>2, <2>3
    <2>. QED
      BY <2>4
  <1>. DEFINE at == CHOOSE k : k = Body(k)
  <1>7. at = Body(at)
    BY <1>6
  <1>8. OffsetOfRect(p) = at
    BY DEF OffsetOfRect, Step, N
  <1>9. at[0] = {32} /\ \A m \in 1 .. N : at[m] = Step(at[m - 1], m)
    <2>. HIDE DEF at
    <2>1. \A k : Body(k)[0] = {32} /\ \A m \in 1 .. N : Body(k)[m] = Step(k[m - 1], m)
      BY <1>1
    <2>. HIDE DEF Body
    <2>. QED
      BY <1>7, <2>1
  <1>. HIDE DEF at
  <1>. QED
    BY <1>8, <1>9 DEF Step, N

\* A damaged rectangle is read where it was written, with all of its pixels.
LEMMA RectIsReadBack ==
    ASSUME NEW p \in ByteStrings, NEW r \in DamageRects, NEW o,
           Found(p, o, StoreArea(r)), Found(p, o + 16, r.pixels)
    PROVE  RectAt(p, o) = r /\ RectPixels(p, o) = Len(r.pixels)
  <1>1. /\ r.x \in I32 /\ r.y \in I32 /\ r.w \in U32 /\ r.h \in U32 /\ r.pixels \in ByteStrings
        /\ Len(r.pixels) = r.w * r.h * 4
        /\ r = [x |-> r.x, y |-> r.y, w |-> r.w, h |-> r.h, pixels |-> r.pixels]
    BY DEF DamageRects, ByteStrings
  <1>2. LoadArea(p, o) = [x |-> r.x, y |-> r.y, w |-> r.w, h |-> r.h]
    BY <1>1, FoundArea
  <1>3. /\ LoadI32(p, o) = r.x /\ LoadI32(p, o + 4) = r.y
        /\ LoadU32(p, o + 8) = r.w /\ LoadU32(p, o + 12) = r.h
    BY <1>2 DEF LoadArea
  <1>4. RectPixels(p, o) = Len(r.pixels)
    BY <1>1, <1>3 DEF RectPixels
  <1>5. SubSeq(p, (o + 16) + 1, (o + 16) + Len(r.pixels)) = r.pixels
    BY <1>1, FoundIsCutOut
  <1>6. o \in Nat /\ Len(r.pixels) \in Nat
    BY <1>1, LenProperties DEF Found, ByteStrings
  <1>7. (o + 16) + 1 = o + 17 /\ (o + 16) + Len(r.pixels) = o + 16 + Len(r.pixels)
    BY <1>6
  <1>8. SubSeq(p, o + 17, o + 16 + RectPixels(p, o)) = r.pixels
    BY <1>4, <1>5, <1>7
  <1>. QED
    BY <1>1, <1>3, <1>4, <1>8 DEF RectAt

\* Each rectangle stands in a payload behind those before it.
LEMMA RectsAreFound ==
    ASSUME NEW rects \in Seq(DamageRects), NEW f, JoinsRects(f, rects)
    PROVE  /\ \A k \in 0 .. Len(rects) : f[k] \in ByteStrings
           /\ \A k \in 1 .. Len(rects) :
                 /\ Len(f[k]) = Len(f[k - 1]) + 16 + Len(rects[k].pixels)
                 /\ Found(f[Len(rects)], Len(f[k - 1]), StoreArea(rects[k]))
                 /\ Found(f[Len(rects)], Len(f[k - 1]) + 16, rects[k].pixels)
  <1>. DEFINE N == Len(rects)
              area(k) == StoreArea(rects[k])
              pixels(k) == rects[k].pixels
  <1>1. N \in Nat
    BY LenProperties
  <1>2. ASSUME NEW k \in 1 .. N
        PROVE  /\ area(k) \in ByteStrings /\ Len(area(k)) = 16 /\ pixels(k) \in ByteStrings
               /\ f[k] = f[k - 1] \o area(k) \o pixels(k)
    <2>1. rects[k] \in DamageRects
      BY ElementOfSeq
    <2>2. /\ rects[k].x \in I32 /\ rects[k].y \in I32 /\ rects[k].w \in U32 /\ rects[k].h \in U32
          /\ pixels(k) \in ByteStrings
      BY <2>1 DEF DamageRects, ByteStrings
    <2>3. <<>> \in ByteStrings
      BY DEF ByteStrings
    <2>4. area(k) \in ByteStrings /\ Len(area(k)) = 16
      BY <2>2, <2>3, FoundArea
    <2>. QED
      BY <2>2, <2>4 DEF JoinsRects
  <1>3. f[0] = <<>> /\ <<>> \in ByteStrings
    BY DEF JoinsRects, ByteStrings
  <1>. HIDE DEF area, pixels
  <1>4. ASSUME NEW k \in 1 .. N, f[k - 1] \in ByteStrings
        PROVE  /\ f[k] \in ByteStrings
               /\ Len(f[k]) = Len(f[k - 1]) + 16 + Len(pixels(k))
               /\ Found(f[k], Len(f[k - 1]), area(k))
               /\ Found(f[k], Len(f[k - 1]) + 16, pixels(k))
               /\ \A o, s : s \in ByteStrings /\ Found(f[k - 1], o, s) => Found(f[k], o, s)
    <2>. DEFINE u == f[k - 1]
                a == area(k)
                x == pixels(k)
                q == u \o a \o x
    <2>1. u \in ByteStrings /\ a \in ByteStrings /\ Len(a) = 16 /\ x \in ByteStrings /\ f[k] = q
      BY <1>2, <1>4
    <2>. HIDE DEF u, a, x
    <2>2. /\ q \in ByteStrings /\ Len(q) = Len(u) + Len(a) + Len(x)
          /\ Found(q, Len(u), a) /\ Found(q, Len(u) + Len(a), x)
      BY <2>1, ThreeParts
    <2>3. ASSUME NEW o, NEW s \in ByteStrings, Found(u, o, s) PROVE Found(q, o, s)
      <3>1. Found(u \o a, o, s) /\ u \o a \in ByteStrings
        BY <2>1, <2>3, FoundBehindIt, Concatenation
      <3>. QED
        BY <2>1, <3>1, FoundBehindIt
    <2>. HIDE DEF q
    <2>. QED
      BY <2>1, <2>2, <2>3 DEF u, a, x
  <1>5. \A k \in 0 .. N : f[k] \in ByteStrings
    <2>. DEFINE P == {k \in 0 .. N : f[k] \in ByteStrings}
    <2>1. 0 \in P
      BY <1>1, <1>3
    <2>2. ASSUME NEW k \in 0 .. N - 1, k \in P PROVE k + 1 \in P
      <3>1. k + 1 \in 1 .. N /\ k + 1 \in 0 .. N /\ (k + 1) - 1 = k
        BY <1>1
      <3>2. f[(k + 1) - 1] \in ByteStrings
        BY <2>2, <3>1
      <3>3. f[k + 1] \in ByteStrings
        BY <1>4, <3>1, <3>2
      <3>. QED
        BY <3>1, <3>3
    <2>. HIDE DEF P
    <2>3. \A k \in 0 .. N : k \in P
      BY <1>1, <2>1, <2>2, NatInd
    <2>. QED
      BY <2>3 DEF P
  <1>6. ASSUME NEW k \in 0 .. N - 1
        PROVE  /\ k + 1 \in 1 .. N /\ (k + 1) - 1 = k /\ f[k] \in ByteStrings
               /\ \A o, s : s \in ByteStrings /\ Found(f[k], o, s) => Found(f[k + 1], o, s)
    <2>1. k + 1 \in 1 .. N /\ (k + 1) - 1 = k /\ k \in 0 .. N
      BY <1>1
    <2>2. f[(k + 1) - 1] \in ByteStrings
      BY <1>5, <2>1
    <2>3. \A o, s : s \in ByteStrings /\ Found(f[(k + 1) - 1], o, s) => Found(f[k + 1], o, s)
      BY <1>4, <2>1, <2>2
    <2>. QED
      BY <2>1, <2>2, <2>3
  \* What is found up to some rectangle is found in the whole.
  <1>7. ASSUME NEW k \in 0 .. N, NEW o, NEW s \in ByteStrings, Found(f[k], o, s)
        PROVE  Found(f[N], o, s)
    <2>. DEFINE P == {j \in 0 .. N : k <= j => Found(f[j], o, s)}
    <2>1. 0 \in P
      <3>1. k <= 0 => k = 0
        BY <1>1
      <3>. QED
        BY <1>1, <1>7, <3>1
    <2>2. ASSUME NEW j \in 0 .. N - 1, j \in P PROVE j + 1 \in P
      <3>1. j + 1 \in 0 .. N /\ (k <= j + 1 => k <= j \/ k = j + 1)
        BY <1>1
      <3>2. k <= j => Found(f[j + 1], o, s)
        BY <1>6, <2>2
      <3>. QED
        BY <1>7, <3>1, <3>2
    <2>. HIDE DEF P
    <2>3. \A j \in 0 .. N : j \in P
      BY <1>1, <2>1, <2>2, NatInd
    <2>4. N \in P /\ k <= N
      BY <1>1, <2>3
    <2>. QED
      BY <2>4 DEF P
  <1>8. ASSUME NEW k \in 1 .. N
        PROVE  /\ Len(f[k]) = Len(f[k - 1]) + 16 + Len(pixels(k))
               /\ Found(f[N], Len(f[k - 1]), area(k))
               /\ Found(f[N], Len(f[k - 1]) + 16, pixels(k))
    <2>1. k - 1 \in 0 .. N /\ k \in 0 .. N
      BY <1>1
    <2>2. /\ Len(f[k]) = Len(f[k - 1]) + 16 + Len(pixels(k))
          /\ Found(f[k], Len(f[k - 1]), area(k))
          /\ Found(f[k], Len(f[k - 1]) + 16, pixels(k))
      BY <1>4, <1>5, <2>1
    <2>3. area(k) \in ByteStrings /\ pixels(k) \in ByteStrings
      BY <1>2
    <2>4. Found(f[N], Len(f[k - 1]), area(k))
      BY <1>7, <2>1, <2>2, <2>3
    <2>5. Found(f[N], Len(f[k - 1]) + 16, pixels(k))
      BY <1>7, <2>1, <2>2, <2>3
    <2>. QED
      BY <2>2, <2>4, <2>5
  <1>. QED
    BY <1>5, <1>8 DEF N, area, pixels

\* The walk of valid_damage_payload comes to each rectangle where it was
\* written: if it comes to the end, it has come to all.
LEMMA RectsAreMet ==
    ASSUME NEW p \in ByteStrings, NEW rects \in Seq(DamageRects), LoadU32(p, 24) = Len(rects),
           NEW f, JoinsRects(f, rects), Found(p, 32, f[Len(rects)]),
           OffsetOfRect(p)[Len(rects)] # {}
    PROVE  \A k \in 1 .. Len(rects) :
              /\ OffsetOfRect(p)[k - 1] = {32 + Len(f[k - 1])}
              /\ RectAt(p, 32 + Len(f[k - 1])) = rects[k]
  <1>. DEFINE N == Len(rects)
              at == OffsetOfRect(p)
              o(k) == 32 + Len(f[k])
  <1>1. N \in Nat
    BY LenProperties
  <1>2. at[0] = {32} /\ \A k \in 1 .. N : at[k] = UNION {AfterRect(p, x) : x \in at[k - 1]}
    BY <1>1, RectsAreWalked
  <1>3. at[N] # {}
    OBVIOUS
  <1>. HIDE DEF at
  <1>4. /\ \A k \in 0 .. N : f[k] \in ByteStrings /\ Len(f[k]) \in Nat
        /\ \A k \in 1 .. N :
              /\ Len(f[k]) = Len(f[k - 1]) + 16 + Len(rects[k].pixels)
              /\ Found(f[N], Len(f[k - 1]), StoreArea(rects[k]))
              /\ Found(f[N], Len(f[k - 1]) + 16, rects[k].pixels)
    BY RectsAreFound, LenProperties DEF ByteStrings
  <1>5. ASSUME NEW k \in 1 .. N
        PROVE  RectAt(p, o(k - 1)) = rects[k] /\ RectPixels(p, o(k - 1)) = Len(rects[k].pixels)
    <2>. DEFINE r == rects[k]
                s == StoreArea(r)
                n == Len(f[k - 1])
    <2>1. r \in DamageRects /\ k - 1 \in 0 .. N /\ N \in 0 .. N
      BY <1>1, ElementOfSeq
    <2>2. r.x \in I32 /\ r.y \in I32 /\ r.w \in U32 /\ r.h \in U32 /\ r.pixels \in ByteStrings
      BY <2>1 DEF DamageRects, ByteStrings
    <2>3. s \in ByteStrings
      BY <2>2, FoundArea
    <2>4. Found(f[N], n, s) /\ Found(f[N], n + 16, r.pixels) /\ f[N] \in ByteStrings /\ n \in Nat
      BY <1>4, <2>1
    <2>. HIDE DEF r, s, n
    <2>5. Found(p, 32 + n, s)
      BY <2>3, <2>4, FoundInPart
    <2>6. Found(p, 32 + (n + 16), r.pixels)
      BY <2>2, <2>4, FoundInPart
    <2>7. 32 + (n + 16) = (32 + n) + 16
      BY <2>4
    <2>8. RectAt(p, 32 + n) = r /\ RectPixels(p, 32 + n) = Len(r.pixels)
      BY <2>1, <2>5, <2>6, <2>7, RectIsReadBack DEF s
    <2>. QED
      BY <2>8 DEF r, n
  <1>6. \A k \in 0 .. N : at[k] = {o(k)} \/ at[k] = {}
    <2>. DEFINE P == {k \in 0 .. N : at[k] = {o(k)} \/ at[k] = {}}
    <2>1. 0 \in P
      <3>1. f[0] = <<>> /\ Len(<<>>) = 0
        BY DEF JoinsRects
      <3>. QED
        BY <1>1, <1>2, <3>1
    <2>2. ASSUME NEW k \in 0 .. N - 1, k \in P PROVE k + 1 \in P
      <3>1. k + 1 \in 1 .. N /\ k + 1 \in 0 .. N /\ (k + 1) - 1 = k /\ k \in 0 .. N
        BY <1>1
      <3>2. at[k + 1] = UNION {AfterRect(p, x) : x \in at[k]}
        BY <1>2, <3>1
      <3>3. CASE at[k] = {}
        BY <3>1, <3>2, <3>3
      <3>4. CASE at[k] = {o(k)}
        <4>1. at[k + 1] = AfterRect(p, o(k))
          BY <3>2, <3>4
        <4>2. RectPixels(p, o(k)) = Len(rects[k + 1].pixels)
          BY <1>5, <3>1
        <4>3. /\ Len(f[k + 1]) = Len(f[k]) + 16 + Len(rects[k + 1].pixels)
              /\ Len(f[k]) \in Nat /\ Len(f[k + 1]) \in Nat
          BY <1>4, <3>1
        <4>4. Len(rects[k + 1].pixels) \in Nat
          <5>1. rects[k + 1] \in DamageRects
            BY <3>1, ElementOfSeq
          <5>. QED
            BY <5>1, LenProperties DEF DamageRects
        <4>5. o(k) + 16 + RectPixels(p, o(k)) = o(k + 1)
          <5>. DEFINE n == Len(f[k])
                      next == Len(f[k + 1])
                      x == Len(rects[k + 1].pixels)
                      y == RectPixels(p, o(k))
          <5>1. y = x /\ next = n + 16 + x /\ n \in Nat /\ x \in Nat
            BY <4>2, <4>3, <4>4
          <5>2. o(k) = 32 + n /\ o(k + 1) = 32 + next
            OBVIOUS
          <5>. HIDE DEF o, n, next, x, y
          <5>3. o(k) + 16 + y = o(k + 1)
            BY <5>1, <5>2
          <5>. QED
            BY <5>3 DEF y
        <4>. HIDE DEF o
        <4>6. at[k + 1] = {o(k + 1)} \/ at[k + 1] = {}
          BY <4>1, <4>5 DEF AfterRect
        <4>. QED
          BY <3>1, <4>6
      <3>. QED
        BY <2>2, <3>3, <3>4
    <2>. HIDE DEF P
    <2>3. \A k \in 0 .. N : k \in P
      BY <1>1, <2>1, <2>2, NatInd
    <2>. QED
      BY <2>3 DEF P
  <1>7. \A k \in 0 .. N : at[N - k] # {}
    <2>. DEFINE P == {k \in 0 .. N : at[N - k] # {}}
    <2>1. 0 \in P
      <3>1. N - 0 = N /\ 0 \in 0 .. N
        BY <1>1
      <3>. QED
        BY <1>3, <3>1
    <2>2. ASSUME NEW k \in 0 .. N - 1, k \in P PROVE k + 1 \in P
      <3>1. N - k \in 1 .. N /\ (N - k) - 1 = N - (k + 1) /\ k + 1 \in 0 .. N
        BY <1>1
      <3>2. at[N - k] = UNION {AfterRect(p, x) : x \in at[N - (k + 1)]}
        BY <1>2, <3>1
      <3>3. at[N - k] # {}
        BY <2>2
      <3>. QED
        BY <3>1, <3>2, <3>3
    <2>. HIDE DEF P
    <2>3. \A k \in 0 .. N : k \in P
      BY <1>1, <2>1, <2>2, NatInd
    <2>. QED
      BY <2>3 DEF P
  <1>8. ASSUME NEW k \in 1 .. N PROVE at[k - 1] = {o(k - 1)}
    <2>1. k - 1 \in 0 .. N /\ N - (k - 1) \in 0 .. N /\ N - (N - (k - 1)) = k - 1
      BY <1>1
    <2>2. at[k - 1] # {}
      BY <1>7, <2>1
    <2>. QED
      BY <1>6, <2>1, <2>2
  <1>. QED
    BY <1>5, <1>8 DEF at

\* cw_decode_window_damage and cw_damage_rect_at.
LEMMA DamageIsReadBack ==
    ASSUME NEW m \in MessagesOf("WINDOW_DAMAGE"), ValidDamage(Payload(m))
    PROVE  Fields("WINDOW_DAMAGE", Payload(m)) = m
  <1>1. /\ m.type = "WINDOW_DAMAGE" /\ m.id \in U64 /\ m.sequence \in U64 /\ m.base \in U64
        /\ m.rects \in Seq(DamageRects) /\ Len(m.rects) \in U32
        /\ m = [type |-> "WINDOW_DAMAGE", id |-> m.id, sequence |-> m.sequence, base |-> m.base,
                rects |-> m.rects]
    BY DEF MessagesOf
  <1>. DEFINE p == Payload(m)
              rects == m.rects
              N == Len(rects)
              a == StoreU64(m.id)
              b == StoreU64(m.sequence)
              c == StoreU64(m.base)
              d == StoreU32(N)
              e == StoreU32(0)
              g == DamageBytes(rects)
  <1>2. /\ a \in ByteStrings /\ Len(a) = 8 /\ b \in ByteStrings /\ Len(b) = 8
        /\ c \in ByteStrings /\ Len(c) = 8 /\ d \in ByteStrings /\ Len(d) = 4
        /\ e \in ByteStrings /\ Len(e) = 4
    BY <1>1, StoredFields
  <1>3. p = a \o b \o c \o d \o e \o g
    BY <1>1 DEF Payload
  <1>4. N \in Nat /\ N \in U32 /\ rects \in Seq(DamageRects) /\ ValidDamage(p)
    BY <1>1, LenProperties
  <1>5. rects = [i \in 1 .. N |-> rects[i]]
    BY <1>4
  <1>. HIDE DEF p, rects, N, a, b, c, d, e, g
  <1>6. PICK f : JoinsRects(f, rects) /\ g = f[N]
    BY <1>4, RectsAreJoined DEF g, N
  <1>7. g \in ByteStrings
    <2>1. \A k \in 0 .. Len(rects) : f[k] \in ByteStrings
      BY <1>4, <1>6, RectsAreFound
    <2>2. N = Len(rects) /\ N \in 0 .. N
      BY <1>4 DEF N
    <2>. QED
      BY <1>6, <2>1, <2>2
  <1>8. /\ p \in ByteStrings /\ Found(p, 0, a) /\ Found(p, 8, b) /\ Found(p, 16, c)
        /\ Found(p, 24, d) /\ Found(p, 32, g)
    <2>1. /\ a \in ByteStrings /\ b \in ByteStrings /\ c \in ByteStrings
          /\ d \in ByteStrings /\ e \in ByteStrings
      BY <1>2
    <2>. DEFINE q == a \o b \o c \o d \o e \o g
    <2>2. /\ q \in ByteStrings /\ Found(q, 0, a) /\ Found(q, Len(a), b)
          /\ Found(q, Len(a) + Len(b), c) /\ Found(q, Len(a) + Len(b) + Len(c), d)
          /\ Found(q, Len(a) + Len(b) + Len(c) + Len(d) + Len(e), g)
      BY <1>7, <2>1, SixParts
    <2>. HIDE DEF q
    <2>3. p = q
      BY <1>3 DEF q
    <2>. QED
      BY <1>2, <2>2, <2>3
  <1>9. /\ LoadU64(p, 0) = m.id /\ LoadU64(p, 8) = m.sequence /\ LoadU64(p, 16) = m.base
        /\ LoadU32(p, 24) = N
    BY <1>1, <1>4, <1>8, FoundU64, FoundU32 DEF a, b, c, d
  <1>10. OffsetOfRect(p)[N] # {}
    BY <1>4, <1>9 DEF ValidDamage
  <1>11. ASSUME NEW i \in 1 .. N
         PROVE  RectAt(p, CHOOSE o \in OffsetOfRect(p)[i - 1] : TRUE) = rects[i]
    <2>. DEFINE x == 32 + Len(f[i - 1])
    <2>1. OffsetOfRect(p)[i - 1] = {x} /\ RectAt(p, x) = rects[i]
      BY <1>4, <1>6, <1>8, <1>9, <1>10, RectsAreMet DEF N
    <2>. HIDE DEF x
    <2>2. (CHOOSE o \in {x} : TRUE) = x
      OBVIOUS
    <2>. QED
      BY <2>1, <2>2
  <1>. DEFINE read == [i \in 1 .. LoadU32(p, 24) |->
                          RectAt(p, CHOOSE o \in OffsetOfRect(p)[i - 1] : TRUE)]
  <1>12. read = rects
    BY <1>5, <1>9, <1>11
  <1>13. Fields("WINDOW_DAMAGE", p) =
            [type |-> "WINDOW_DAMAGE", id |-> LoadU64(p, 0), sequence |-> LoadU64(p, 8),
             base |-> LoadU64(p, 16), rects |-> read]
    BY DEF Fields
  <1>. HIDE DEF read
  <1>14. Fields("WINDOW_DAMAGE", p) = m
    BY <1>1, <1>9, <1>12, <1>13 DEF rects
  <1>. QED
    BY <1>14 DEF p

\* No two types have one number.
LEMMA TypeHasItsName ==
    ASSUME NEW name \in DOMAIN MessageTypes
    PROVE  TypeName(MessageTypes[name]) = name /\ IsKnown(MessageTypes[name])
  <1>1. \A other \in DOMAIN MessageTypes : MessageTypes[other] = MessageTypes[name] => other = name
    BY DEF MessageTypes
  <1>. QED
    BY <1>1 DEF TypeName, IsKnown

\* Whatever a struct of protocol.h says, for every type of message: what the
\* receiver decodes of a payload that it accepts is what the sender encoded.
THEOREM MessageIsReadBack ==
    ASSUME NEW m, m.type \in DOMAIN MessageTypes, m \in MessagesOf(m.type),
           IsValid(MessageTypes[m.type], Payload(m))
    PROVE  Fields(m.type, Payload(m)) = m
  <1>1. m.type = "WINDOW_DAMAGE" => ValidDamage(Payload(m))
    <2>1. TypeName(MessageTypes[m.type]) = m.type /\ IsKnown(MessageTypes[m.type])
      BY TypeHasItsName
    <2>. HIDE DEF MessageTypes
    <2>. QED
      BY <2>1 DEF IsValid
  <1>2. CASE m.type = "HELLO"
    BY <1>2, HelloIsReadBack
  <1>3. CASE m.type = "HELLO_ACK"
    BY <1>3, HelloAckIsReadBack
  <1>4. CASE m.type = "OUTPUT_CONFIG"
    BY <1>4, OutputConfigIsReadBack
  <1>5. CASE m.type = "WINDOW_CREATE"
    BY <1>5, CreateIsReadBack
  <1>6. CASE m.type = "WINDOW_RESIZE"
    BY <1>6, ResizeIsReadBack
  <1>7. CASE m.type = "WINDOW_PRESENT"
    BY <1>7, PresentIsReadBack
  <1>8. CASE m.type \in {"WINDOW_PRESENT_ACK", "WINDOW_FRAME_REQUEST"}
    BY <1>8, AckIsReadBack
  <1>9. CASE m.type \in {"WINDOW_DESTROY", "WINDOW_ACTIVATE"}
    BY <1>9, DestroyIsReadBack
  <1>10. CASE m.type \in {"POINTER_ENTER", "POINTER_LEAVE"}
    BY <1>10, CrossingIsReadBack
  <1>11. CASE m.type = "POINTER_MOTION"
    BY <1>11, MotionIsReadBack
  <1>12. CASE m.type = "POINTER_BUTTON"
    BY <1>12, ButtonIsReadBack
  <1>13. CASE m.type = "POINTER_WHEEL"
    BY <1>13, WheelIsReadBack
  <1>14. CASE m.type = "POINTER_CAPTURE_LOST"
    BY <1>14, CaptureLostIsReadBack
  <1>15. CASE m.type = "KEYBOARD_FOCUS"
    BY <1>15, FocusIsReadBack
  <1>16. CASE m.type = "KEYBOARD_KEY"
    BY <1>16, KeyIsReadBack
  <1>17. CASE m.type = "WINDOW_FRAME"
    BY <1>17, FrameIsReadBack
  <1>18. CASE m.type = "WINDOW_DAMAGE"
    BY <1>1, <1>18, DamageIsReadBack
  <1>. QED
    BY <1>2, <1>3, <1>4, <1>5, <1>6, <1>7, <1>8, <1>9, <1>10, <1>11,
       <1>12, <1>13, <1>14, <1>15, <1>16, <1>17, <1>18 DEF MessageTypes

-----------------------------------------------------------------------------
(* Messages on the wire.                                                   *)

\* What may be said in some conversation, with its number.
SayableByAgent == UNION {{c.agent[n] : n \in DOMAIN c.agent} : c \in Conversations}
SayableByServer ==
    UNION {UNION {{c.server[n][k] : k \in DOMAIN c.server[n]} : n \in DOMAIN c.server}
             : c \in Conversations}
Sayable == SayableByAgent \cup SayableByServer
WireMessage == [sequence : U64, message : Sayable]
OnWire(x) == Bytes(x.message, x.sequence)
WireHeader(x) == [Encoded(x.message).header EXCEPT !.sequence = x.sequence]
WirePayload(x) == Encoded(x.message).payload

\* What may be said is a message: TransportAssumption, for both ends.
LEMMA SayableIsSaid == \A m \in Sayable : Said(m)
  <1>. SUFFICES ASSUME NEW m \in Sayable PROVE Said(m)
    OBVIOUS
  <1>1. CASE \E c \in Conversations : \E n \in DOMAIN c.agent : m = c.agent[n]
    BY <1>1, TransportAssumption, Zenon
  <1>2. CASE \E c \in Conversations : \E n \in DOMAIN c.server : \E k \in DOMAIN c.server[n] :
                m = c.server[n][k]
    BY <1>2, TransportAssumption, Zenon
  <1>3. \/ \E c \in Conversations : \E n \in DOMAIN c.agent : m = c.agent[n]
        \/ \E c \in Conversations : \E n \in DOMAIN c.server : \E k \in DOMAIN c.server[n] :
                m = c.server[n][k]
    <2>1. CASE m \in SayableByAgent
      BY <2>1 DEF SayableByAgent
    <2>2. CASE m \in SayableByServer
      <3>1. PICK c \in Conversations :
               m \in UNION {{c.server[n][k] : k \in DOMAIN c.server[n]} : n \in DOMAIN c.server}
        BY <2>2 DEF SayableByServer
      <3>2. PICK n \in DOMAIN c.server : m \in {c.server[n][k] : k \in DOMAIN c.server[n]}
        BY <3>1
      <3>. QED
        BY <3>2
    <2>. QED
      BY <2>1, <2>2 DEF Sayable
  <1>. QED
    BY <1>1, <1>2, <1>3

\* A message that its receiver accepts is read as it was said; a foreign one is
\* never accepted.
LEMMA PayloadsAreReadBack ==
    ASSUME NEW m \in Sayable,
           HeaderError(Encoded(m).header) = "ok", IsKnown(Encoded(m).header.type),
           IsValid(Encoded(m).header.type, Encoded(m).payload)
    PROVE  Fields(TypeName(Encoded(m).header.type), Encoded(m).payload) = m
  <1>1. IsMessage(m)
    BY SayableIsSaid DEF Said
  <1>2. m.type # "FOREIGN"
    BY <1>1 DEF IsMessage
  <1>3. m.type \in DOMAIN MessageTypes /\ m \in MessagesOf(m.type)
    BY <1>1, <1>2 DEF IsMessage
  <1>4. Encoded(m).header.type = MessageTypes[m.type] /\ Encoded(m).payload = Payload(m)
    BY <1>2 DEF Encoded, Header
  <1>5. TypeName(MessageTypes[m.type]) = m.type
    BY <1>3, TypeHasItsName
  <1>6. Fields(m.type, Payload(m)) = m
    BY <1>3, <1>4, MessageIsReadBack
  <1>. QED
    BY <1>4, <1>5, <1>6

\* The number of a message fits in the header.
LEMMA NumberFits ==
    ASSUME NEW n \in Nat
    PROVE  WireSequence(n) \in U64
  <1>. DEFINE k == U32Limit * U32Limit
  <1>1. k \in Nat /\ k >= 1
    BY Limits, ProductIsPositive
  <1>. HIDE DEF k
  <1>2. n % k \in 0 .. k - 1
    BY <1>1, SplitJoin, Zenon
  <1>. QED
    BY <1>2 DEF k, WireSequence, U64

\* The parts of a message on the wire, and what its number leaves as it is.
LEMMA WireBytes ==
    ASSUME NEW x \in WireMessage
    PROVE  /\ WireHeader(x) \in HeaderType /\ WirePayload(x) \in ByteStrings
           /\ OnWire(x) = HeaderBytes(WireHeader(x)) \o WirePayload(x)
           /\ WireHeader(x).type = Encoded(x.message).header.type
           /\ WireHeader(x).sequence = x.sequence
           /\ HeaderError(WireHeader(x)) = HeaderError(Encoded(x.message).header)
           /\ HeaderError(WireHeader(x)) = "ok" => WireHeader(x).length = Len(WirePayload(x))
  <1>. DEFINE h == Encoded(x.message).header
  <1>1. x.sequence \in U64 /\ IsMessage(x.message)
    BY SayableIsSaid DEF WireMessage, Said
  <1>2. /\ h \in [magic : U32, version : U16, type : U16, flags : U32, length : U32, sequence : {0}]
        /\ WirePayload(x) \in ByteStrings
        /\ HeaderError(h) = "ok" => h.length = Len(WirePayload(x))
    BY <1>1 DEF IsMessage, WirePayload, ByteStrings
  <1>3. WireHeader(x) = [h EXCEPT !.sequence = x.sequence]
    BY DEF WireHeader
  <1>. HIDE DEF h
  <1>4. /\ WireHeader(x) \in HeaderType
        /\ WireHeader(x).magic = h.magic /\ WireHeader(x).version = h.version
        /\ WireHeader(x).type = h.type /\ WireHeader(x).length = h.length
        /\ WireHeader(x).sequence = x.sequence
    BY <1>1, <1>2, <1>3 DEF HeaderType
  <1>5. HeaderError(WireHeader(x)) = HeaderError(h)
    BY <1>4 DEF HeaderError
  <1>6. OnWire(x) = HeaderBytes(WireHeader(x)) \o WirePayload(x)
    BY DEF OnWire, Bytes, WireHeader, WirePayload
  <1>. QED
    BY <1>2, <1>4, <1>5, <1>6 DEF h

\* A header is as long as cw_header_encode says.
LEMMA HeaderIsBytes ==
    ASSUME NEW h \in HeaderType
    PROVE  HeaderBytes(h) \in ByteStrings /\ Len(HeaderBytes(h)) = HeaderSize
  <1>1. /\ h.magic \in U32 /\ h.version \in U16 /\ h.type \in U16
        /\ h.flags \in U32 /\ h.length \in U32 /\ h.sequence \in U64
    BY DEF HeaderType
  <1>. DEFINE s1 == StoreU32(h.magic)   s2 == StoreU16(h.version)
              s3 == StoreU16(h.type)    s4 == StoreU32(h.flags)
              s5 == StoreU32(h.length)  s6 == StoreU64(h.sequence)
              p2 == s1 \o s2   p3 == p2 \o s3   p4 == p3 \o s4   p5 == p4 \o s5
              p6 == p5 \o s6
  <1>2. /\ s1 \in ByteStrings /\ s2 \in ByteStrings /\ s3 \in ByteStrings
        /\ s4 \in ByteStrings /\ s5 \in ByteStrings /\ s6 \in ByteStrings
        /\ Len(s1) = 4 /\ Len(s2) = 2 /\ Len(s3) = 2 /\ Len(s4) = 4 /\ Len(s5) = 4 /\ Len(s6) = 8
    BY <1>1, StoredBytes, U64Halves
  <1>3. HeaderBytes(h) = p6
    BY DEF HeaderBytes
  <1>. HIDE DEF s1, s2, s3, s4, s5, s6
  <1>4. p2 \in ByteStrings /\ Len(p2) = Len(s1) + Len(s2)
    BY <1>2, Concatenation, Zenon
  <1>5. p3 \in ByteStrings /\ Len(p3) = Len(p2) + Len(s3)
    BY <1>2, <1>4, Concatenation, Zenon
  <1>6. p4 \in ByteStrings /\ Len(p4) = Len(p3) + Len(s4)
    BY <1>2, <1>5, Concatenation, Zenon
  <1>7. p5 \in ByteStrings /\ Len(p5) = Len(p4) + Len(s5)
    BY <1>2, <1>6, Concatenation, Zenon
  <1>8. p6 \in ByteStrings /\ Len(p6) = Len(p5) + Len(s6)
    BY <1>2, <1>7, Concatenation, Zenon
  <1>. HIDE DEF p2, p3, p4, p5, p6
  <1>. QED
    BY <1>2, <1>3, <1>4, <1>5, <1>6, <1>7, <1>8 DEF HeaderSize

\* A message is as long as its header says, and the header is read as it was
\* written as soon as its bytes are there.
LEMMA WireIsReadBack ==
    ASSUME NEW x \in WireMessage
    PROVE  /\ OnWire(x) \in ByteStrings /\ Len(OnWire(x)) = HeaderSize + Len(WirePayload(x))
           /\ SubSeq(OnWire(x), HeaderSize + 1, Len(OnWire(x))) = WirePayload(x)
           /\ \A rest \in ByteStrings : HeaderOf(OnWire(x) \o rest) = WireHeader(x)
  <1>. DEFINE h == HeaderBytes(WireHeader(x))
              p == WirePayload(x)
  <1>1. WireHeader(x) \in HeaderType /\ p \in ByteStrings /\ OnWire(x) = h \o p
    BY WireBytes
  <1>2. h \in ByteStrings /\ Len(h) = HeaderSize
    BY <1>1, HeaderIsBytes
  <1>3. ASSUME NEW rest \in ByteStrings PROVE HeaderOf(OnWire(x) \o rest) = WireHeader(x)
    <2>1. (h \o p) \o rest = h \o (p \o rest) /\ p \o rest \in ByteStrings
      BY <1>1, <1>2, Grouping, Concatenation, Zenon
    <2>. QED
      BY <1>1, <2>1, HeaderIsReadBack
  <1>. HIDE DEF h, p
  <1>4. OnWire(x) \in ByteStrings /\ Len(OnWire(x)) = HeaderSize + Len(p)
    BY <1>1, <1>2, Concatenation
  <1>5. SubSeq(h \o p, HeaderSize + 1, HeaderSize + Len(p)) = p
    <2>1. h \o p \in Seq(Byte) /\ Len(h \o p) = 24 + Len(p)
      BY <1>1, <1>4 DEF ByteStrings, HeaderSize
    <2>2. \A i \in 1 .. Len(p) : (h \o p)[24 + i] = p[i]
      <3>. SUFFICES ASSUME NEW i \in 1 .. Len(p) PROVE (h \o p)[24 + i] = p[i]
        OBVIOUS
      <3>1. Len(p) \in Nat
        BY <1>1, LenProperties DEF ByteStrings
      <3>2. 24 + i \in 1 .. Len(h) + Len(p) /\ ~(24 + i <= Len(h)) /\ (24 + i) - Len(h) = i
        BY <1>2, <3>1 DEF HeaderSize
      <3>. QED
        BY <1>1, <1>2, <3>2, ConcatProperties DEF ByteStrings
    <2>. DEFINE m == h \o p
    <2>. HIDE DEF m
    <2>3. /\ SubSeq(m, 25, 24 + Len(p)) \in Seq(Byte)
          /\ Len(SubSeq(m, 25, 24 + Len(p))) = Len(p)
          /\ \A i \in 1 .. Len(p) : SubSeq(m, 25, 24 + Len(p))[i] = p[i]
      BY <1>1, <2>1, <2>2 DEF m, ByteStrings
    <2>4. SubSeq(m, 25, 24 + Len(p)) = p
      BY <1>1, <2>3, SeqEqual DEF ByteStrings
    <2>5. HeaderSize + 1 = 25 /\ HeaderSize + Len(p) = 24 + Len(p)
      BY DEF HeaderSize
    <2>. QED
      BY <2>4, <2>5 DEF m
  <1>. QED
    BY <1>1, <1>3, <1>4, <1>5 DEF p

-----------------------------------------------------------------------------
(* A stream: the bytes of the messages of s behind the first r of them.    *)

\* Suffix k[i] is what is behind the first i messages.
Suffixes(k, b, s, r) ==
    /\ k \in [r .. Len(s) -> ByteStrings]
    /\ k[r] = b /\ k[Len(s)] = <<>>
    /\ \A i \in r + 1 .. Len(s) : k[i - 1] = OnWire(s[i]) \o k[i]
Carries(b, s, r) == \E k : Suffixes(k, b, s, r)

\* Behind the last message there is nothing.
LEMMA CarriesNothing ==
    ASSUME NEW s \in Seq(WireMessage)
    PROVE  Carries(<<>>, s, Len(s))
  <1>. DEFINE n == Len(s)
              k == [i \in n .. n |-> <<>>]
  <1>1. n \in Nat
    BY LenProperties
  <1>2. <<>> \in ByteStrings
    BY DEF ByteStrings
  <1>. HIDE DEF n
  <1>3. /\ k \in [n .. n -> ByteStrings] /\ k[n] = <<>>
        /\ \A i \in n + 1 .. n : FALSE
    BY <1>1, <1>2
  <1>. HIDE DEF k
  <1>4. Suffixes(k, <<>>, s, n)
    BY <1>3 DEF Suffixes, n
  <1>. QED
    BY <1>4 DEF Carries, n

\* A stream is a string of bytes.
LEMMA CarriesBytes ==
    ASSUME NEW s \in Seq(WireMessage), NEW r \in 0 .. Len(s), NEW b, Carries(b, s, r)
    PROVE  b \in ByteStrings
  <1>1. Len(s) \in Nat
    BY LenProperties
  <1>2. r \in r .. Len(s)
    BY <1>1
  <1>. QED
    BY <1>2 DEF Carries, Suffixes

\* What is not empty starts with the next message.
LEMMA CarriesNext ==
    ASSUME NEW s \in Seq(WireMessage), NEW r \in 0 .. Len(s), NEW b, Carries(b, s, r), b # <<>>
    PROVE  /\ r < Len(s) /\ s[r + 1] \in WireMessage
           /\ \E rest \in ByteStrings : b = OnWire(s[r + 1]) \o rest /\ Carries(rest, s, r + 1)
  <1>1. Len(s) \in Nat
    BY LenProperties
  <1>2. PICK k : Suffixes(k, b, s, r)
    BY DEF Carries
  <1>3. r # Len(s)
    BY <1>2 DEF Suffixes
  <1>4. r < Len(s) /\ r + 1 \in r + 1 .. Len(s) /\ (r + 1) - 1 = r /\ r + 1 \in 1 .. Len(s)
    BY <1>1, <1>3
  <1>5. s[r + 1] \in WireMessage
    BY <1>4, ElementOfSeq
  <1>6. k[r + 1] \in ByteStrings /\ b = OnWire(s[r + 1]) \o k[r + 1]
    <2>1. k[(r + 1) - 1] = OnWire(s[r + 1]) \o k[r + 1]
      BY <1>2, <1>4 DEF Suffixes
    <2>2. r + 1 \in r .. Len(s)
      BY <1>4
    <2>. QED
      BY <1>2, <1>4, <2>1, <2>2 DEF Suffixes
  <1>7. Carries(k[r + 1], s, r + 1)
    <2>. DEFINE l == [i \in r + 1 .. Len(s) |-> k[i]]
    <2>1. \A i \in r + 1 .. Len(s) : i \in r .. Len(s) /\ l[i] = k[i] /\ k[i] \in ByteStrings
      BY <1>1, <1>2 DEF Suffixes
    <2>2. l \in [r + 1 .. Len(s) -> ByteStrings]
      BY <2>1
    <2>3. Len(s) \in r + 1 .. Len(s)
      BY <1>1, <1>4
    <2>4. \A i \in (r + 1) + 1 .. Len(s) : i \in r + 1 .. Len(s) /\ i - 1 \in r + 1 .. Len(s)
      BY <1>1
    <2>. HIDE DEF l
    <2>5. \A i \in (r + 1) + 1 .. Len(s) : l[i - 1] = OnWire(s[i]) \o l[i]
      BY <1>2, <2>1, <2>4 DEF Suffixes
    <2>6. l[r + 1] = k[r + 1] /\ l[Len(s)] = <<>>
      BY <1>2, <1>4, <2>1, <2>3 DEF Suffixes
    <2>7. Suffixes(l, k[r + 1], s, r + 1)
      BY <2>2, <2>5, <2>6 DEF Suffixes
    <2>. QED
      BY <2>7 DEF Carries
  <1>. QED
    BY <1>4, <1>5, <1>6, <1>7

\* A message that is said goes behind the others.
LEMMA CarriesOneMore ==
    ASSUME NEW s \in Seq(WireMessage), NEW r \in 0 .. Len(s), NEW b, Carries(b, s, r),
           NEW x \in WireMessage
    PROVE  Carries(b \o OnWire(x), Append(s, x), r)
  <1>1. Len(s) \in Nat /\ OnWire(x) \in ByteStrings
    BY LenProperties, WireIsReadBack
  <1>2. PICK k : Suffixes(k, b, s, r)
    BY DEF Carries
  <1>. DEFINE t == Append(s, x)
              n == Len(s) + 1
              l == [i \in r .. n |-> IF i = n THEN <<>> ELSE k[i] \o OnWire(x)]
  <1>3. /\ Len(t) = n /\ t[n] = x /\ \A i \in 1 .. Len(s) : t[i] = s[i]
    BY AppendProperties
  <1>4. /\ \A i \in r .. n : i = n \/ i \in r .. Len(s)
        /\ \A i \in r .. Len(s) : i \in r .. n /\ i # n
        /\ n \in r .. n /\ r \in r .. Len(s) /\ Len(s) \in r .. Len(s) /\ n - 1 = Len(s)
    BY <1>1
  <1>5. \A i \in r .. Len(s) : k[i] \in ByteStrings /\ k[i] \o OnWire(x) \in ByteStrings
    BY <1>1, <1>2, Concatenation DEF Suffixes
  <1>6. <<>> \in ByteStrings
    BY DEF ByteStrings
  <1>. HIDE DEF n, t
  <1>7. l \in [r .. n -> ByteStrings]
    BY <1>4, <1>5, <1>6
  <1>8. l[n] = <<>> /\ \A i \in r .. Len(s) : l[i] = k[i] \o OnWire(x)
    BY <1>4
  <1>. HIDE DEF l
  <1>9. l[r] = b \o OnWire(x)
    BY <1>2, <1>4, <1>8 DEF Suffixes
  <1>10. ASSUME NEW i \in r + 1 .. n PROVE l[i - 1] = OnWire(t[i]) \o l[i]
    <2>1. CASE i = n
      <3>1. l[i - 1] = <<>> \o OnWire(x)
        BY <1>2, <1>4, <1>8, <2>1 DEF Suffixes
      <3>2. <<>> \o OnWire(x) = OnWire(x) /\ OnWire(x) \o <<>> = OnWire(x)
        BY <1>1, ConcatEmptySeq DEF ByteStrings
      <3>. QED
        BY <1>3, <1>8, <2>1, <3>1, <3>2
    <2>2. CASE i # n
      <3>1. i \in r + 1 .. Len(s) /\ i \in r .. Len(s) /\ i - 1 \in r .. Len(s) /\ i \in 1 .. Len(s)
        BY <1>1, <2>2 DEF n
      <3>2. s[i] \in WireMessage
        BY <3>1, ElementOfSeq
      <3>3. OnWire(s[i]) \in ByteStrings
        BY <3>2, WireIsReadBack
      <3>4. k[i - 1] = OnWire(s[i]) \o k[i]
        BY <1>2, <3>1 DEF Suffixes
      <3>5. (OnWire(s[i]) \o k[i]) \o OnWire(x) = OnWire(s[i]) \o (k[i] \o OnWire(x))
        <4>1. k[i] \in ByteStrings
          BY <1>5, <3>1
        <4>2. OnWire(x) \in ByteStrings
          BY <1>1
        <4>. QED
          BY <3>3, <4>1, <4>2, Grouping, Zenon
      <3>. QED
        BY <1>3, <1>8, <3>1, <3>4, <3>5
    <2>. QED
      BY <2>1, <2>2
  <1>11. Suffixes(l, b \o OnWire(x), t, r)
    BY <1>3, <1>7, <1>8, <1>9, <1>10 DEF Suffixes
  <1>. QED
    BY <1>11 DEF Carries, t

-----------------------------------------------------------------------------
(* Cutting and joining.                                                    *)

\* A string of bytes, cut in two.
LEMMA CutInTwo ==
    ASSUME NEW b \in ByteStrings, NEW n \in 0 .. Len(b)
    PROVE  /\ SubSeq(b, 1, n) \in ByteStrings /\ Len(SubSeq(b, 1, n)) = n
           /\ SubSeq(b, n + 1, Len(b)) \in ByteStrings
           /\ Len(SubSeq(b, n + 1, Len(b))) = Len(b) - n
           /\ b = SubSeq(b, 1, n) \o SubSeq(b, n + 1, Len(b))
  <1>1. Len(b) \in Nat
    BY LenProperties DEF ByteStrings
  <1>2. \A i \in 1 .. Len(b) : b[i] \in Byte
    BY ElementOfSeq DEF ByteStrings
  <1>3. /\ SubSeq(b, 1, n) \in Seq(Byte) /\ Len(SubSeq(b, 1, n)) = n
    <2>1. \A i \in 1 .. n : b[i] \in Byte
      BY <1>1, <1>2
    <2>. QED
      BY <2>1, <1>1, SubSeqProperties
  <1>4. /\ SubSeq(b, n + 1, Len(b)) \in Seq(Byte) /\ Len(SubSeq(b, n + 1, Len(b))) = Len(b) - n
    <2>1. \A i \in n + 1 .. Len(b) : b[i] \in Byte
      BY <1>1, <1>2
    <2>. QED
      BY <2>1, <1>1, SubSeqProperties
  <1>5. b = SubSeq(b, 1, n) \o SubSeq(b, n + 1, Len(b))
    <2>1. /\ 1 \in 1 .. Len(b) + 1 /\ n \in 1 - 1 .. Len(b) /\ Len(b) \in n .. Len(b)
      BY <1>1
    <2>2. SubSeq(b, 1, n) \o SubSeq(b, n + 1, Len(b)) = SubSeq(b, 1, Len(b))
      BY <2>1, ConcatAdjacentSubSeq DEF ByteStrings
    <2>. QED
      BY <2>2, SubSeqFull DEF ByteStrings
  <1>. QED
    BY <1>3, <1>4, <1>5 DEF ByteStrings

\* Two ways to cut the same bytes behind as many of them.
LEMMA SameCut ==
    ASSUME NEW a \in ByteStrings, NEW b \in ByteStrings, NEW c \in ByteStrings, NEW d \in ByteStrings,
           a \o b = c \o d, Len(a) = Len(c)
    PROVE  a = c /\ b = d
  <1>1. \A i \in 1 .. Len(a) + Len(b) : (a \o b)[i] = IF i <= Len(a) THEN a[i] ELSE b[i - Len(a)]
    BY ConcatProperties DEF ByteStrings
  <1>2. \A i \in 1 .. Len(c) + Len(d) : (c \o d)[i] = IF i <= Len(c) THEN c[i] ELSE d[i - Len(c)]
    BY ConcatProperties DEF ByteStrings
  <1>3. Len(a) \in Nat /\ Len(b) \in Nat /\ Len(c) \in Nat /\ Len(d) \in Nat
    BY LenProperties DEF ByteStrings
  <1>4. \A i \in 1 .. Len(a) : a[i] = c[i]
    <2>. SUFFICES ASSUME NEW i \in 1 .. Len(a) PROVE a[i] = c[i]
      OBVIOUS
    <2>1. i \in 1 .. Len(a) + Len(b) /\ i \in 1 .. Len(c) + Len(d) /\ i <= Len(a) /\ i <= Len(c)
      BY <1>3
    <2>. QED
      BY <1>1, <1>2, <2>1
  <1>5. a = c
    BY <1>4, SeqEqual DEF ByteStrings
  <1>6. Len(b) = Len(d)
    <2>1. Len(a \o b) = Len(a) + Len(b) /\ Len(c \o d) = Len(c) + Len(d)
      BY Concatenation
    <2>. QED
      BY <1>3, <2>1
  <1>7. \A i \in 1 .. Len(b) : b[i] = d[i]
    <2>. SUFFICES ASSUME NEW i \in 1 .. Len(b) PROVE b[i] = d[i]
      OBVIOUS
    <2>. DEFINE j == Len(a) + i
    <2>1. /\ j \in 1 .. Len(a) + Len(b) /\ j \in 1 .. Len(c) + Len(d)
          /\ ~(j <= Len(a)) /\ ~(j <= Len(c)) /\ j - Len(a) = i /\ j - Len(c) = i
      BY <1>3, <1>6
    <2>. HIDE DEF j
    <2>. QED
      BY <1>1, <1>2, <2>1
  <1>. QED
    BY <1>5, <1>6, <1>7, SeqEqual DEF ByteStrings

\* The header is read from the first bytes alone.
LEMMA HeaderOfPrefix ==
    ASSUME NEW a \in ByteStrings, NEW b \in ByteStrings, Len(a) >= HeaderSize
    PROVE  HeaderOf(a \o b) = HeaderOf(a)
  <1>1. Len(a) \in Nat /\ Len(b) \in Nat /\ Len(a) >= 24
    BY LenProperties DEF ByteStrings, HeaderSize
  <1>2. \A i \in 1 .. Len(a) + Len(b) : (a \o b)[i] = IF i <= Len(a) THEN a[i] ELSE b[i - Len(a)]
    BY ConcatProperties DEF ByteStrings
  <1>. DEFINE m == a \o b
  <1>3. \A i \in 1 .. 24 : m[i] = a[i]
    <2>. SUFFICES ASSUME NEW i \in 1 .. 24 PROVE m[i] = a[i]
      OBVIOUS
    <2>1. i \in 1 .. Len(a) + Len(b) /\ i <= Len(a)
      BY <1>1
    <2>. QED
      BY <1>2, <2>1
  <1>. HIDE DEF m
  <1>4. /\ LoadU32(m, 0) = LoadU32(a, 0) /\ LoadU32(m, 8) = LoadU32(a, 8)
        /\ LoadU32(m, 12) = LoadU32(a, 12) /\ LoadU32(m, 16) = LoadU32(a, 16)
        /\ LoadU32(m, 20) = LoadU32(a, 20)
        /\ LoadU16(m, 4) = LoadU16(a, 4) /\ LoadU16(m, 6) = LoadU16(a, 6)
    <2>1. ASSUME NEW o \in 0 .. 20 PROVE LoadU32(m, o) = LoadU32(a, o)
      <3>1. o + 1 \in 1 .. 24 /\ o + 2 \in 1 .. 24 /\ o + 3 \in 1 .. 24 /\ o + 4 \in 1 .. 24
        OBVIOUS
      <3>2. m[o + 1] = a[o + 1] /\ m[o + 2] = a[o + 2] /\ m[o + 3] = a[o + 3] /\ m[o + 4] = a[o + 4]
        BY <1>3, <3>1, Zenon
      <3>. QED
        BY <3>2, Zenon DEF LoadU32
    <2>2. ASSUME NEW o \in 0 .. 20 PROVE LoadU16(m, o) = LoadU16(a, o)
      <3>1. o + 1 \in 1 .. 24 /\ o + 2 \in 1 .. 24
        OBVIOUS
      <3>2. m[o + 1] = a[o + 1] /\ m[o + 2] = a[o + 2]
        BY <1>3, <3>1, Zenon
      <3>. QED
        BY <3>2, Zenon DEF LoadU16
    <2>3. 0 \in 0 .. 20 /\ 4 \in 0 .. 20 /\ 6 \in 0 .. 20 /\ 8 \in 0 .. 20 /\ 12 \in 0 .. 20
          /\ 16 \in 0 .. 20 /\ 20 \in 0 .. 20
      OBVIOUS
    <2>. QED
      BY <2>1, <2>2, <2>3, Zenon
  <1>5. HeaderOf(m) = HeaderOf(a)
    <2>1. 16 + 4 = 20
      OBVIOUS
    <2>2. LoadU64(m, 16) = LoadU64(a, 16)
      BY <1>4, <2>1, Zenon DEF LoadU64
    <2>. QED
      BY <1>4, <2>2, Zenon DEF HeaderOf
  <1>. QED
    BY <1>5 DEF m

-----------------------------------------------------------------------------
(* The decoder, at a message of the stream.                                *)

Errors ==
    {"ok", "wrong magic", "unsupported version", "unknown mandatory message",
     "payload exceeds maximum", "invalid payload", "rejected", "truncated"}
Decoders == [data : ByteStrings, header : SUBSET HeaderType, error : Errors]

\* The next message of s is the (r + 1)-th: its header is not all there, or it
\* is, was found good, and the rest of the message is gathered.
InHeader(d) == d.header = {} /\ Len(d.data) < HeaderSize
InPayload(d, s, r) ==
    /\ r < Len(s)
    /\ d.header = {WireHeader(s[r + 1])}
    /\ HeaderError(WireHeader(s[r + 1])) = "ok"
    /\ HeaderSize <= Len(d.data)
    /\ Len(d.data) <= HeaderSize + WireHeader(s[r + 1]).length
InMessage(d, s, r) == InHeader(d) \/ InPayload(d, s, r)
Refuses(d, s, r) ==
    /\ r < Len(s)
    /\ d.error = HeaderError(WireHeader(s[r + 1])) /\ d.error # "ok"

\* The bytes of c go to the data of decoder d until there are n, as g says.
Gathers(d, c, n, g) ==
    /\ g.decoder \in Decoders /\ g.rest \in ByteStrings
    /\ g.decoder.header = d.header /\ g.decoder.error = d.error
    /\ g.decoder.data \o g.rest = d.data \o c
    /\ Len(d.data) <= Len(g.decoder.data)
    /\ Len(g.decoder.data) <= n

\* decoder_append loses no byte, adds none and stops at the length required.
LEMMA GatheredBytes ==
    ASSUME NEW d \in Decoders, NEW c \in ByteStrings, NEW n \in Nat, Required(d) = n,
           Len(d.data) <= n
    PROVE  Gathers(d, c, n, Gathered(d, c))
  <1>. DEFINE t == Taken(d, c)
              a == SubSeq(c, 1, t)
              b == SubSeq(c, t + 1, Len(c))
              e == [d EXCEPT !.data = @ \o a]
  <1>1. /\ d.data \in ByteStrings /\ Len(d.data) \in Nat /\ Len(c) \in Nat
    BY LenProperties DEF Decoders, ByteStrings
  <1>2. t \in 0 .. Len(c) /\ t <= n - Len(d.data)
    <2>1. t = IF n - Len(d.data) < Len(c) THEN n - Len(d.data) ELSE Len(c)
      BY DEF Taken
    <2>. DEFINE l == Len(d.data)
                k == Len(c)
    <2>2. l \in Nat /\ k \in Nat /\ l <= n /\ t = IF n - l < k THEN n - l ELSE k
      BY <1>1, <2>1
    <2>. HIDE DEF t, l, k
    <2>3. t \in 0 .. k /\ t <= n - l
      BY <2>2
    <2>. QED
      BY <2>3 DEF l, k
  <1>3. Gathered(d, c) = [decoder |-> e, rest |-> b]
    BY DEF Gathered
  <1>. HIDE DEF t
  <1>4. a \in ByteStrings /\ Len(a) = t /\ b \in ByteStrings /\ c = a \o b
    BY <1>2, CutInTwo, Zenon
  <1>. HIDE DEF a, b
  <1>5. d.data \o a \in ByteStrings /\ Len(d.data \o a) = Len(d.data) + Len(a)
    BY <1>1, <1>4, Concatenation, Zenon
  <1>6. (d.data \o a) \o b = d.data \o c
    BY <1>1, <1>4, Grouping
  <1>7. /\ e.data = d.data \o a /\ e.header = d.header /\ e.error = d.error /\ e \in Decoders
    <2>. DEFINE x == d.data \o a
    <2>1. e = [d EXCEPT !.data = x]
      OBVIOUS
    <2>. HIDE DEF x, e
    <2>2. e.data = x /\ e.header = d.header /\ e.error = d.error /\ e \in Decoders
      BY <1>5, <2>1 DEF Decoders, x
    <2>. QED
      BY <2>2 DEF x
  <1>. HIDE DEF e
  <1>8. Gathered(d, c).decoder = e /\ Gathered(d, c).rest = b
    BY <1>3
  <1>9. Len(d.data) <= Len(e.data) /\ Len(e.data) <= n
    <2>1. Len(e.data) = Len(d.data) + t
      BY <1>4, <1>5, <1>7
    <2>. QED
      BY <1>1, <1>2, <2>1
  <1>. QED
    BY <1>1, <1>2, <1>4, <1>6, <1>7, <1>8, <1>9 DEF Gathers

\* What is said of a header is an error of the decoder.
LEMMA HeaderErrorIsKnown == \A h : HeaderError(h) \in Errors \ {"truncated"}
  BY DEF HeaderError, Errors

\* What is gathered is the start of the next message.
LEMMA HeaderOfNext ==
    ASSUME NEW s \in Seq(WireMessage), NEW r \in 0 .. Len(s), NEW a \in ByteStrings,
           NEW b \in ByteStrings, Carries(a \o b, s, r), Len(a) >= HeaderSize
    PROVE  /\ r < Len(s) /\ s[r + 1] \in WireMessage
           /\ HeaderOf(a) = WireHeader(s[r + 1])
  <1>1. a \o b # <<>>
    <2>1. Len(a \o b) = Len(a) + Len(b) /\ Len(b) \in Nat
      BY Concatenation, LenProperties DEF ByteStrings
    <2>. QED
      BY <2>1 DEF HeaderSize
  <1>. DEFINE all == a \o b
  <1>. HIDE DEF all
  <1>2. /\ r < Len(s) /\ s[r + 1] \in WireMessage
        /\ \E rest \in ByteStrings : all = OnWire(s[r + 1]) \o rest
    <2>1. Carries(all, s, r) /\ all # <<>>
      BY <1>1 DEF all
    <2>. QED
      BY <2>1, CarriesNext
  <1>3. HeaderOf(all) = WireHeader(s[r + 1])
    BY <1>2, WireIsReadBack
  <1>. QED
    BY <1>2, <1>3, HeaderOfPrefix DEF all

\* A pass of cw_decoder_feed that starts in the next message of the stream stays
\* in it, has all of it, or refuses it for what its header says.
LEMMA PassMeansNext ==
    ASSUME NEW s \in Seq(WireMessage), NEW r \in 0 .. Len(s), NEW d \in Decoders,
           d.error = "ok", InMessage(d, s, r), NEW c \in ByteStrings, NEW y \in ByteStrings,
           Carries(d.data \o (c \o y), s, r), NEW fed \in Pass(d, c)
    PROVE  /\ fed.decoder \in Decoders /\ fed.rest \in ByteStrings
           /\ \/ /\ fed.decoder.error = "ok" /\ InMessage(fed.decoder, s, r)
                 /\ fed.decoder.data \o fed.rest = d.data \o c
              \/ Refuses(fed.decoder, s, r) /\ fed.decoder.header = {}
  <1>. DEFINE Good(f) ==
         /\ f.decoder \in Decoders /\ f.rest \in ByteStrings
         /\ \/ /\ f.decoder.error = "ok" /\ InMessage(f.decoder, s, r)
               /\ f.decoder.data \o f.rest = d.data \o c
            \/ Refuses(f.decoder, s, r) /\ f.decoder.header = {}
  <1>0. /\ d.data \in ByteStrings /\ Len(d.data) \in Nat /\ Len(s) \in Nat
    BY LenProperties DEF Decoders, ByteStrings
  <1>1. \* The rest of the payload, of a header that is known.
        ASSUME NEW e \in Decoders, e.error = "ok", NEW rest \in ByteStrings,
               e.data \o rest = d.data \o c, InPayload(e, s, r)
        PROVE  Good(Gathered(e, rest))
    <2>. DEFINE h == WireHeader(s[r + 1])
                g == Gathered(e, rest)
    <2>1. e.header = {h} /\ r + 1 \in 1 .. Len(s)
      BY <1>0, <1>1 DEF InPayload
    <2>2. s[r + 1] \in WireMessage
      BY <2>1, ElementOfSeq
    <2>3. h \in HeaderType /\ h.length = Len(WirePayload(s[r + 1])) /\ WirePayload(s[r + 1]) \in ByteStrings
      BY <1>1, <2>2, WireBytes DEF InPayload
    <2>4. h.length \in Nat
      BY <2>3, LenProperties DEF ByteStrings
    <2>5. Required(e) = HeaderSize + h.length /\ HeaderSize + h.length \in Nat
      BY <2>1, <2>4 DEF Required, HeaderReady, HeaderSize
    <2>6. Len(e.data) <= HeaderSize + h.length
      BY <1>1 DEF InPayload
    <2>7. /\ g.decoder \in Decoders /\ g.rest \in ByteStrings
          /\ g.decoder.header = e.header /\ g.decoder.error = e.error
          /\ g.decoder.data \o g.rest = e.data \o rest
          /\ Len(e.data) <= Len(g.decoder.data)
          /\ Len(g.decoder.data) <= HeaderSize + h.length
      BY <1>1, <2>5, <2>6, GatheredBytes DEF Gathers
    <2>8. Len(e.data) \in Nat /\ Len(g.decoder.data) \in Nat
      BY <1>1, <2>7, LenProperties DEF Decoders, ByteStrings
    <2>. HIDE DEF g
    <2>9. InPayload(g.decoder, s, r)
      BY <1>1, <2>7, <2>8 DEF InPayload, HeaderSize
    <2>. QED
      BY <1>1, <2>7, <2>9 DEF InMessage, g
  <1>2. PICK g \in HeaderPass(d, c) : fed = IF HeaderReady(g.decoder) THEN Gathered(g.decoder, g.rest) ELSE g
    BY DEF Pass
  <1>3. CASE InPayload(d, s, r)
    <2>1. HeaderReady(d)
      BY <1>3 DEF InPayload, HeaderReady
    <2>2. g = [decoder |-> d, rest |-> c]
      BY <1>2, <2>1 DEF HeaderPass
    <2>3. g.decoder = d /\ g.rest = c
      BY <2>2
    <2>4. fed = Gathered(d, c)
      BY <1>2, <2>1, <2>3
    <2>5. Good(Gathered(d, c))
      BY <1>1, <1>3
    <2>. QED
      BY <2>4, <2>5
  <1>4. CASE InHeader(d)
    <2>. DEFINE q == Gathered(d, c)
    <2>1. ~HeaderReady(d) /\ Required(d) = 24 /\ Len(d.data) <= 24
      BY <1>0, <1>4 DEF InHeader, HeaderReady, Required, HeaderSize
    <2>2. /\ q.decoder \in Decoders /\ q.rest \in ByteStrings
          /\ q.decoder.header = {} /\ q.decoder.error = "ok"
          /\ q.decoder.data \o q.rest = d.data \o c
          /\ Len(q.decoder.data) <= 24
      <3>1. d.header = {} /\ d.error = "ok" /\ 24 \in Nat
        BY <1>4 DEF InHeader
      <3>2. /\ q.decoder \in Decoders /\ q.rest \in ByteStrings
            /\ q.decoder.header = d.header /\ q.decoder.error = d.error
            /\ q.decoder.data \o q.rest = d.data \o c
            /\ Len(q.decoder.data) <= 24
        <4>1. Gathers(d, c, 24, q)
          BY <2>1, <3>1, GatheredBytes
        <4>. HIDE DEF q
        <4>. QED
          BY <4>1 DEF Gathers
      <3>. QED
        BY <3>1, <3>2
    <2>3. q.decoder.data \in ByteStrings /\ Len(q.decoder.data) \in Nat
      <3>1. q.decoder.data \in ByteStrings
        BY <2>2 DEF Decoders
      <3>. HIDE DEF q
      <3>. QED
        BY <3>1, LenProperties DEF ByteStrings
    <2>4. g = IF Len(q.decoder.data) < HeaderSize THEN q
              ELSE [q EXCEPT !.decoder = HeaderRead(q.decoder.data, HeaderOf(q.decoder.data))]
      BY <1>2, <2>1 DEF HeaderPass
    <2>5. CASE Len(q.decoder.data) < HeaderSize
      <3>1. g = q
        BY <2>4, <2>5
      <3>. HIDE DEF q
      <3>2. fed = q
        BY <1>2, <2>2, <3>1 DEF HeaderReady
      <3>3. InHeader(q.decoder)
        BY <2>2, <2>5 DEF InHeader
      <3>. QED
        BY <2>2, <3>2, <3>3 DEF InMessage
    <2>6. CASE ~(Len(q.decoder.data) < HeaderSize)
      <3>. DEFINE h == HeaderOf(q.decoder.data)
                  e == HeaderRead(q.decoder.data, h)
      <3>0. q = [decoder |-> q.decoder, rest |-> q.rest]
        BY DEF Gathered
      <3>1. g = [q EXCEPT !.decoder = e]
        BY <2>4, <2>6
      <3>2. g.decoder = e /\ g.rest = q.rest
        <4>. HIDE DEF e, q
        <4>. QED
          BY <3>0, <3>1
      <3>. HIDE DEF q
      <3>. DEFINE l == Len(q.decoder.data)
      <3>3. l = 24
        <4>1. l \in Nat /\ l <= 24 /\ ~(l < 24)
          BY <2>2, <2>3, <2>6 DEF HeaderSize
        <4>. HIDE DEF l
        <4>. QED
          BY <4>1
      <3>4. Carries(q.decoder.data \o (q.rest \o y), s, r) /\ q.rest \o y \in ByteStrings
        <4>1. d.data \o (c \o y) = (d.data \o c) \o y
          BY <1>0, Grouping
        <4>2. (q.decoder.data \o q.rest) \o y = q.decoder.data \o (q.rest \o y)
          BY <2>2, <2>3, Grouping
        <4>3. q.rest \o y \in ByteStrings
          BY <2>2, Concatenation
        <4>. QED
          BY <2>2, <4>1, <4>2, <4>3
      <3>5. /\ r < Len(s) /\ s[r + 1] \in WireMessage /\ h = WireHeader(s[r + 1])
        <4>. DEFINE a == q.decoder.data
                    b == q.rest \o y
        <4>1. a \in ByteStrings /\ b \in ByteStrings /\ Carries(a \o b, s, r) /\ Len(a) >= HeaderSize
          BY <2>3, <3>3, <3>4 DEF HeaderSize
        <4>. HIDE DEF a, b
        <4>2. /\ r < Len(s) /\ s[r + 1] \in WireMessage /\ HeaderOf(a) = WireHeader(s[r + 1])
          BY <4>1, HeaderOfNext
        <4>. QED
          BY <4>2 DEF a
      <3>6. h \in HeaderType /\ (HeaderError(h) = "ok" => h.length = Len(WirePayload(s[r + 1])))
            /\ WirePayload(s[r + 1]) \in ByteStrings
        BY <3>5, WireBytes
      <3>. HIDE DEF h
      <3>7. HeaderError(h) \in Errors
        BY HeaderErrorIsKnown
      <3>8. CASE HeaderError(h) = "ok"
        <4>1. e = [data |-> q.decoder.data, header |-> {h}, error |-> "ok"]
          BY <3>8 DEF HeaderRead
        <4>. HIDE DEF e
        <4>2. e \in Decoders /\ e.data = q.decoder.data /\ e.header = {h} /\ e.error = "ok"
          BY <2>3, <3>6, <4>1 DEF Decoders
        <4>3. h.length \in Nat
          BY <3>6, <3>8, LenProperties DEF ByteStrings
        <4>4. InPayload(e, s, r)
          <5>1. HeaderSize <= Len(e.data) /\ Len(e.data) <= HeaderSize + h.length
            <6>. DEFINE k == h.length
            <6>1. Len(e.data) = l /\ k \in Nat
              BY <4>2, <4>3
            <6>. HIDE DEF l, k
            <6>2. HeaderSize <= l /\ l <= HeaderSize + k
              BY <3>3, <6>1 DEF HeaderSize
            <6>. QED
              BY <6>1, <6>2 DEF k
          <5>. QED
            BY <3>5, <3>8, <4>2, <5>1 DEF InPayload
        <4>5. Good(Gathered(e, q.rest))
          BY <1>1, <2>2, <4>2, <4>4
        <4>6. fed = Gathered(e, q.rest)
          BY <1>2, <3>2, <4>2 DEF HeaderReady
        <4>. QED
          BY <4>5, <4>6
      <3>9. CASE HeaderError(h) # "ok"
        <4>1. e = [data |-> q.decoder.data, header |-> {}, error |-> HeaderError(h)]
          BY <3>9 DEF HeaderRead
        <4>. HIDE DEF e
        <4>2. e \in Decoders /\ e.header = {} /\ e.error = HeaderError(h)
          BY <2>3, <3>7, <4>1 DEF Decoders
        <4>3. Refuses(e, s, r)
          BY <3>5, <3>9, <4>2 DEF Refuses
        <4>4. fed = g
          BY <1>2, <3>2, <4>2 DEF HeaderReady
        <4>. QED
          BY <2>2, <3>2, <4>2, <4>3, <4>4
      <3>. QED
        BY <3>8, <3>9
    <2>. QED
      BY <2>5, <2>6
  <1>. QED
    BY <1>3, <1>4 DEF InMessage

\* A complete message is the next one, as it was written.
LEMMA CompleteIsNext ==
    ASSUME NEW s \in Seq(WireMessage), NEW r \in 0 .. Len(s), NEW d \in Decoders,
           InMessage(d, s, r), NEW y \in ByteStrings, Carries(d.data \o y, s, r), NEW m \in Complete(d)
    PROVE  /\ r < Len(s) /\ s[r + 1] \in WireMessage
           /\ m.header = WireHeader(s[r + 1]) /\ m.payload = WirePayload(s[r + 1])
           /\ HeaderError(WireHeader(s[r + 1])) = "ok"
           /\ Carries(y, s, r + 1)
  <1>. DEFINE x == s[r + 1]
  <1>1. PICK h \in d.header : IsComplete(d) /\ m = [header |-> h, payload |-> SubSeq(d.data, HeaderSize + 1, Len(d.data))]
    BY DEF Complete
  <1>2. InPayload(d, s, r)
    BY <1>1 DEF InMessage, InHeader
  <1>3. h = WireHeader(x) /\ d.header = {h} /\ HeaderError(h) = "ok" /\ r < Len(s)
    BY <1>1, <1>2 DEF InPayload
  <1>4. Len(d.data) = HeaderSize + h.length
    BY <1>1, <1>3 DEF IsComplete, Required, HeaderReady
  <1>5. Len(s) \in Nat /\ r + 1 \in 1 .. Len(s) /\ x \in WireMessage /\ d.data \in ByteStrings
    BY <1>3, LenProperties, ElementOfSeq DEF Decoders
  <1>6. /\ h.length = Len(WirePayload(x)) /\ OnWire(x) \in ByteStrings
        /\ Len(OnWire(x)) = HeaderSize + Len(WirePayload(x))
        /\ SubSeq(OnWire(x), HeaderSize + 1, Len(OnWire(x))) = WirePayload(x)
        /\ WirePayload(x) \in ByteStrings
    BY <1>3, <1>5, WireBytes, WireIsReadBack
  <1>7. d.data \o y # <<>>
    <2>1. Len(d.data \o y) = Len(d.data) + Len(y) /\ Len(y) \in Nat /\ Len(WirePayload(x)) \in Nat
      BY <1>5, <1>6, Concatenation, LenProperties DEF ByteStrings
    <2>. QED
      BY <1>4, <1>6, <2>1 DEF HeaderSize
  <1>8. PICK rest \in ByteStrings : d.data \o y = OnWire(x) \o rest /\ Carries(rest, s, r + 1)
    BY <1>7, CarriesNext
  <1>. HIDE DEF x
  <1>9. d.data = OnWire(x) /\ y = rest
    BY <1>4, <1>5, <1>6, <1>8, SameCut
  <1>. QED
    BY <1>1, <1>3, <1>5, <1>6, <1>8, <1>9 DEF x

-----------------------------------------------------------------------------
(* What is under way in one direction.                                     *)

\* What the decoder d has gathered, what was received and not fed (c), what the
\* connection holds (p) and, while the sender is there, what it has yet to send
\* (u) are the bytes of the messages of s behind the first r.  Of a sender that
\* went any end of them may be lost.
UnderWay(d, c, p, u, sender, s, r) ==
    \E lost \in ByteStrings :
       /\ Carries(d.data \o (c \o (p \o lost)), s, r)
       /\ sender = "open" => lost = u

\* No bytes, in front and behind.
LEMMA Nothing == <<>> \in ByteStrings /\ \A b \in ByteStrings : <<>> \o b = b /\ b \o <<>> = b
  BY ConcatEmptySeq, EmptySeq DEF ByteStrings

\* Grouping, by name: provers that may group anything never end.
Groups(a, b, c) == (a \o b) \o c = a \o (b \o c)
\* Groups of byte strings.
LEMMA ByteStringsGroup ==
    ASSUME NEW a \in ByteStrings, NEW b \in ByteStrings, NEW c \in ByteStrings
    PROVE  Groups(a, b, c)
  BY Grouping DEF Groups

GroupsFive(a, b, c, d, e) == (a \o (b \o (c \o d))) \o e = a \o (b \o (c \o (d \o e)))
\* Five parts of a stream, joined from the left and from the right.
LEMMA GroupingOfFive ==
    ASSUME NEW a \in ByteStrings, NEW b \in ByteStrings, NEW c \in ByteStrings,
           NEW d \in ByteStrings, NEW e \in ByteStrings
    PROVE  GroupsFive(a, b, c, d, e)
  <1>1. PICK cd \in ByteStrings : cd = c \o d
    BY Concatenation
  <1>2. PICK bcd \in ByteStrings : bcd = b \o cd
    BY Concatenation
  <1>3. Groups(a, bcd, e)
    BY ByteStringsGroup
  <1>4. Groups(b, cd, e)
    BY ByteStringsGroup
  <1>5. Groups(c, d, e)
    BY ByteStringsGroup
  <1>. QED
    BY <1>1, <1>2, <1>3, <1>4, <1>5 DEF Groups, GroupsFive

\* recv
LEMMA UnderWayReceived ==
    ASSUME NEW d, NEW a \in ByteStrings, NEW b \in ByteStrings, NEW u, NEW k, NEW s, NEW r,
           UnderWay(d, <<>>, a \o b, u, k, s, r)
    PROVE  UnderWay(d, a, b, u, k, s, r)
  <1>1. PICK lost \in ByteStrings :
           Carries(d.data \o (<<>> \o ((a \o b) \o lost)), s, r) /\ (k = "open" => lost = u)
    BY DEF UnderWay
  <1>2. (a \o b) \o lost = a \o (b \o lost)
    BY <1>1, Grouping
  <1>3. a \o (b \o lost) \in ByteStrings
    BY <1>1, Concatenation
  <1>4. <<>> \o ((a \o b) \o lost) = a \o (b \o lost)
    BY <1>2, <1>3, Nothing
  <1>5. Carries(d.data \o (a \o (b \o lost)), s, r)
    BY <1>1, <1>4
  <1>. QED
    BY <1>1, <1>5 DEF UnderWay

\* send
LEMMA UnderWaySent ==
    ASSUME NEW d, NEW c, NEW p \in ByteStrings, NEW x \in ByteStrings, NEW y \in ByteStrings,
           NEW k, k = "open", NEW s, NEW r, UnderWay(d, c, p, x \o y, k, s, r)
    PROVE  UnderWay(d, c, p \o x, y, k, s, r)
  <1>1. Carries(d.data \o (c \o (p \o (x \o y))), s, r)
    BY DEF UnderWay
  <1>2. p \o (x \o y) = (p \o x) \o y
    BY Grouping
  <1>3. Carries(d.data \o (c \o ((p \o x) \o y)), s, r)
    BY <1>1, <1>2
  <1>. QED
    BY <1>3 DEF UnderWay

\* The end of the sender, with or without what the connection holds.
LEMMA UnderWayLost ==
    ASSUME NEW d, NEW c, NEW p \in ByteStrings, NEW kept \in {p, <<>>}, NEW u, NEW k,
           NEW u1, NEW k1, k1 # "open", NEW s, NEW r, UnderWay(d, c, p, u, k, s, r)
    PROVE  UnderWay(d, c, kept, u1, k1, s, r)
  <1>1. PICK lost \in ByteStrings : Carries(d.data \o (c \o (p \o lost)), s, r)
    BY DEF UnderWay
  <1>2. CASE kept = p
    BY <1>1, <1>2 DEF UnderWay
  <1>3. CASE kept = <<>>
    <2>1. p \o lost \in ByteStrings
      BY <1>1, Concatenation
    <2>2. <<>> \o (p \o lost) = p \o lost
      BY <2>1, Nothing
    <2>3. Carries(d.data \o (c \o (<<>> \o (p \o lost))), s, r)
      BY <1>1, <2>2
    <2>. QED
      BY <1>3, <2>1, <2>3 DEF UnderWay
  <1>. QED
    BY <1>2, <1>3

\* A message is said.
LEMMA UnderWaySaid ==
    ASSUME NEW d, d.data \in ByteStrings, NEW c \in ByteStrings, NEW p \in ByteStrings,
           NEW u \in ByteStrings, NEW more \in ByteStrings, NEW k, k = "open", NEW s, NEW t, NEW r,
           UnderWay(d, c, p, u, k, s, r),
           \A b \in ByteStrings : Carries(b, s, r) => Carries(b \o more, t, r)
    PROVE  UnderWay(d, c, p, u \o more, k, t, r)
  <1>. DEFINE b == d.data \o (c \o (p \o u))
  <1>1. Carries(b, s, r)
    BY DEF UnderWay
  <1>2. p \o u \in ByteStrings /\ c \o (p \o u) \in ByteStrings /\ b \in ByteStrings
    BY Concatenation, Zenon
  <1>3. u \o more \in ByteStrings
    BY Concatenation
  <1>4. b \o more = d.data \o (c \o (p \o (u \o more)))
    <2>1. GroupsFive(d.data, c, p, u, more)
      BY GroupingOfFive
    <2>. QED
      BY <2>1 DEF GroupsFive
  <1>. HIDE DEF b
  <1>5. Carries(b \o more, t, r)
    BY <1>1, <1>2
  <1>6. Carries(d.data \o (c \o (p \o (u \o more))), t, r)
    BY <1>4, <1>5, Zenon
  <1>. QED
    BY <1>3, <1>6 DEF UnderWay

\* One pass of the decoder, in three cases: more of the message is gathered,
\* it is complete, or the stream is refused.
LEMMA UnderWayFed ==
    ASSUME NEW d \in Decoders, NEW c \in ByteStrings, NEW p \in ByteStrings, NEW u, NEW k,
           NEW s \in Seq(WireMessage), NEW r \in 0 .. Len(s),
           d.error = "ok", InMessage(d, s, r),
           UnderWay(d, c, p, u, k, s, r), NEW fed \in Pass(d, c)
    PROVE  /\ fed.decoder \in Decoders /\ fed.rest \in ByteStrings
           /\ fed.decoder.error = "ok" =>
                 /\ InMessage(fed.decoder, s, r)
                 /\ UnderWay(fed.decoder, fed.rest, p, u, k, s, r)
           /\ \A m \in Complete(fed.decoder) :
                 /\ fed.decoder.error = "ok" /\ r < Len(s) /\ s[r + 1] \in WireMessage
                 /\ m.header = WireHeader(s[r + 1]) /\ m.payload = WirePayload(s[r + 1])
                 /\ HeaderError(WireHeader(s[r + 1])) = "ok"
                 /\ UnderWay(ReadyForNext(fed.decoder), fed.rest, p, u, k, s, r + 1)
           /\ fed.decoder.error # "ok" => Refuses(fed.decoder, s, r)
  <1>1. PICK lost \in ByteStrings :
           Carries(d.data \o (c \o (p \o lost)), s, r) /\ (k = "open" => lost = u)
    BY DEF UnderWay
  <1>. DEFINE y == p \o lost
              e == fed.decoder
  <1>2. y \in ByteStrings /\ d.data \in ByteStrings
    BY <1>1, Concatenation DEF Decoders
  <1>3. /\ e \in Decoders /\ fed.rest \in ByteStrings
        /\ \/ e.error = "ok" /\ InMessage(e, s, r) /\ e.data \o fed.rest = d.data \o c
           \/ Refuses(e, s, r) /\ e.header = {}
    <2>1. Carries(d.data \o (c \o y), s, r)
      BY <1>1
    <2>. HIDE DEF y
    <2>. QED
      BY <1>2, <2>1, PassMeansNext
  <1>4. CASE e.error = "ok" /\ InMessage(e, s, r) /\ e.data \o fed.rest = d.data \o c
    <2>1. e.data \in ByteStrings /\ fed.rest \o y \in ByteStrings
      BY <1>2, <1>3, Concatenation DEF Decoders
    <2>2. d.data \o (c \o y) = e.data \o (fed.rest \o y)
      <3>1. d.data \o (c \o y) = (d.data \o c) \o y
        <4>. HIDE DEF e, y
        <4>1. Groups(d.data, c, y)
          BY <1>2, ByteStringsGroup
        <4>. QED
          BY <4>1 DEF Groups
      <3>2. (e.data \o fed.rest) \o y = e.data \o (fed.rest \o y)
        <4>. HIDE DEF e, y
        <4>1. e.data \in ByteStrings /\ fed.rest \in ByteStrings /\ y \in ByteStrings
          BY <1>2, <1>3, <2>1
        <4>2. Groups(e.data, fed.rest, y)
          BY <4>1, ByteStringsGroup
        <4>. QED
          BY <4>2 DEF Groups
      <3>. QED
        BY <1>4, <3>1, <3>2
    <2>3. Carries(e.data \o (fed.rest \o y), s, r)
      BY <1>1, <2>2
    <2>4. UnderWay(e, fed.rest, p, u, k, s, r)
      BY <1>1, <2>3 DEF UnderWay
    <2>5. ASSUME NEW m \in Complete(e)
          PROVE  /\ r < Len(s) /\ s[r + 1] \in WireMessage
                 /\ m.header = WireHeader(s[r + 1]) /\ m.payload = WirePayload(s[r + 1])
                 /\ HeaderError(WireHeader(s[r + 1])) = "ok"
                 /\ UnderWay(ReadyForNext(e), fed.rest, p, u, k, s, r + 1)
      <3>. DEFINE z == fed.rest \o y
      <3>1. z \in ByteStrings /\ Carries(e.data \o z, s, r)
        BY <2>1, <2>3
      <3>. HIDE DEF z
      <3>2. /\ r < Len(s) /\ s[r + 1] \in WireMessage
            /\ m.header = WireHeader(s[r + 1]) /\ m.payload = WirePayload(s[r + 1])
            /\ HeaderError(WireHeader(s[r + 1])) = "ok"
            /\ Carries(z, s, r + 1)
        BY <1>3, <1>4, <3>1, CompleteIsNext
      <3>3. ReadyForNext(e).data = <<>>
        BY DEF ReadyForNext
      <3>4. <<>> \o z = z
        BY <3>1, Nothing
      <3>5. Carries(ReadyForNext(e).data \o (fed.rest \o (p \o lost)), s, r + 1)
        BY <3>2, <3>3, <3>4 DEF z
      <3>6. UnderWay(ReadyForNext(e), fed.rest, p, u, k, s, r + 1)
        BY <1>1, <3>5 DEF UnderWay
      <3>. QED
        BY <3>2, <3>6
    <2>. QED
      BY <1>3, <1>4, <2>4, <2>5
  <1>5. CASE Refuses(e, s, r) /\ e.header = {}
    <2>1. Complete(e) = {}
      BY <1>5 DEF Complete
    <2>. QED
      BY <1>3, <1>5, <2>1 DEF Refuses
  <1>. QED
    BY <1>3, <1>4, <1>5

-----------------------------------------------------------------------------
(* What a handler answers.                                                 *)

\* The answers as they go out.
Numbers(n, first) == [k \in DOMAIN Answers(n) |-> Numbered(Answers(n)[k], WireSequence(first + k))]

\* The answers are messages with their numbers.
LEMMA NumbersAreMessages ==
    ASSUME conversation \in Conversations, NEW n, NEW first \in Nat
    PROVE  /\ Numbers(n, first) \in Seq(WireMessage)
           /\ Len(Numbers(n, first)) = Len(Answers(n)) /\ Len(Answers(n)) \in Nat
           /\ \A k \in 1 .. Len(Answers(n)) :
                 OnWire(Numbers(n, first)[k]) = Bytes(Answers(n)[k], WireSequence(first + k))
  <1>. DEFINE a == Answers(n)
              N == Len(a)
  <1>1. a \in Seq(Sayable)
    <2>1. CASE n \in DOMAIN conversation.server
      <3>. DEFINE T == {conversation.server[n][k] : k \in DOMAIN conversation.server[n]}
      <3>1. a \in Seq(T)
        BY <2>1, TransportAssumption DEF Answers
      <3>2. T \subseteq Sayable
        BY <2>1 DEF Sayable, SayableByServer
      <3>. HIDE DEF T, a
      <3>. QED
        BY <3>1, <3>2, SeqMonotonic
    <2>2. CASE n \notin DOMAIN conversation.server
      BY <2>2 DEF Answers
    <2>. QED
      BY <2>1, <2>2
  <1>. HIDE DEF a
  <1>2. N \in Nat /\ DOMAIN a = 1 .. N /\ \A k \in 1 .. N : a[k] \in Sayable
    BY <1>1, LenProperties, ElementOfSeq
  <1>3. \A k \in 1 .. N : WireSequence(first + k) \in U64
    BY <1>2, NumberFits
  <1>. HIDE DEF N
  <1>4. \A k \in 1 .. N : Numbered(a[k], WireSequence(first + k)) \in WireMessage
    BY <1>2, <1>3 DEF Numbered, WireMessage
  <1>5. Numbers(n, first) = [k \in 1 .. N |-> Numbered(a[k], WireSequence(first + k))]
    BY <1>2 DEF Numbers, a
  <1>6. Numbers(n, first) \in Seq(WireMessage) /\ Len(Numbers(n, first)) = N
    <2>. DEFINE f == [k \in 1 .. N |-> Numbered(a[k], WireSequence(first + k))]
    <2>1. f \in [1 .. N -> WireMessage]
      BY <1>4
    <2>. HIDE DEF f
    <2>2. f \in Seq(WireMessage) /\ Len(f) = N
      BY <1>2, <2>1
    <2>. QED
      BY <1>5, <2>2 DEF f
  <1>7. \A k \in 1 .. N : OnWire(Numbers(n, first)[k]) = Bytes(a[k], WireSequence(first + k))
    BY <1>5 DEF OnWire, Numbered
  <1>. QED
    BY <1>2, <1>6, <1>7 DEF a, N

\* What the recursive function inside BytesOfAnswers computes, step by step.
Joins(f, a) ==
    /\ f[0] = <<>>
    /\ \A k \in 1 .. Len(a) : f[k] = f[k - 1] \o OnWire(a[k])

\* The recursive function inside BytesOfAnswers exists.
LEMMA AnswersAreJoined ==
    ASSUME conversation \in Conversations, NEW n, NEW first \in Nat, Len(sent["server"]) = first
    PROVE  \E f : Joins(f, Numbers(n, first)) /\ BytesOfAnswers(n) = f[Len(Answers(n))]
  <1>. DEFINE N == Len(Answers(n))
              Part(k) == Bytes(Answers(n)[k], WireSequence(first + k))
              Upto(g, m) == g[0] = <<>> /\ \A k \in 1 .. m : g[k] = g[k - 1] \o Part(k)
              P == {m \in 0 .. N : \E g : Upto(g, m)}
  <1>1. N \in Nat
    BY NumbersAreMessages
  <1>. HIDE DEF Part, N
  <1>2. 0 \in P
    <2>. DEFINE g == [k \in {0} |-> <<>>]
    <2>1. Upto(g, 0)
      OBVIOUS
    <2>2. \E h : Upto(h, 0)
      BY <2>1, Zenon
    <2>. QED
      BY <1>1, <2>2
  <1>3. ASSUME NEW m \in 0 .. N - 1, m \in P PROVE m + 1 \in P
    <2>1. PICK g : Upto(g, m)
      BY <1>3
    <2>2. m \in Nat /\ m + 1 \in 0 .. N /\ m + 1 >= 1
      BY <1>1
    <2>. DEFINE last == g[m] \o Part(m + 1)
                h == [k \in 0 .. m + 1 |-> IF k = m + 1 THEN last ELSE g[k]]
    <2>3. h[m + 1] = last /\ h[m] = g[m] /\ h[0] = <<>>
      <3>1. g[0] = <<>>
        BY <2>1
      <3>2. m + 1 \in 0 .. m + 1 /\ m \in 0 .. m + 1 /\ 0 \in 0 .. m + 1 /\ m # m + 1 /\ 0 # m + 1
        BY <2>2
      <3>. HIDE DEF last
      <3>. QED
        BY <3>1, <3>2
    <2>4. \A k \in 1 .. m : h[k] = g[k] /\ h[k - 1] = g[k - 1]
      BY <2>2
    <2>5. \A k \in 1 .. m + 1 : k \in 1 .. m \/ k = m + 1
      BY <2>2
    <2>6. (m + 1) - 1 = m
      BY <2>2
    <2>. HIDE DEF h
    <2>7. \A k \in 1 .. m + 1 : h[k] = h[k - 1] \o Part(k)
      <3>1. ASSUME NEW k \in 1 .. m PROVE h[k] = h[k - 1] \o Part(k)
        BY <2>1, <2>4
      <3>2. h[m + 1] = h[(m + 1) - 1] \o Part(m + 1)
        BY <2>3, <2>6
      <3>. QED
        BY <2>5, <3>1, <3>2
    <2>8. Upto(h, m + 1)
      BY <2>3, <2>7
    <2>. HIDE DEF Upto
    <2>. QED
      BY <2>2, <2>8
  <1>4. N \in P
    <2>. HIDE DEF P
    <2>1. \A m \in 0 .. N : m \in P
      BY <1>1, <1>2, <1>3, NatInd
    <2>. QED
      BY <1>1, <2>1
  <1>5. PICK g : Upto(g, N)
    BY <1>4
  <1>. DEFINE Body(k) == [m \in 0 .. N |-> IF m = 0 THEN <<>> ELSE k[m - 1] \o Part(m)]
              f == [m \in 0 .. N |-> g[m]]
  <1>6. f = Body(f)
    <2>1. \A m \in 1 .. N : f[m] = g[m] /\ f[m - 1] = g[m - 1]
      BY <1>1
    <2>2. f[0] = <<>>
      BY <1>1, <1>5
    <2>3. \A m \in 0 .. N : m = 0 \/ m \in 1 .. N
      BY <1>1
    <2>4. \A m \in 0 .. N : f[m] = Body(f)[m]
      BY <1>5, <2>1, <2>2, <2>3
    <2>. QED
      BY <2>4
  <1>. DEFINE upTo == CHOOSE k : k = Body(k)
  <1>7. upTo = Body(upTo)
    BY <1>6
  <1>8. BytesOfAnswers(n) = upTo[N]
    BY DEF BytesOfAnswers, Part, N
  <1>9. upTo[0] = <<>> /\ \A m \in 1 .. N : upTo[m] = upTo[m - 1] \o Part(m)
    <2>. HIDE DEF upTo
    <2>1. \A k : Body(k)[0] = <<>> /\ \A m \in 1 .. N : Body(k)[m] = k[m - 1] \o Part(m)
      BY <1>1
    <2>. HIDE DEF Body
    <2>. QED
      BY <1>7, <2>1
  <1>. HIDE DEF upTo
  <1>10. Joins(upTo, Numbers(n, first))
    <2>1. Len(Numbers(n, first)) = N /\ \A m \in 1 .. N : OnWire(Numbers(n, first)[m]) = Part(m)
      BY NumbersAreMessages DEF N, Part
    <2>. QED
      BY <1>9, <2>1 DEF Joins
  <1>. QED
    BY <1>8, <1>10 DEF N

\* Where three strings of messages are joined first does not matter.
LEMMA MessagesGroup ==
    \A a, b, c \in Seq(WireMessage) : (a \o b) \o c = a \o (b \o c)
  BY ConcatAssociative

\* They go behind what was sent before, one after the other.
LEMMA AnswersCarry ==
    ASSUME NEW s \in Seq(WireMessage), NEW r \in 0 .. Len(s), NEW a \in Seq(WireMessage),
           NEW f, Joins(f, a), NEW b \in ByteStrings, Carries(b, s, r)
    PROVE  f[Len(a)] \in ByteStrings /\ Carries(b \o f[Len(a)], s \o a, r)
  <1>. DEFINE N == Len(a)
              Said1(m) == s \o SubSeq(a, 1, m)
              P == {m \in 0 .. N : /\ f[m] \in ByteStrings /\ Carries(b \o f[m], Said1(m), r)
                                   /\ Said1(m) \in Seq(WireMessage) /\ r \in 0 .. Len(Said1(m))}
  <1>1. N \in Nat /\ Len(s) \in Nat /\ \A i \in 1 .. N : a[i] \in WireMessage
    BY LenProperties, ElementOfSeq
  <1>2. ASSUME NEW m \in 0 .. N
        PROVE  /\ SubSeq(a, 1, m) \in Seq(WireMessage) /\ Len(SubSeq(a, 1, m)) = m
               /\ Said1(m) \in Seq(WireMessage) /\ Len(Said1(m)) = Len(s) + m
    <2>1. \A i \in 1 .. m : a[i] \in WireMessage
      BY <1>1
    <2>2. SubSeq(a, 1, m) \in Seq(WireMessage) /\ Len(SubSeq(a, 1, m)) = m
      BY <1>1, <2>1, SubSeqProperties
    <2>. QED
      BY <2>2, ConcatProperties
  <1>3. Said1(0) = s
    <2>1. SubSeq(a, 1, 0) = <<>>
      BY SubSeqEmpty
    <2>. QED
      BY <2>1, ConcatEmptySeq
  <1>4. ASSUME NEW m \in 0 .. N - 1 PROVE Said1(m + 1) = Append(Said1(m), a[m + 1])
    <2>1. /\ m \in Nat /\ m + 1 \in 1 .. N /\ (m + 1) - 1 = m /\ m \in 0 .. N /\ 1 \in 1 .. N
      BY <1>1
    <2>2. SubSeq(a, 1, m + 1) = SubSeq(a, 1, m) \o <<a[m + 1]>>
      BY <2>1, SubSeqRecursiveSecond
    <2>. DEFINE q == SubSeq(a, 1, m)
                x == a[m + 1]
    <2>3. q \in Seq(WireMessage) /\ x \in WireMessage /\ s \o q \in Seq(WireMessage)
      BY <1>1, <1>2, <2>1
    <2>. HIDE DEF q, x
    <2>4. <<x>> \in Seq(WireMessage)
      BY <2>3
    <2>5. (s \o q) \o <<x>> = s \o (q \o <<x>>)
      <3>. DEFINE y == <<x>>
      <3>1. s \in Seq(WireMessage) /\ q \in Seq(WireMessage) /\ y \in Seq(WireMessage)
        BY <2>3, <2>4
      <3>. HIDE DEF y
      <3>2. (s \o q) \o y = s \o (q \o y)
        BY <3>1, MessagesGroup
      <3>. QED
        BY <3>2 DEF y
    <2>6. Append(s \o q, x) = (s \o q) \o <<x>>
      BY <2>3, AppendIsConcat
    <2>. QED
      BY <2>2, <2>5, <2>6 DEF q, x
  <1>. HIDE DEF Said1
  <1>5. 0 \in P
    <2>1. f[0] = <<>> /\ <<>> \in ByteStrings /\ b \o <<>> = b
      BY Nothing DEF Joins
    <2>2. f[0] \in ByteStrings /\ Carries(b \o f[0], Said1(0), r)
      BY <1>3, <2>1
    <2>3. Said1(0) \in Seq(WireMessage) /\ r \in 0 .. Len(Said1(0)) /\ 0 \in 0 .. N
      BY <1>1, <1>3
    <2>. QED
      BY <2>2, <2>3
  <1>6. ASSUME NEW m \in 0 .. N - 1, m \in P PROVE m + 1 \in P
    <2>1. m + 1 \in 0 .. N /\ m + 1 \in 1 .. N /\ (m + 1) - 1 = m /\ m \in 0 .. N
      BY <1>1
    <2>. DEFINE x == a[m + 1]
                t == Said1(m)
    <2>2. x \in WireMessage /\ t \in Seq(WireMessage) /\ r \in 0 .. Len(t)
      BY <1>1, <1>6, <2>1
    <2>3. f[m] \in ByteStrings /\ Carries(b \o f[m], t, r)
      BY <1>6
    <2>4. f[m + 1] = f[m] \o OnWire(x)
      BY <2>1 DEF Joins
    <2>5. OnWire(x) \in ByteStrings
      BY <2>2, WireIsReadBack
    <2>6. f[m + 1] \in ByteStrings
      BY <2>3, <2>4, <2>5, Concatenation
    <2>7. Groups(b, f[m], OnWire(x))
      BY <2>3, <2>5, ByteStringsGroup
    <2>8. Carries((b \o f[m]) \o OnWire(x), Append(t, x), r)
      <3>. DEFINE c == b \o f[m]
      <3>1. Carries(c, t, r)
        BY <2>3
      <3>. HIDE DEF c, t, x
      <3>2. Carries(c \o OnWire(x), Append(t, x), r)
        BY <2>2, <3>1, CarriesOneMore
      <3>. QED
        BY <3>2 DEF c
    <2>9. Carries(b \o f[m + 1], Said1(m + 1), r)
      BY <1>4, <2>4, <2>7, <2>8 DEF Groups
    <2>10. Said1(m + 1) \in Seq(WireMessage) /\ r \in 0 .. Len(Said1(m + 1))
      BY <1>1, <1>2, <2>1
    <2>. QED
      BY <2>1, <2>6, <2>9, <2>10
  <1>7. N \in P
    <2>. HIDE DEF P
    <2>1. \A m \in 0 .. N : m \in P
      BY <1>1, <1>5, <1>6, NatInd
    <2>. QED
      BY <1>1, <2>1
  <1>8. Said1(N) = s \o a
    BY SubSeqFull DEF Said1
  <1>. QED
    BY <1>7, <1>8 DEF N

-----------------------------------------------------------------------------
(* The inductive invariant.                                                *)

\* What the receiver handles of a message.
Reading(x) == Numbered(Fields(TypeName(WireHeader(x).type), WirePayload(x)), x.sequence)
OpinionOf(e, n, x) ==
    IF HeaderError(WireHeader(x)) # "ok" THEN HeaderError(WireHeader(x))
    ELSE Verdict(e, n, [header |-> WireHeader(x), payload |-> WirePayload(x)])

StateTypeOK ==
    /\ conversation \in Conversations /\ room \in Nat /\ receiveSize \in Nat
    /\ socket   \in [Ends -> {"open", "closed", "reset"}]
    /\ sent     \in [Ends -> Seq(WireMessage)]
    /\ unsent   \in [Ends -> ByteStrings]
    /\ pipe     \in [Ends -> ByteStrings] /\ \A e \in Ends : Len(pipe[e]) <= room
    /\ chunk    \in [Ends -> ByteStrings]
    /\ decoder  \in [Ends -> Decoders]
    /\ received \in [Ends -> Seq({Reading(x) : x \in WireMessage})]

\* An error d.error of end e, which handled the messages got of s.
Earned(e, d, got, sender, s) ==
    /\ d.error = "truncated" => sender = "closed"
    /\ d.error \notin {"ok", "truncated"} =>
          \/ Len(got) < Len(s) /\ d.error = OpinionOf(e, Len(got) + 1, s[Len(got) + 1])
          \/ d.error = "rejected" /\ sender # "open"

\* What end e handled is what the other sent first, and an end that is there
\* is at the next message and without an error.
EndOK(e, own, d, c, got, p, u, sender, s) ==
    /\ own = "open" =>
          /\ d.error = "ok" /\ InMessage(d, s, Len(got))
          /\ UnderWay(d, c, p, u, sender, s, Len(got))
    /\ Len(got) <= Len(s)
    /\ \A i \in 1 .. Len(got) : OpinionOf(e, i, s[i]) = "ok" /\ got[i] = Reading(s[i])
    /\ Earned(e, d, got, sender, s)
EndIsOK(e) ==
    EndOK(e, socket[e], decoder[e], chunk[e], received[e],
          pipe[Peer(e)], unsent[Peer(e)], socket[Peer(e)], sent[Peer(e)])

StreamInv == StateTypeOK /\ \A e \in Ends : EndIsOK(e)

\* There are two ends.
LEMMA PeerIsTheOther ==
    \A e \in Ends : /\ Peer(e) \in Ends /\ Peer(e) # e /\ Peer(Peer(e)) = e
                    /\ \A x \in Ends : x = e \/ x = Peer(e)
  BY DEF Ends, Peer

\* A verdict is about type and payload.
LEMMA VerdictOfParts ==
    ASSUME NEW e, NEW n, NEW m, NEW l, m.header.type = l.header.type, m.payload = l.payload
    PROVE  Verdict(e, n, m) = Verdict(e, n, l)
  BY DEF Verdict, HasHandler

\* The opinion the property speaks of is the one of the invariant.
LEMMA OpinionIsOf ==
    ASSUME StateTypeOK, NEW e \in Ends, NEW n \in 1 .. Len(sent[Peer(e)])
    PROVE  Opinion(e, n) = OpinionOf(e, n, sent[Peer(e)][n])
  <1>. DEFINE x == sent[Peer(e)][n]
              m == Encoded(x.message)
              l == [header |-> WireHeader(x), payload |-> WirePayload(x)]
  <1>1. x \in WireMessage
    BY PeerIsTheOther, ElementOfSeq DEF StateTypeOK
  <1>2. /\ WireHeader(x).type = m.header.type /\ HeaderError(WireHeader(x)) = HeaderError(m.header)
        /\ WirePayload(x) = m.payload
    BY <1>1, WireBytes DEF WirePayload
  <1>3. Verdict(e, n, m) = Verdict(e, n, l)
    <2>1. l.header = WireHeader(x) /\ l.payload = WirePayload(x)
      OBVIOUS
    <2>. HIDE DEF l, m, x
    <2>. QED
      BY <1>2, <2>1, VerdictOfParts
  <1>4. Opinion(e, n) = IF HeaderError(m.header) # "ok" THEN HeaderError(m.header) ELSE Verdict(e, n, m)
    BY DEF Opinion
  <1>5. OpinionOf(e, n, x) = IF HeaderError(WireHeader(x)) # "ok" THEN HeaderError(WireHeader(x))
                             ELSE Verdict(e, n, l)
    BY DEF OpinionOf
  <1>. HIDE DEF l, m, x
  <1>6. Opinion(e, n) = OpinionOf(e, n, x)
    BY <1>2, <1>3, <1>4, <1>5
  <1>. QED
    BY <1>6 DEF x

\* The invariant means the property.
LEMMA InvMeansEarned == StreamInv => ErrorsAreEarned
  <1>. SUFFICES ASSUME StreamInv, NEW e \in Ends
                PROVE  /\ \A i \in DOMAIN received[e] : Opinion(e, i) = "ok"
                       /\ decoder[e].error = "truncated" => socket[Peer(e)] = "closed"
                       /\ decoder[e].error \notin {"ok", "truncated"} =>
                             \/ /\ Len(received[e]) < Len(sent[Peer(e)])
                                /\ decoder[e].error = Opinion(e, Len(received[e]) + 1)
                             \/ decoder[e].error = "rejected" /\ socket[Peer(e)] # "open"
    BY DEF ErrorsAreEarned
  <1>. DEFINE got == received[e]
              s == sent[Peer(e)]
              d == decoder[e]
  <1>1. /\ DOMAIN got = 1 .. Len(got) /\ Len(got) \in Nat /\ Len(s) \in Nat
    BY PeerIsTheOther, LenProperties DEF StreamInv, StateTypeOK
  <1>2. /\ Len(got) <= Len(s)
        /\ \A i \in 1 .. Len(got) : OpinionOf(e, i, s[i]) = "ok"
        /\ Earned(e, d, got, socket[Peer(e)], s)
    BY DEF StreamInv, EndIsOK, EndOK
  <1>3. \A i \in 1 .. Len(s) : Opinion(e, i) = OpinionOf(e, i, s[i])
    BY OpinionIsOf DEF StreamInv
  <1>. HIDE DEF got, s, d
  <1>4. \A i \in DOMAIN got : Opinion(e, i) = "ok"
    BY <1>1, <1>2, <1>3
  <1>5. Len(got) < Len(s) => Opinion(e, Len(got) + 1) = OpinionOf(e, Len(got) + 1, s[Len(got) + 1])
    BY <1>1, <1>3
  <1>6. /\ d.error = "truncated" => socket[Peer(e)] = "closed"
        /\ d.error \notin {"ok", "truncated"} =>
              \/ Len(got) < Len(s) /\ d.error = Opinion(e, Len(got) + 1)
              \/ d.error = "rejected" /\ socket[Peer(e)] # "open"
    BY <1>2, <1>5 DEF Earned
  <1>. QED
    BY <1>4, <1>6 DEF got, s, d

\* It holds of a new connection.
LEMMA InitMeansInv == Init => StreamInv
  <1>. SUFFICES ASSUME Init PROVE StreamInv
    OBVIOUS
  <1>1. room \in Nat /\ room >= 1 /\ receiveSize \in Nat
    BY TransportAssumption DEF Init
  <1>2. NewDecoder \in Decoders /\ NewDecoder.data = <<>> /\ NewDecoder.header = {} /\ NewDecoder.error = "ok"
    BY Nothing DEF NewDecoder, Decoders, Errors
  <1>3. <<>> \in ByteStrings /\ Len(<<>>) = 0 /\ \A S : <<>> \in Seq(S)
    BY Nothing
  <1>4. StateTypeOK
    BY <1>1, <1>2, <1>3 DEF Init, StateTypeOK
  <1>5. ASSUME NEW e \in Ends PROVE EndIsOK(e)
    <2>1. UnderWay(NewDecoder, <<>>, <<>>, <<>>, "open", <<>>, 0)
      <3>1. Carries(<<>>, <<>>, Len(<<>>))
        BY <1>3, CarriesNothing
      <3>2. <<>> \o (<<>> \o (<<>> \o <<>>)) = <<>>
        BY Nothing
      <3>3. Carries(<<>> \o (<<>> \o (<<>> \o <<>>)), <<>>, 0)
        BY <1>3, <3>1, <3>2
      <3>4. Carries(NewDecoder.data \o (<<>> \o (<<>> \o <<>>)), <<>>, 0)
        BY <1>2, <3>3
      <3>. QED
        BY <1>3, <3>4 DEF UnderWay
    <2>2. InMessage(NewDecoder, <<>>, 0)
      BY <1>2, <1>3 DEF InMessage, InHeader, HeaderSize
    <2>3. EndOK(e, "open", NewDecoder, <<>>, <<>>, <<>>, <<>>, "open", <<>>)
      BY <1>2, <1>3, <2>1, <2>2 DEF EndOK, Earned
    <2>4. Peer(e) \in Ends
      BY PeerIsTheOther
    <2>. QED
      BY <2>3, <2>4 DEF EndIsOK, Init
  <1>. QED
    BY <1>4, <1>5 DEF StreamInv

-----------------------------------------------------------------------------
(* Every step keeps it.                                                    *)

\* The types of the variables, at one end.
LEMMA EndTypes ==
    ASSUME StateTypeOK, NEW e \in Ends
    PROVE  /\ Peer(e) \in Ends
           /\ sent[e] \in Seq(WireMessage) /\ Len(sent[e]) \in Nat
           /\ sent[Peer(e)] \in Seq(WireMessage) /\ Len(sent[Peer(e)]) \in Nat
           /\ received[e] \in Seq({Reading(x) : x \in WireMessage}) /\ Len(received[e]) \in Nat
           /\ decoder[e] \in Decoders /\ decoder[e].data \in ByteStrings
           /\ chunk[e] \in ByteStrings
           /\ pipe[e] \in ByteStrings /\ pipe[Peer(e)] \in ByteStrings
           /\ unsent[e] \in ByteStrings /\ unsent[Peer(e)] \in ByteStrings
           /\ Len(pipe[e]) \in Nat /\ Len(pipe[Peer(e)]) \in Nat
           /\ Len(pipe[e]) <= room /\ Len(pipe[Peer(e)]) <= room
  <1>1. Peer(e) \in Ends
    BY PeerIsTheOther
  <1>2. /\ sent[e] \in Seq(WireMessage) /\ sent[Peer(e)] \in Seq(WireMessage)
        /\ received[e] \in Seq({Reading(x) : x \in WireMessage})
    BY <1>1 DEF StateTypeOK
  <1>3. /\ decoder[e] \in Decoders /\ chunk[e] \in ByteStrings
        /\ pipe[e] \in ByteStrings /\ pipe[Peer(e)] \in ByteStrings
        /\ unsent[e] \in ByteStrings /\ unsent[Peer(e)] \in ByteStrings
        /\ Len(pipe[e]) <= room /\ Len(pipe[Peer(e)]) <= room
    BY <1>1 DEF StateTypeOK
  <1>4. Len(sent[e]) \in Nat /\ Len(sent[Peer(e)]) \in Nat /\ Len(received[e]) \in Nat
    BY <1>2, LenProperties
  <1>5. Len(pipe[e]) \in Nat /\ Len(pipe[Peer(e)]) \in Nat
    BY <1>3, LenProperties DEF ByteStrings
  <1>. QED
    BY <1>1, <1>2, <1>3, <1>4, <1>5 DEF Decoders

\* The other end and one end are all there are.
LEMMA BothEndsNext ==
    ASSUME NEW e \in Ends,
           EndOK(e, socket'[e], decoder'[e], chunk'[e], received'[e],
                 pipe'[Peer(e)], unsent'[Peer(e)], socket'[Peer(e)], sent'[Peer(e)]),
           EndOK(Peer(e), socket'[Peer(e)], decoder'[Peer(e)], chunk'[Peer(e)], received'[Peer(e)],
                 pipe'[e], unsent'[e], socket'[e], sent'[e])
    PROVE  \A x \in Ends : EndIsOK(x)'
  <1>. SUFFICES ASSUME NEW x \in Ends
                PROVE  EndOK(x, socket'[x], decoder'[x], chunk'[x], received'[x],
                             pipe'[Peer(x)], unsent'[Peer(x)], socket'[Peer(x)], sent'[Peer(x)])
    BY DEF EndIsOK
  <1>1. CASE x = e
    BY <1>1
  <1>2. CASE x = Peer(e)
    BY <1>2, PeerIsTheOther
  <1>. QED
    BY <1>1, <1>2, PeerIsTheOther

\* recv
LEMMA ReceiveKeeps ==
    ASSUME StreamInv, NEW e \in Ends, Receive(e)
    PROVE  StreamInv'
  <1>. DEFINE p == pipe[Peer(e)]
              n == IF receiveSize < Len(p) THEN receiveSize ELSE Len(p)
              a == SubSeq(p, 1, n)
              b == SubSeq(p, n + 1, Len(p))
  <1>0. StateTypeOK /\ EndIsOK(e) /\ EndIsOK(Peer(e))
    BY PeerIsTheOther DEF StreamInv
  <1>1. /\ socket[e] = "open" /\ chunk[e] = <<>>
        /\ chunk' = At(chunk, e, a) /\ pipe' = At(pipe, Peer(e), b)
        /\ UNCHANGED <<chosen, socket, sent, unsent, writeWanted, decoder, received>>
    BY DEF Receive
  <1>2. p \in ByteStrings /\ Len(p) \in Nat /\ n \in 0 .. Len(p) /\ Len(p) <= room /\ room \in Nat
    <2>1. p \in ByteStrings /\ Len(p) \in Nat /\ Len(p) <= room
      BY <1>0, EndTypes
    <2>2. receiveSize \in Nat /\ room \in Nat
      BY <1>0 DEF StateTypeOK
    <2>. HIDE DEF p
    <2>. QED
      BY <2>1, <2>2
  <1>. HIDE DEF n
  <1>3. a \in ByteStrings /\ b \in ByteStrings /\ Len(b) = Len(p) - n /\ p = a \o b
    BY <1>2, CutInTwo
  <1>. HIDE DEF a, b
  <1>4. /\ chunk'[e] = a /\ chunk'[Peer(e)] = chunk[Peer(e)] /\ chunk' \in [Ends -> ByteStrings]
    <2>1. chunk \in [Ends -> ByteStrings]
      BY <1>0 DEF StateTypeOK
    <2>. QED
      BY <1>1, <1>3, <2>1, PeerIsTheOther DEF At
  <1>5. /\ pipe'[e] = pipe[e] /\ pipe'[Peer(e)] = b /\ pipe' \in [Ends -> ByteStrings]
    <2>1. pipe \in [Ends -> ByteStrings]
      BY <1>0 DEF StateTypeOK
    <2>. QED
      BY <1>1, <1>3, <2>1, PeerIsTheOther DEF At
  <1>6. \A x \in Ends : Len(pipe'[x]) <= room
    <2>1. Len(b) <= room
      BY <1>2, <1>3
    <2>. QED
      BY <1>0, <1>5, <2>1, EndTypes, PeerIsTheOther
  <1>7. StateTypeOK'
    BY <1>0, <1>1, <1>4, <1>5, <1>6 DEF StateTypeOK, chosen
  <1>8. EndOK(e, socket[e], decoder[e], a, received[e], b, unsent[Peer(e)], socket[Peer(e)], sent[Peer(e)])
    <2>1. EndOK(e, socket[e], decoder[e], <<>>, received[e], a \o b,
                unsent[Peer(e)], socket[Peer(e)], sent[Peer(e)])
      BY <1>0, <1>1, <1>3 DEF EndIsOK
    <2>2. UnderWay(decoder[e], a, b, unsent[Peer(e)], socket[Peer(e)], sent[Peer(e)], Len(received[e]))
      BY <1>1, <1>3, <2>1, UnderWayReceived DEF EndOK
    <2>. QED
      BY <2>1, <2>2 DEF EndOK
  <1>9. EndOK(Peer(e), socket[Peer(e)], decoder[Peer(e)], chunk[Peer(e)], received[Peer(e)],
              pipe[e], unsent[e], socket[e], sent[e])
    BY <1>0, PeerIsTheOther DEF EndIsOK
  <1>10. \A x \in Ends : EndIsOK(x)'
    <2>1. UNCHANGED <<socket, sent, unsent, decoder, received>>
      BY <1>1
    <2>2. EndOK(e, socket'[e], decoder'[e], chunk'[e], received'[e],
                pipe'[Peer(e)], unsent'[Peer(e)], socket'[Peer(e)], sent'[Peer(e)])
      BY <1>4, <1>5, <1>8, <2>1
    <2>3. EndOK(Peer(e), socket'[Peer(e)], decoder'[Peer(e)], chunk'[Peer(e)], received'[Peer(e)],
                pipe'[e], unsent'[e], socket'[e], sent'[e])
      BY <1>4, <1>5, <1>9, <2>1
    <2>. QED
      BY <2>2, <2>3, BothEndsNext
  <1>. QED
    BY <1>7, <1>10 DEF StreamInv

\* send: what goes and what stays are all there is to send.
LEMMA SendCuts ==
    ASSUME StateTypeOK, NEW e \in Ends, NEW bytes \in ByteStrings, Send(e, bytes)
    PROVE  \E x, y \in ByteStrings :
              /\ bytes = x \o y
              /\ pipe' = At(pipe, e, pipe[e] \o x) /\ unsent' = At(unsent, e, y)
              /\ pipe[e] \o x \in ByteStrings /\ Len(pipe[e] \o x) <= room
  <1>. DEFINE n == SentNow(e, bytes)
              x == SubSeq(bytes, 1, n)
              y == SubSeq(bytes, n + 1, Len(bytes))
  <1>1. /\ pipe[e] \in ByteStrings /\ Len(pipe[e]) \in Nat /\ Len(pipe[e]) <= room
        /\ room \in Nat /\ Len(bytes) \in Nat
    BY EndTypes, LenProperties DEF StateTypeOK, ByteStrings
  <1>2. n \in 0 .. Len(bytes) /\ n <= room - Len(pipe[e])
    <2>. DEFINE l == Len(pipe[e])
                k == Len(bytes)
    <2>1. n = IF k < room - l THEN k ELSE room - l
      BY DEF SentNow
    <2>2. l \in Nat /\ l <= room /\ k \in Nat
      BY <1>1
    <2>. HIDE DEF l, k, n
    <2>3. n \in 0 .. k /\ n <= room - l
      BY <1>1, <2>1, <2>2
    <2>. QED
      BY <2>3 DEF l, k
  <1>3. pipe' = At(pipe, e, pipe[e] \o x) /\ unsent' = At(unsent, e, y)
    BY DEF Send, Remaining
  <1>. HIDE DEF n
  <1>4. x \in ByteStrings /\ Len(x) = n /\ y \in ByteStrings /\ bytes = x \o y
    BY <1>2, CutInTwo
  <1>. HIDE DEF x, y
  <1>5. pipe[e] \o x \in ByteStrings /\ Len(pipe[e] \o x) = Len(pipe[e]) + n
    BY <1>1, <1>4, Concatenation
  <1>6. Len(pipe[e] \o x) <= room
    BY <1>1, <1>2, <1>5
  <1>. QED
    BY <1>3, <1>4, <1>5, <1>6

\* Of a stream that grew, or of which more is under way, the end is as far as
\* it was.
LEMMA EndStays ==
    ASSUME NEW e, NEW own, NEW d, NEW c, NEW got, Len(got) \in Nat, NEW p, NEW u, NEW sender,
           NEW s, Len(s) \in Nat, EndOK(e, own, d, c, got, p, u, sender, s),
           NEW t, Len(t) \in Nat, Len(t) >= Len(s), \A i \in 1 .. Len(s) : t[i] = s[i],
           NEW q, NEW v, own = "open" => UnderWay(d, c, q, v, sender, t, Len(got))
    PROVE  EndOK(e, own, d, c, got, q, v, sender, t)
  <1>1. Len(got) <= Len(s)
    BY DEF EndOK
  <1>2. \A i \in 1 .. Len(got) : i \in 1 .. Len(s)
    BY <1>1
  <1>3. \A i \in 1 .. Len(got) : OpinionOf(e, i, t[i]) = "ok" /\ got[i] = Reading(t[i])
    BY <1>2 DEF EndOK
  <1>4. Len(got) < Len(s) => Len(got) < Len(t) /\ t[Len(got) + 1] = s[Len(got) + 1]
    OBVIOUS
  <1>5. Earned(e, d, got, sender, t)
    BY <1>4 DEF EndOK, Earned
  <1>6. own = "open" => d.error = "ok" /\ InMessage(d, t, Len(got))
    BY <1>4 DEF EndOK, InMessage, InPayload
  <1>. QED
    BY <1>1, <1>3, <1>5, <1>6 DEF EndOK

\* More is sent of what waits.
LEMMA SendKeeps ==
    ASSUME StreamInv, NEW e \in Ends, socket[e] = "open", NEW bytes \in ByteStrings, Send(e, bytes),
           UNCHANGED <<chosen, socket, chunk, decoder, received>>,
           NEW t \in Seq(WireMessage), sent' = At(sent, e, t),
           Len(t) >= Len(sent[e]), \A i \in 1 .. Len(sent[e]) : t[i] = sent[e][i],
           socket[Peer(e)] = "open" =>
              UnderWay(decoder[Peer(e)], chunk[Peer(e)], pipe[e], bytes, socket[e], t, Len(received[Peer(e)]))
    PROVE  StreamInv'
  <1>0. StateTypeOK /\ EndIsOK(e) /\ EndIsOK(Peer(e))
    BY PeerIsTheOther DEF StreamInv
  <1>1. PICK x, y \in ByteStrings :
              /\ bytes = x \o y
              /\ pipe' = At(pipe, e, pipe[e] \o x) /\ unsent' = At(unsent, e, y)
              /\ pipe[e] \o x \in ByteStrings /\ Len(pipe[e] \o x) <= room
    BY <1>0, SendCuts
  <1>2. /\ pipe'[e] = pipe[e] \o x /\ pipe'[Peer(e)] = pipe[Peer(e)] /\ pipe' \in [Ends -> ByteStrings]
    <2>1. pipe \in [Ends -> ByteStrings]
      BY <1>0 DEF StateTypeOK
    <2>. QED
      BY <1>1, <2>1, PeerIsTheOther DEF At
  <1>3. /\ unsent'[e] = y /\ unsent'[Peer(e)] = unsent[Peer(e)] /\ unsent' \in [Ends -> ByteStrings]
    <2>1. unsent \in [Ends -> ByteStrings]
      BY <1>0 DEF StateTypeOK
    <2>. QED
      BY <1>1, <2>1, PeerIsTheOther DEF At
  <1>4. /\ sent'[e] = t /\ sent'[Peer(e)] = sent[Peer(e)] /\ sent' \in [Ends -> Seq(WireMessage)]
    <2>1. sent \in [Ends -> Seq(WireMessage)]
      BY <1>0 DEF StateTypeOK
    <2>. QED
      BY <2>1, PeerIsTheOther DEF At
  <1>5. \A z \in Ends : Len(pipe'[z]) <= room
    BY <1>0, <1>1, <1>2, EndTypes, PeerIsTheOther
  <1>6. StateTypeOK'
    BY <1>0, <1>2, <1>3, <1>4, <1>5 DEF StateTypeOK, chosen
  <1>7. EndOK(Peer(e), socket[Peer(e)], decoder[Peer(e)], chunk[Peer(e)], received[Peer(e)],
              pipe[e] \o x, y, socket[e], t)
    <2>1. EndOK(Peer(e), socket[Peer(e)], decoder[Peer(e)], chunk[Peer(e)], received[Peer(e)],
                pipe[e], unsent[e], socket[e], sent[e])
      BY <1>0, PeerIsTheOther DEF EndIsOK
    <2>2. socket[Peer(e)] = "open" =>
            UnderWay(decoder[Peer(e)], chunk[Peer(e)], pipe[e] \o x, y, socket[e], t, Len(received[Peer(e)]))
      <3>1. pipe[e] \in ByteStrings
        BY <1>0, EndTypes
      <3>. QED
        BY <1>1, <3>1, UnderWaySent
    <2>3. Len(received[Peer(e)]) \in Nat /\ Len(sent[e]) \in Nat /\ Len(t) \in Nat
      BY <1>0, EndTypes, PeerIsTheOther, LenProperties
    <2>. QED
      BY <2>1, <2>2, <2>3, EndStays
  <1>8. EndOK(e, socket[e], decoder[e], chunk[e], received[e],
              pipe[Peer(e)], unsent[Peer(e)], socket[Peer(e)], sent[Peer(e)])
    BY <1>0 DEF EndIsOK
  <1>9. \A z \in Ends : EndIsOK(z)'
    <2>1. EndOK(e, socket'[e], decoder'[e], chunk'[e], received'[e],
                pipe'[Peer(e)], unsent'[Peer(e)], socket'[Peer(e)], sent'[Peer(e)])
      BY <1>2, <1>3, <1>4, <1>8
    <2>2. EndOK(Peer(e), socket'[Peer(e)], decoder'[Peer(e)], chunk'[Peer(e)], received'[Peer(e)],
                pipe'[e], unsent'[e], socket'[e], sent'[e])
      BY <1>2, <1>3, <1>4, <1>7
    <2>. QED
      BY <2>1, <2>2, BothEndsNext
  <1>. QED
    BY <1>6, <1>9 DEF StreamInv

\* What the agent says next may be said, with its number.
LEMMA AgentSaysAMessage ==
    ASSUME StateTypeOK, AgentSays
    PROVE  LET n == Len(sent["agent"]) + 1
           IN  Numbered(conversation.agent[n], WireSequence(n)) \in WireMessage
  <1>. DEFINE n == Len(sent["agent"]) + 1
              m == conversation.agent[n]
  <1>1. n \in Nat /\ n >= 1
    BY EndTypes DEF Ends
  <1>2. m \in Sayable
    <2>1. conversation \in Conversations
      BY DEF StateTypeOK
    <2>2. conversation.agent \in Seq({conversation.agent[k] : k \in DOMAIN conversation.agent})
      BY <2>1, TransportAssumption
    <2>3. Len(conversation.agent) \in Nat /\ DOMAIN conversation.agent = 1 .. Len(conversation.agent)
      BY <2>2, LenProperties
    <2>4. n <= Len(conversation.agent)
      BY DEF AgentSays
    <2>5. n \in DOMAIN conversation.agent
      BY <1>1, <2>3, <2>4
    <2>. HIDE DEF n
    <2>. QED
      BY <2>1, <2>5 DEF Sayable, SayableByAgent
  <1>. HIDE DEF m, n
  <1>3. Numbered(m, WireSequence(n)) \in WireMessage
    BY <1>1, <1>2, NumberFits DEF Numbered, WireMessage
  <1>. QED
    BY <1>3 DEF m, n

\* queue_message.
LEMMA AgentSaysKeeps ==
    ASSUME StreamInv, AgentSays
    PROVE  StreamInv'
  <1>. DEFINE e == "agent"
              s == sent["agent"]
              n == Len(s) + 1
              m == conversation.agent[n]
              x == Numbered(m, WireSequence(n))
              t == Append(s, x)
              u == unsent["agent"]
              more == OnWire(x)
  <1>0. StateTypeOK /\ e \in Ends /\ Peer(e) = "server" /\ "server" \in Ends
    BY DEF StreamInv, Ends, Peer
  <1>1. /\ IsUp /\ n <= Len(conversation.agent)
        /\ sent' = At(sent, e, t)
        /\ Send(e, u \o Bytes(m, WireSequence(n)))
        /\ UNCHANGED <<chosen, socket, chunk, decoder, received>>
    BY DEF AgentSays, Flush, Queued
  <1>2. socket[e] = "open" /\ socket["server"] = "open"
    BY <1>0, <1>1 DEF IsUp
  <1>3. s \in Seq(WireMessage) /\ Len(s) \in Nat /\ n \in Nat
    <2>1. s \in Seq(WireMessage) /\ Len(s) \in Nat
      BY <1>0, EndTypes
    <2>. QED
      BY <2>1
  <1>4. x \in WireMessage
    BY <1>0, AgentSaysAMessage
  <1>5. Bytes(m, WireSequence(n)) = more
    BY DEF OnWire, Numbered
  <1>. HIDE DEF x, m, n
  <1>6. /\ t \in Seq(WireMessage) /\ Len(t) >= Len(s) /\ \A i \in 1 .. Len(s) : t[i] = s[i]
    BY <1>3, <1>4, AppendProperties
  <1>7. u \in ByteStrings /\ more \in ByteStrings /\ u \o more \in ByteStrings
    BY <1>0, <1>4, EndTypes, WireIsReadBack, Concatenation
  <1>8. UnderWay(decoder["server"], chunk["server"], pipe[e], u \o more, socket[e], t, Len(received["server"]))
    <2>. DEFINE d == decoder["server"]
                c == chunk["server"]
                p == pipe["agent"]
                r == Len(received["server"])
    <2>1. EndIsOK("server") /\ Peer("server") = e
      BY <1>0 DEF StreamInv, Peer
    <2>2. UnderWay(d, c, p, u, socket[e], s, r) /\ r <= Len(s)
      BY <1>2, <2>1 DEF EndIsOK, EndOK
    <2>3. r \in 0 .. Len(s)
      BY <1>0, <1>3, <2>2, EndTypes
    <2>4. \A b \in ByteStrings : Carries(b, s, r) => Carries(b \o more, t, r)
      BY <1>3, <1>4, <2>3, CarriesOneMore
    <2>5. d.data \in ByteStrings /\ c \in ByteStrings /\ p \in ByteStrings
      BY <1>0, EndTypes
    <2>. HIDE DEF d, c, p, r, t, s, u, more
    <2>6. UnderWay(d, c, p, u \o more, socket[e], t, r)
      BY <1>2, <1>7, <2>2, <2>4, <2>5, UnderWaySaid
    <2>. QED
      BY <2>6 DEF d, c, p, r
  <1>9. Send(e, u \o more)
    BY <1>1, <1>5
  <1>. HIDE DEF t, more, u
  <1>. QED
    BY <1>0, <1>1, <1>2, <1>6, <1>7, <1>8, <1>9, SendKeeps

\* FD_WRITE, and the loop of send_all.
LEMMA MoreIsSentKeeps ==
    ASSUME StreamInv, NEW e \in Ends, IsUp, Send(e, unsent[e]),
           UNCHANGED <<chosen, socket, sent, chunk, decoder, received>>
    PROVE  StreamInv'
  <1>. DEFINE t == sent[e]
              u == unsent[e]
              d == decoder[Peer(e)]
              c == chunk[Peer(e)]
              r == Len(received[Peer(e)])
  <1>0. StateTypeOK /\ Peer(e) \in Ends /\ Peer(Peer(e)) = e /\ EndIsOK(Peer(e))
    BY PeerIsTheOther DEF StreamInv
  <1>1. socket[e] = "open" /\ socket[Peer(e)] = "open"
    BY <1>0 DEF IsUp
  <1>2. t \in Seq(WireMessage) /\ Len(t) \in Nat /\ u \in ByteStrings
    BY <1>0, EndTypes
  <1>3. sent' = At(sent, e, t)
    BY <1>0 DEF At, StateTypeOK
  <1>4. UnderWay(d, c, pipe[e], u, socket[e], t, r)
    BY <1>0, <1>1 DEF EndIsOK, EndOK
  <1>. HIDE DEF t, u
  <1>5. Len(t) >= Len(sent[e]) /\ \A i \in 1 .. Len(sent[e]) : t[i] = sent[e][i]
    BY <1>2 DEF t
  <1>6. Send(e, u)
    BY DEF u
  <1>. QED
    BY <1>1, <1>2, <1>3, <1>4, <1>5, <1>6, SendKeeps

\* FD_WRITE.
LEMMA AgentIsWritableKeeps ==
    ASSUME StreamInv, AgentIsWritable
    PROVE  StreamInv'
  <1>1. /\ IsUp /\ Send("agent", unsent["agent"]) /\ "agent" \in Ends
        /\ UNCHANGED <<chosen, socket, sent, chunk, decoder, received>>
    BY DEF AgentIsWritable, Flush, Ends
  <1>. QED
    BY <1>1, MoreIsSentKeeps

\* send_all, also to a peer that has gone.
LEMMA ServerSendsKeeps ==
    ASSUME StreamInv, ServerSends
    PROVE  StreamInv'
  <1>. DEFINE e == "server"
  <1>0. StateTypeOK /\ e \in Ends /\ Peer(e) = "agent" /\ Peer("agent") = e /\ "agent" \in Ends
        /\ EndIsOK(e) /\ EndIsOK("agent")
    BY DEF StreamInv, Ends, Peer
  <1>1. /\ socket[e] = "open"
        /\ UNCHANGED <<chosen, socket, sent, writeWanted, chunk, decoder, received>>
        /\ \/ IsUp /\ Send(e, unsent[e])
           \/ ~IsUp /\ unsent' = At(unsent, e, <<>>) /\ UNCHANGED pipe
    BY DEF ServerSends
  <1>2. CASE IsUp /\ Send(e, unsent[e])
    BY <1>0, <1>1, <1>2, MoreIsSentKeeps
  <1>3. CASE ~IsUp /\ unsent' = At(unsent, e, <<>>) /\ UNCHANGED pipe
    <2>1. socket["agent"] # "open"
      BY <1>0, <1>1, <1>3 DEF IsUp, Ends
    <2>2. unsent'[e] = <<>> /\ unsent'["agent"] = unsent["agent"] /\ unsent' \in [Ends -> ByteStrings]
      <3>1. unsent \in [Ends -> ByteStrings] /\ "agent" # e
        BY <1>0 DEF StateTypeOK
      <3>. QED
        BY <1>0, <1>3, <3>1, Nothing DEF At
    <2>3. StateTypeOK'
      BY <1>0, <1>1, <1>3, <2>2 DEF StateTypeOK, chosen
    <2>4. EndOK("agent", socket["agent"], decoder["agent"], chunk["agent"], received["agent"],
                pipe[e], <<>>, socket[e], sent[e])
      BY <1>0, <2>1 DEF EndIsOK, EndOK
    <2>5. EndOK(e, socket[e], decoder[e], chunk[e], received[e],
                pipe["agent"], unsent["agent"], socket["agent"], sent["agent"])
      BY <1>0 DEF EndIsOK
    <2>6. UNCHANGED <<socket, sent, pipe, chunk, decoder, received>>
      BY <1>1, <1>3
    <2>7. EndOK("agent", socket'["agent"], decoder'["agent"], chunk'["agent"], received'["agent"],
                pipe'[e], unsent'[e], socket'[e], sent'[e])
      BY <2>2, <2>4, <2>6
    <2>8. EndOK(e, socket'[e], decoder'[e], chunk'[e], received'[e],
                pipe'["agent"], unsent'["agent"], socket'["agent"], sent'["agent"])
      BY <2>2, <2>5, <2>6
    <2>9. \A x \in Ends : EndIsOK(x)'
      BY <1>0, <2>7, <2>8, BothEndsNext
    <2>. QED
      BY <2>3, <2>9 DEF StreamInv
  <1>. QED
    BY <1>1, <1>2, <1>3

\* The end of an end, with the error it ends with.
LEMMA CloseKeeps ==
    ASSUME StreamInv, NEW e \in Ends, socket[e] = "open", Close(e),
           UNCHANGED <<chosen, sent, received>>,
           NEW d \in Decoders, decoder' = At(decoder, e, d),
           Earned(e, d, received[e], socket[Peer(e)], sent[Peer(e)])
    PROVE  StreamInv'
  <1>0. StateTypeOK /\ EndIsOK(e) /\ EndIsOK(Peer(e)) /\ Peer(e) \in Ends /\ Peer(Peer(e)) = e /\ Peer(e) # e
    BY PeerIsTheOther DEF StreamInv
  <1>1. PICK gone \in {"closed", "reset"}, kept \in {pipe[e], <<>>}, left \in {pipe[Peer(e)], <<>>} :
           /\ socket' = At(socket, e, gone)
           /\ pipe' = [pipe EXCEPT ![e] = kept, ![Peer(e)] = left]
    <2>1. CASE pipe[Peer(e)] = <<>> /\ chunk[e] = <<>>
      <3>1. socket' = At(socket, e, "closed") /\ pipe' = pipe
        BY <2>1 DEF Close
      <3>2. pipe = [pipe EXCEPT ![e] = pipe[e], ![Peer(e)] = pipe[Peer(e)]]
        BY <1>0 DEF StateTypeOK
      <3>. QED
        BY <3>1, <3>2
    <2>2. CASE ~(pipe[Peer(e)] = <<>> /\ chunk[e] = <<>>)
      BY <2>2 DEF Close
    <2>. QED
      BY <2>1, <2>2
  <1>2. /\ unsent' = At(unsent, e, <<>>) /\ chunk' = At(chunk, e, <<>>)
    BY DEF Close
  <1>3. /\ socket'[e] = gone /\ socket'[Peer(e)] = socket[Peer(e)]
        /\ socket' \in [Ends -> {"open", "closed", "reset"}]
    <2>1. socket \in [Ends -> {"open", "closed", "reset"}]
      BY <1>0 DEF StateTypeOK
    <2>. QED
      BY <1>0, <1>1, <2>1 DEF At
  <1>4. /\ pipe'[e] = kept /\ pipe'[Peer(e)] = left /\ pipe' \in [Ends -> ByteStrings]
    <2>1. pipe \in [Ends -> ByteStrings] /\ kept \in ByteStrings /\ left \in ByteStrings
      BY <1>0, <1>1, Nothing DEF StateTypeOK
    <2>. QED
      BY <1>0, <1>1, <2>1
  <1>5. /\ unsent'[e] = <<>> /\ unsent'[Peer(e)] = unsent[Peer(e)] /\ unsent' \in [Ends -> ByteStrings]
    <2>1. unsent \in [Ends -> ByteStrings]
      BY <1>0 DEF StateTypeOK
    <2>. QED
      BY <1>0, <1>2, <2>1, Nothing DEF At
  <1>6. /\ chunk'[e] = <<>> /\ chunk'[Peer(e)] = chunk[Peer(e)] /\ chunk' \in [Ends -> ByteStrings]
    <2>1. chunk \in [Ends -> ByteStrings]
      BY <1>0 DEF StateTypeOK
    <2>. QED
      BY <1>0, <1>2, <2>1, Nothing DEF At
  <1>7. /\ decoder'[e] = d /\ decoder'[Peer(e)] = decoder[Peer(e)] /\ decoder' \in [Ends -> Decoders]
    <2>1. decoder \in [Ends -> Decoders]
      BY <1>0 DEF StateTypeOK
    <2>. QED
      BY <1>0, <2>1 DEF At
  <1>8. \A z \in Ends : Len(pipe'[z]) <= room
    <2>1. Len(<<>>) = 0 /\ room \in Nat
      BY <1>0 DEF StateTypeOK
    <2>2. Len(kept) <= room /\ Len(left) <= room
      <3>1. Len(pipe[e]) <= room /\ Len(pipe[Peer(e)]) <= room
        BY <1>0, EndTypes
      <3>. QED
        BY <1>1, <2>1, <3>1
    <2>. QED
      BY <1>4, <2>2, PeerIsTheOther
  <1>9. StateTypeOK'
    BY <1>0, <1>3, <1>4, <1>5, <1>6, <1>7, <1>8 DEF StateTypeOK, chosen
  <1>10. EndOK(e, gone, d, <<>>, received[e], left, unsent[Peer(e)], socket[Peer(e)], sent[Peer(e)])
    BY <1>0, <1>1 DEF EndIsOK, EndOK
  <1>11. EndOK(Peer(e), socket[Peer(e)], decoder[Peer(e)], chunk[Peer(e)], received[Peer(e)],
               kept, <<>>, gone, sent[e])
    <2>. DEFINE q == decoder[Peer(e)]
                c == chunk[Peer(e)]
                got == received[Peer(e)]
                own == socket[Peer(e)]
                s == sent[e]
    <2>1. EndOK(Peer(e), own, q, c, got, pipe[e], unsent[e], "open", s)
      BY <1>0 DEF EndIsOK
    <2>2. own = "open" => UnderWay(q, c, kept, <<>>, gone, s, Len(got))
      <3>1. pipe[e] \in ByteStrings /\ gone # "open"
        BY <1>0, <1>1, EndTypes
      <3>2. own = "open" => UnderWay(q, c, pipe[e], unsent[e], "open", s, Len(got))
        BY <2>1 DEF EndOK
      <3>3. kept \in {pipe[e], <<>>}
        OBVIOUS
      <3>. HIDE DEF q, c, got, own, s
      <3>. QED
        BY <3>1, <3>2, <3>3, UnderWayLost
    <2>3. Earned(Peer(e), q, got, gone, s)
      BY <1>1, <2>1 DEF EndOK, Earned
    <2>. HIDE DEF q, c, got, own, s
    <2>4. EndOK(Peer(e), own, q, c, got, kept, <<>>, gone, s)
      BY <2>1, <2>2, <2>3 DEF EndOK
    <2>. QED
      BY <2>4 DEF q, c, got, own, s
  <1>12. \A z \in Ends : EndIsOK(z)'
    <2>1. UNCHANGED <<sent, received>>
      OBVIOUS
    <2>2. EndOK(e, socket'[e], decoder'[e], chunk'[e], received'[e],
                pipe'[Peer(e)], unsent'[Peer(e)], socket'[Peer(e)], sent'[Peer(e)])
      BY <1>3, <1>4, <1>5, <1>6, <1>7, <1>10, <2>1
    <2>3. EndOK(Peer(e), socket'[Peer(e)], decoder'[Peer(e)], chunk'[Peer(e)], received'[Peer(e)],
                pipe'[e], unsent'[e], socket'[e], sent'[e])
      BY <1>3, <1>4, <1>5, <1>6, <1>7, <1>11, <2>1
    <2>. QED
      BY <2>2, <2>3, BothEndsNext
  <1>. QED
    BY <1>9, <1>12 DEF StreamInv

\* The errors a step of end e ends with are earned.
LEMMA FailedDecoder ==
    ASSUME NEW d \in Decoders, NEW error \in Errors
    PROVE  Failed(d, error) \in Decoders /\ Failed(d, error).error = error
  BY DEF Failed, Decoders

\* A verdict is an error of the decoder, and never "truncated".
LEMMA VerdictIsAnError == \A e, n, m : Verdict(e, n, m) \in Errors \ {"truncated"}
  BY DEF Verdict, Errors

\* recv returns 0 or an error.
LEMMA PeerEndedKeeps ==
    ASSUME StreamInv, NEW e \in Ends, PeerEnded(e)
    PROVE  StreamInv'
  <1>0. StateTypeOK /\ EndIsOK(e)
    BY DEF StreamInv
  <1>1. /\ socket[e] = "open" /\ socket[Peer(e)] # "open" /\ Close(e)
        /\ UNCHANGED <<chosen, sent, received>>
        /\ decoder' = IF socket[Peer(e)] = "closed" THEN At(decoder, e, Finished(decoder[e])) ELSE decoder
    BY DEF PeerEnded
  <1>2. /\ decoder[e] \in Decoders /\ decoder[e].error = "ok"
        /\ Earned(e, decoder[e], received[e], socket[Peer(e)], sent[Peer(e)])
    BY <1>0, <1>1, EndTypes DEF EndIsOK, EndOK
  <1>3. \E d \in Decoders : /\ decoder' = At(decoder, e, d)
                            /\ Earned(e, d, received[e], socket[Peer(e)], sent[Peer(e)])
    <2>1. CASE socket[Peer(e)] = "closed" /\ decoder[e].data # <<>>
      <3>1. Failed(decoder[e], "truncated") \in Decoders /\ Failed(decoder[e], "truncated").error = "truncated"
        BY <1>2, FailedDecoder DEF Errors
      <3>2. decoder' = At(decoder, e, Failed(decoder[e], "truncated"))
        BY <1>1, <1>2, <2>1 DEF Finished
      <3>. QED
        BY <2>1, <3>1, <3>2 DEF Earned
    <2>2. CASE ~(socket[Peer(e)] = "closed" /\ decoder[e].data # <<>>)
      <3>1. decoder = At(decoder, e, decoder[e])
        BY <1>0 DEF At, StateTypeOK
      <3>2. decoder' = At(decoder, e, decoder[e])
        BY <1>1, <2>2, <3>1 DEF Finished
      <3>. QED
        BY <1>2, <3>2
    <2>. QED
      BY <2>1, <2>2
  <1>. QED
    BY <1>1, <1>3, CloseKeeps

\* send fails.
LEMMA SendFailsKeeps ==
    ASSUME StreamInv, SendFails
    PROVE  StreamInv'
  <1>. DEFINE d == Failed(decoder["server"], "rejected")
  <1>0. StateTypeOK /\ "server" \in Ends /\ Peer("server") = "agent"
    BY DEF StreamInv, Ends, Peer
  <1>1. /\ socket["server"] = "open" /\ socket["agent"] # "open" /\ Close("server")
        /\ decoder' = At(decoder, "server", d)
        /\ UNCHANGED <<chosen, sent, received>>
    BY DEF SendFails
  <1>2. d \in Decoders /\ d.error = "rejected"
    BY <1>0, EndTypes, FailedDecoder DEF Errors
  <1>. HIDE DEF d
  <1>3. Earned("server", d, received["server"], socket["agent"], sent["agent"])
    BY <1>1, <1>2 DEF Earned
  <1>. QED
    BY <1>0, <1>1, <1>2, <1>3, CloseKeeps

\* An end goes by itself.
LEMMA GoesKeeps ==
    ASSUME StreamInv, NEW e \in Ends, Goes(e)
    PROVE  StreamInv'
  <1>0. StateTypeOK /\ EndIsOK(e)
    BY DEF StreamInv
  <1>1. socket[e] = "open" /\ Close(e) /\ UNCHANGED <<chosen, sent, decoder, received>>
    BY DEF Goes
  <1>2. decoder[e] \in Decoders /\ Earned(e, decoder[e], received[e], socket[Peer(e)], sent[Peer(e)])
    BY <1>0, EndTypes DEF EndIsOK, EndOK
  <1>3. decoder' = At(decoder, e, decoder[e])
    BY <1>0, <1>1 DEF At, StateTypeOK
  <1>. QED
    BY <1>1, <1>2, <1>3, CloseKeeps

\* One pass of cw_decoder_feed at an end: what it knows of its result.
LEMMA FedAtEnd ==
    ASSUME StreamInv, NEW e \in Ends, socket[e] = "open", NEW fed \in Pass(decoder[e], chunk[e])
    PROVE  LET s == sent[Peer(e)]
               r == Len(received[e])
           IN  /\ fed.decoder \in Decoders /\ fed.rest \in ByteStrings
               /\ fed.decoder.error = "ok" =>
                     /\ InMessage(fed.decoder, s, r)
                     /\ UnderWay(fed.decoder, fed.rest, pipe[Peer(e)], unsent[Peer(e)], socket[Peer(e)], s, r)
               /\ \A m \in Complete(fed.decoder) :
                     /\ fed.decoder.error = "ok" /\ r < Len(s) /\ s[r + 1] \in WireMessage
                     /\ m.header = WireHeader(s[r + 1])
                     /\ m.payload = WirePayload(s[r + 1])
                     /\ HeaderError(WireHeader(s[r + 1])) = "ok"
                     /\ ThisVerdict(e, m) = OpinionOf(e, r + 1, s[r + 1])
                     /\ UnderWay(ReadyForNext(fed.decoder), fed.rest, pipe[Peer(e)], unsent[Peer(e)],
                                 socket[Peer(e)], s, r + 1)
               /\ fed.decoder.error # "ok" => Refuses(fed.decoder, s, r)
  <1>. DEFINE s == sent[Peer(e)]
              r == Len(received[e])
              d == decoder[e]
              c == chunk[e]
              p == pipe[Peer(e)]
              u == unsent[Peer(e)]
              k == socket[Peer(e)]
  <1>0. StateTypeOK /\ EndIsOK(e)
    BY DEF StreamInv
  <1>1. /\ s \in Seq(WireMessage) /\ r \in Nat /\ Len(s) \in Nat
        /\ d \in Decoders /\ c \in ByteStrings /\ p \in ByteStrings
    BY <1>0, EndTypes
  <1>2. d.error = "ok" /\ InMessage(d, s, r) /\ UnderWay(d, c, p, u, k, s, r) /\ r <= Len(s)
    BY <1>0 DEF EndIsOK, EndOK
  <1>3. fed \in Pass(d, c)
    OBVIOUS
  <1>4. \A m : ThisVerdict(e, m) = Verdict(e, r + 1, m)
    BY DEF ThisVerdict
  <1>. HIDE DEF s, r, d, c, p, u, k
  <1>5. r \in 0 .. Len(s)
    BY <1>1, <1>2
  <1>6. /\ fed.decoder \in Decoders /\ fed.rest \in ByteStrings
        /\ fed.decoder.error = "ok" =>
              /\ InMessage(fed.decoder, s, r)
              /\ UnderWay(fed.decoder, fed.rest, p, u, k, s, r)
        /\ \A m \in Complete(fed.decoder) :
              /\ fed.decoder.error = "ok" /\ r < Len(s) /\ s[r + 1] \in WireMessage
              /\ m.header = WireHeader(s[r + 1]) /\ m.payload = WirePayload(s[r + 1])
              /\ HeaderError(WireHeader(s[r + 1])) = "ok"
              /\ UnderWay(ReadyForNext(fed.decoder), fed.rest, p, u, k, s, r + 1)
        /\ fed.decoder.error # "ok" => Refuses(fed.decoder, s, r)
    BY <1>1, <1>2, <1>3, <1>5, UnderWayFed
  <1>7. ASSUME NEW m \in Complete(fed.decoder)
        PROVE  ThisVerdict(e, m) = OpinionOf(e, r + 1, s[r + 1])
    <2>. DEFINE x == s[r + 1]
                l == [header |-> WireHeader(x), payload |-> WirePayload(x)]
    <2>1. m.header = WireHeader(x) /\ m.payload = WirePayload(x) /\ HeaderError(WireHeader(x)) = "ok"
      BY <1>6
    <2>2. l.header = WireHeader(x) /\ l.payload = WirePayload(x)
      OBVIOUS
    <2>3. OpinionOf(e, r + 1, x) = Verdict(e, r + 1, l)
      BY <2>1 DEF OpinionOf
    <2>. HIDE DEF l, x
    <2>4. Verdict(e, r + 1, m) = Verdict(e, r + 1, l)
      BY <2>1, <2>2, VerdictOfParts
    <2>. QED
      BY <1>4, <2>3, <2>4 DEF x
  <1>. QED
    BY <1>6, <1>7 DEF s, r, d, c, p, u, k

\* A message is not complete yet.
LEMMA GatherKeeps ==
    ASSUME StreamInv, NEW e \in Ends, socket[e] = "open", NEW fed \in Pass(decoder[e], chunk[e]),
           fed.decoder.error = "ok",
           decoder' = At(decoder, e, fed.decoder), chunk' = At(chunk, e, fed.rest),
           UNCHANGED <<chosen, socket, sent, unsent, writeWanted, pipe, received>>
    PROVE  StreamInv'
  <1>0. StateTypeOK /\ EndIsOK(e) /\ EndIsOK(Peer(e)) /\ Peer(Peer(e)) = e /\ Peer(e) # e /\ Peer(e) \in Ends
    BY PeerIsTheOther DEF StreamInv
  <1>. DEFINE d == fed.decoder
              c == fed.rest
  <1>1. /\ d \in Decoders /\ c \in ByteStrings
        /\ InMessage(d, sent[Peer(e)], Len(received[e]))
        /\ UnderWay(d, c, pipe[Peer(e)], unsent[Peer(e)], socket[Peer(e)], sent[Peer(e)], Len(received[e]))
    BY FedAtEnd
  <1>2. d.error = "ok" /\ decoder' = At(decoder, e, d) /\ chunk' = At(chunk, e, c)
    OBVIOUS
  <1>. HIDE DEF d, c
  <1>3. /\ chunk'[e] = c /\ chunk'[Peer(e)] = chunk[Peer(e)] /\ chunk' \in [Ends -> ByteStrings]
    <2>1. chunk \in [Ends -> ByteStrings]
      BY <1>0 DEF StateTypeOK
    <2>. QED
      BY <1>0, <1>1, <1>2, <2>1 DEF At
  <1>4. /\ decoder'[e] = d /\ decoder'[Peer(e)] = decoder[Peer(e)] /\ decoder' \in [Ends -> Decoders]
    <2>1. decoder \in [Ends -> Decoders]
      BY <1>0 DEF StateTypeOK
    <2>. QED
      BY <1>0, <1>1, <1>2, <2>1 DEF At
  <1>5. StateTypeOK'
    BY <1>0, <1>3, <1>4 DEF StateTypeOK, chosen
  <1>6. EndOK(e, socket[e], d, c, received[e], pipe[Peer(e)], unsent[Peer(e)], socket[Peer(e)], sent[Peer(e)])
    BY <1>0, <1>1, <1>2 DEF EndIsOK, EndOK, Earned
  <1>7. EndOK(Peer(e), socket[Peer(e)], decoder[Peer(e)], chunk[Peer(e)], received[Peer(e)],
              pipe[e], unsent[e], socket[e], sent[e])
    BY <1>0 DEF EndIsOK
  <1>8. \A x \in Ends : EndIsOK(x)'
    <2>1. UNCHANGED <<socket, sent, unsent, pipe, received>>
      OBVIOUS
    <2>2. EndOK(e, socket'[e], decoder'[e], chunk'[e], received'[e],
                pipe'[Peer(e)], unsent'[Peer(e)], socket'[Peer(e)], sent'[Peer(e)])
      BY <1>3, <1>4, <1>6, <2>1
    <2>3. EndOK(Peer(e), socket'[Peer(e)], decoder'[Peer(e)], chunk'[Peer(e)], received'[Peer(e)],
                pipe'[e], unsent'[e], socket'[e], sent'[e])
      BY <1>3, <1>4, <1>7, <2>1
    <2>. QED
      BY <2>2, <2>3, BothEndsNext
  <1>. QED
    BY <1>5, <1>8 DEF StreamInv

\* The stream is refused, for what the next message is or says.
LEMMA RefuseKeeps ==
    ASSUME StreamInv, NEW e \in Ends, socket[e] = "open", NEW fed \in Pass(decoder[e], chunk[e]),
           Close(e), UNCHANGED <<chosen, sent, received>>,
           NEW error \in Errors, decoder' = At(decoder, e, Failed(fed.decoder, error)),
           \/ \E m \in Complete(fed.decoder) : error = ThisVerdict(e, m) /\ error # "ok"
           \/ error = fed.decoder.error /\ error # "ok"
    PROVE  StreamInv'
  <1>. DEFINE s == sent[Peer(e)]
              got == received[e]
              r == Len(got)
              d == Failed(fed.decoder, error)
  <1>1. /\ fed.decoder \in Decoders
        /\ \A m \in Complete(fed.decoder) :
              r < Len(s) /\ ThisVerdict(e, m) = OpinionOf(e, r + 1, s[r + 1])
        /\ fed.decoder.error # "ok" => Refuses(fed.decoder, s, r)
    BY FedAtEnd
  <1>2. error # "truncated" /\ error # "ok"
    <2>1. ASSUME NEW m \in Complete(fed.decoder), error = ThisVerdict(e, m) PROVE error # "truncated"
      BY <2>1, VerdictIsAnError DEF ThisVerdict
    <2>2. ASSUME error = fed.decoder.error, error # "ok" PROVE error # "truncated"
      BY <1>1, <2>2, HeaderErrorIsKnown DEF Refuses
    <2>. QED
      BY <2>1, <2>2
  <1>3. d \in Decoders /\ d.error = error
    BY <1>1, FailedDecoder
  <1>4. r < Len(s) /\ error = OpinionOf(e, r + 1, s[r + 1])
    <2>1. ASSUME NEW m \in Complete(fed.decoder), error = ThisVerdict(e, m)
          PROVE  r < Len(s) /\ error = OpinionOf(e, r + 1, s[r + 1])
      BY <1>1, <2>1
    <2>2. ASSUME error = fed.decoder.error, error # "ok"
          PROVE  r < Len(s) /\ error = OpinionOf(e, r + 1, s[r + 1])
      BY <1>1, <2>2 DEF Refuses, OpinionOf
    <2>. QED
      BY <2>1, <2>2
  <1>5. decoder' = At(decoder, e, d)
    OBVIOUS
  <1>. HIDE DEF d
  <1>6. Earned(e, d, got, socket[Peer(e)], s)
    BY <1>2, <1>3, <1>4 DEF Earned
  <1>. QED
    BY <1>3, <1>5, <1>6, CloseKeeps

\* End e goes on from what it has sent to t, with so many more bytes to send.
GoesOn(e, t, more) ==
    /\ sent' = At(sent, e, t) /\ unsent' = At(unsent, e, unsent[e] \o more)
    /\ Len(t) >= Len(sent[e]) /\ \A i \in 1 .. Len(sent[e]) : t[i] = sent[e][i]
    /\ \A r \in 0 .. Len(sent[e]) : \A b \in ByteStrings :
          Carries(b, sent[e], r) => Carries(b \o more, t, r)

\* What a handler sends goes behind what was sent before.
LEMMA AnswerGrows ==
    ASSUME StateTypeOK, NEW e \in Ends, e = "server" => unsent[e] = <<>>, Answer(e)
    PROVE  \E t \in Seq(WireMessage), more \in ByteStrings : GoesOn(e, t, more)
  <1>. DEFINE s == sent[e]
  <1>1. s \in Seq(WireMessage) /\ Len(s) \in Nat /\ unsent[e] \in ByteStrings
    BY EndTypes
  <1>2. CASE e = "agent"
    <2>1. sent' = sent /\ unsent' = unsent
      BY <1>2 DEF Answer
    <2>2. sent = At(sent, e, s) /\ unsent = At(unsent, e, unsent[e])
      BY DEF At, StateTypeOK
    <2>3. <<>> \in ByteStrings /\ unsent[e] \o <<>> = unsent[e] /\ \A b \in ByteStrings : b \o <<>> = b
      BY <1>1, Nothing
    <2>4. /\ sent' = At(sent, e, s) /\ unsent' = At(unsent, e, unsent[e] \o <<>>)
          /\ \A r \in 0 .. Len(s) : \A b \in ByteStrings : Carries(b, s, r) => Carries(b \o <<>>, s, r)
      BY <2>1, <2>2, <2>3
    <2>5. GoesOn(e, s, <<>>)
      BY <1>1, <2>4 DEF GoesOn
    <2>. QED
      BY <1>1, <2>3, <2>5
  <1>3. CASE e # "agent"
    <2>. DEFINE n == Len(received'[e])
                first == Len(s)
                a == Numbers(n, first)
                t == s \o a
    <2>0. e = "server" /\ conversation \in Conversations
      BY <1>3 DEF Ends, StateTypeOK
    <2>1. /\ sent' = At(sent, e, t)
          /\ unsent' = At(unsent, e, BytesOfAnswers(n))
      BY <1>3, <2>0 DEF Answer, Numbers
    <2>2. a \in Seq(WireMessage) /\ Len(a) = Len(Answers(n)) /\ Len(a) \in Nat
      BY <1>1, <2>0, NumbersAreMessages
    <2>3. PICK f : Joins(f, a) /\ BytesOfAnswers(n) = f[Len(a)]
      BY <1>1, <2>0, <2>2, AnswersAreJoined
    <2>. HIDE DEF a
    <2>4. /\ t \in Seq(WireMessage) /\ Len(t) >= Len(s)
          /\ \A i \in 1 .. Len(s) : t[i] = s[i]
      BY <1>1, <2>2, ConcatProperties
    <2>5. ASSUME NEW r \in 0 .. Len(s), NEW b \in ByteStrings, Carries(b, s, r)
          PROVE  f[Len(a)] \in ByteStrings /\ Carries(b \o f[Len(a)], t, r)
      BY <1>1, <2>2, <2>3, <2>5, AnswersCarry
    <2>6. f[Len(a)] \in ByteStrings
      <3>1. Carries(<<>>, s, Len(s)) /\ Len(s) \in 0 .. Len(s) /\ <<>> \in ByteStrings
        BY <1>1, CarriesNothing, Nothing
      <3>. QED
        BY <2>5, <3>1
    <2>. DEFINE more == f[Len(a)]
    <2>7. unsent[e] \o more = more
      BY <2>0, <2>6, Nothing
    <2>8. unsent' = At(unsent, e, unsent[e] \o more)
      BY <2>1, <2>3, <2>7
    <2>. HIDE DEF t
    <2>9. GoesOn(e, t, more)
      BY <2>1, <2>4, <2>5, <2>8 DEF GoesOn
    <2>. HIDE DEF more
    <2>. QED
      BY <2>4, <2>6, <2>9 DEF more
  <1>. QED
    BY <1>2, <1>3

\* A message is handled, with the answers of its handler.
Accepts(e, fed, m) ==
    /\ socket[e] = "open" /\ (e = "server" => unsent[e] = <<>>)
    /\ m \in Complete(fed.decoder) /\ ThisVerdict(e, m) = "ok"
    /\ decoder' = At(decoder, e, ReadyForNext(fed.decoder))
    /\ chunk' = At(chunk, e, fed.rest)
    /\ received' = At(received, e, Append(received[e], Numbered(
                         Fields(TypeName(m.header.type), m.payload), m.header.sequence)))
    /\ Answer(e)
    /\ UNCHANGED <<chosen, socket, writeWanted, pipe>>

\* What is accepted is the next message of the stream.
LEMMA AcceptKeeps ==
    ASSUME StreamInv, NEW e \in Ends, NEW fed \in Pass(decoder[e], chunk[e]), NEW m, Accepts(e, fed, m)
    PROVE  StreamInv'
  <1>. DEFINE s == sent[Peer(e)]
              got == received[e]
              r == Len(got)
              x == s[r + 1]
              d == ReadyForNext(fed.decoder)
              c == fed.rest
              new == Append(got, Reading(x))
              p == pipe[Peer(e)]
              u == unsent[Peer(e)]
              k == socket[Peer(e)]
  <1>0. StateTypeOK /\ EndIsOK(e) /\ EndIsOK(Peer(e)) /\ Peer(Peer(e)) = e /\ Peer(e) # e /\ Peer(e) \in Ends
    BY PeerIsTheOther DEF StreamInv
  <1>1. /\ socket[e] = "open" /\ (e = "server" => unsent[e] = <<>>)
        /\ m \in Complete(fed.decoder) /\ ThisVerdict(e, m) = "ok"
        /\ decoder' = At(decoder, e, d) /\ chunk' = At(chunk, e, c)
        /\ received' = At(received, e, Append(got, Numbered(
                             Fields(TypeName(m.header.type), m.payload), m.header.sequence)))
        /\ Answer(e)
        /\ UNCHANGED <<chosen, socket, writeWanted, pipe>>
    BY DEF Accepts
  <1>2. /\ fed.decoder \in Decoders /\ c \in ByteStrings
        /\ fed.decoder.error = "ok" /\ r < Len(s) /\ x \in WireMessage
        /\ m.header = WireHeader(x) /\ m.payload = WirePayload(x)
        /\ ThisVerdict(e, m) = OpinionOf(e, r + 1, x)
        /\ UnderWay(d, c, p, u, k, s, r + 1)
    BY <1>1, FedAtEnd
  <1>3. /\ s \in Seq(WireMessage) /\ Len(s) \in Nat /\ r \in Nat
        /\ got \in Seq({Reading(y) : y \in WireMessage})
    BY <1>0, EndTypes
  <1>4. received' = At(received, e, new)
    <2>1. m.header.sequence = x.sequence
      BY <1>2, WireBytes
    <2>2. Numbered(Fields(TypeName(m.header.type), m.payload), m.header.sequence) = Reading(x)
      BY <1>2, <2>1 DEF Reading
    <2>. QED
      BY <1>1, <2>2
  <1>5. /\ new \in Seq({Reading(y) : y \in WireMessage}) /\ Len(new) = r + 1
        /\ new[r + 1] = Reading(x) /\ \A i \in 1 .. r : new[i] = got[i]
    <2>. DEFINE S == {Reading(y) : y \in WireMessage}
                v == Reading(x)
    <2>1. v \in S /\ got \in Seq(S)
      BY <1>2, <1>3
    <2>. HIDE DEF S, v, got
    <2>2. /\ Append(got, v) \in Seq(S) /\ Len(Append(got, v)) = Len(got) + 1
          /\ \A i \in 1 .. Len(got) : Append(got, v)[i] = got[i]
          /\ Append(got, v)[Len(got) + 1] = v
      BY <2>1, AppendProperties
    <2>. QED
      BY <2>2 DEF S, v
  <1>6. d \in Decoders /\ d.error = "ok" /\ d.data = <<>> /\ d.header = {}
    BY <1>2, Nothing DEF ReadyForNext, Decoders, Errors
  <1>. HIDE DEF d, c, new
  <1>7. EndOK(e, socket[e], d, c, new, p, u, k, s)
    <2>1. InMessage(d, s, r + 1)
      BY <1>6, Nothing DEF InMessage, InHeader, HeaderSize
    <2>2. \A i \in 1 .. r : OpinionOf(e, i, s[i]) = "ok" /\ got[i] = Reading(s[i])
      BY <1>0 DEF EndIsOK, EndOK
    <2>. HIDE DEF x, s, r, got, p, u, k
    <2>3. \A i \in 1 .. r + 1 : OpinionOf(e, i, s[i]) = "ok" /\ new[i] = Reading(s[i])
      <3>1. \A i \in 1 .. r + 1 : i \in 1 .. r \/ i = r + 1
        BY <1>3
      <3>2. OpinionOf(e, r + 1, s[r + 1]) = "ok" /\ new[r + 1] = Reading(s[r + 1])
        BY <1>1, <1>2, <1>5 DEF x
      <3>. QED
        BY <1>5, <2>2, <3>1, <3>2
    <2>4. r + 1 <= Len(s)
      BY <1>2, <1>3
    <2>. QED
      BY <1>2, <1>5, <1>6, <2>1, <2>3, <2>4 DEF EndOK, Earned
  <1>8. PICK t \in Seq(WireMessage), more \in ByteStrings : GoesOn(e, t, more)
    BY <1>0, <1>1, AnswerGrows
  <1>9. /\ sent' = At(sent, e, t) /\ unsent' = At(unsent, e, unsent[e] \o more)
        /\ Len(t) >= Len(sent[e]) /\ \A i \in 1 .. Len(sent[e]) : t[i] = sent[e][i]
        /\ \A j \in 0 .. Len(sent[e]) : \A b \in ByteStrings :
              Carries(b, sent[e], j) => Carries(b \o more, t, j)
    BY <1>8 DEF GoesOn
  <1>10. unsent[e] \in ByteStrings /\ unsent[e] \o more \in ByteStrings
    <2>1. unsent[e] \in ByteStrings
      BY <1>0, EndTypes
    <2>. QED
      BY <1>9, <2>1, Concatenation
  <1>11. EndOK(Peer(e), k, decoder[Peer(e)], chunk[Peer(e)], received[Peer(e)],
               pipe[e], unsent[e] \o more, socket[e], t)
    <2>. DEFINE q == decoder[Peer(e)]
                b == chunk[Peer(e)]
                had == received[Peer(e)]
                l == sent[e]
    <2>1. EndOK(Peer(e), k, q, b, had, pipe[e], unsent[e], socket[e], l)
      BY <1>0 DEF EndIsOK
    <2>2. /\ Len(had) \in Nat /\ Len(l) \in Nat /\ Len(t) \in Nat /\ Len(had) <= Len(l)
          /\ q.data \in ByteStrings /\ b \in ByteStrings /\ pipe[e] \in ByteStrings
      <3>1. Len(had) \in Nat /\ Len(l) \in Nat /\ q.data \in ByteStrings /\ b \in ByteStrings
            /\ pipe[e] \in ByteStrings
        BY <1>0, EndTypes
      <3>2. Len(t) \in Nat
        BY <1>9, LenProperties
      <3>. QED
        BY <2>1, <3>1, <3>2 DEF EndOK
    <2>3. \A y \in ByteStrings : Carries(y, l, Len(had)) => Carries(y \o more, t, Len(had))
      BY <1>9, <2>2
    <2>4. k = "open" => UnderWay(q, b, pipe[e], unsent[e], socket[e], l, Len(had))
      BY <2>1 DEF EndOK
    <2>. HIDE DEF q, b, had, l, k
    <2>5. k = "open" => UnderWay(q, b, pipe[e], unsent[e] \o more, socket[e], t, Len(had))
      BY <1>1, <1>9, <1>10, <2>2, <2>3, <2>4, UnderWaySaid
    <2>6. EndOK(Peer(e), k, q, b, had, pipe[e], unsent[e] \o more, socket[e], t)
      BY <1>9, <2>1, <2>2, <2>5, EndStays DEF l
    <2>. QED
      BY <2>6 DEF q, b, had, k
  <1>12. /\ decoder'[e] = d /\ decoder'[Peer(e)] = decoder[Peer(e)] /\ decoder' \in [Ends -> Decoders]
    <2>1. decoder \in [Ends -> Decoders]
      BY <1>0 DEF StateTypeOK
    <2>. QED
      BY <1>0, <1>1, <1>6, <2>1 DEF At
  <1>13. /\ chunk'[e] = c /\ chunk'[Peer(e)] = chunk[Peer(e)] /\ chunk' \in [Ends -> ByteStrings]
    <2>1. chunk \in [Ends -> ByteStrings]
      BY <1>0 DEF StateTypeOK
    <2>. QED
      BY <1>0, <1>1, <1>2, <2>1 DEF At
  <1>14. /\ received'[e] = new /\ received'[Peer(e)] = received[Peer(e)]
         /\ received' \in [Ends -> Seq({Reading(y) : y \in WireMessage})]
    <2>1. received \in [Ends -> Seq({Reading(y) : y \in WireMessage})]
      BY <1>0 DEF StateTypeOK
    <2>. QED
      BY <1>0, <1>4, <1>5, <2>1 DEF At
  <1>15. /\ sent'[e] = t /\ sent'[Peer(e)] = sent[Peer(e)] /\ sent' \in [Ends -> Seq(WireMessage)]
    <2>1. sent \in [Ends -> Seq(WireMessage)]
      BY <1>0 DEF StateTypeOK
    <2>. QED
      BY <1>0, <1>9, <2>1 DEF At
  <1>16. /\ unsent'[e] = unsent[e] \o more /\ unsent'[Peer(e)] = unsent[Peer(e)]
         /\ unsent' \in [Ends -> ByteStrings]
    <2>1. unsent \in [Ends -> ByteStrings]
      BY <1>0 DEF StateTypeOK
    <2>. QED
      BY <1>0, <1>9, <1>10, <2>1 DEF At
  <1>17. StateTypeOK'
    <2>1. UNCHANGED <<conversation, room, receiveSize, socket, pipe>>
      BY <1>1 DEF chosen
    <2>. QED
      BY <1>0, <1>12, <1>13, <1>14, <1>15, <1>16, <2>1 DEF StateTypeOK
  <1>18. \A y \in Ends : EndIsOK(y)'
    <2>1. UNCHANGED <<socket, pipe>>
      BY <1>1
    <2>2. EndOK(e, socket'[e], decoder'[e], chunk'[e], received'[e],
                pipe'[Peer(e)], unsent'[Peer(e)], socket'[Peer(e)], sent'[Peer(e)])
      BY <1>7, <1>12, <1>13, <1>14, <1>15, <1>16, <2>1
    <2>3. EndOK(Peer(e), socket'[Peer(e)], decoder'[Peer(e)], chunk'[Peer(e)], received'[Peer(e)],
                pipe'[e], unsent'[e], socket'[e], sent'[e])
      BY <1>11, <1>12, <1>13, <1>14, <1>15, <1>16, <2>1
    <2>. QED
      BY <2>2, <2>3, BothEndsNext
  <1>. QED
    BY <1>17, <1>18 DEF StreamInv

\* What Feed does, in its cases.
LEMMA FeedCases ==
    ASSUME StreamInv, NEW e \in Ends, Feed(e)
    PROVE  /\ socket[e] = "open" /\ UNCHANGED chosen
           /\ \E fed \in Pass(decoder[e], chunk[e]) :
                 \/ /\ fed.decoder.error = "ok"
                    /\ decoder' = At(decoder, e, fed.decoder) /\ chunk' = At(chunk, e, fed.rest)
                    /\ UNCHANGED <<socket, sent, unsent, writeWanted, pipe, received>>
                 \/ \E m : Accepts(e, fed, m)
                 \/ \E error \in Errors :
                       /\ decoder' = At(decoder, e, Failed(fed.decoder, error))
                       /\ Close(e) /\ UNCHANGED <<sent, received>>
                       /\ \/ \E m \in Complete(fed.decoder) : error = ThisVerdict(e, m) /\ error # "ok"
                          \/ error = fed.decoder.error /\ error # "ok"
  <1>1. /\ socket[e] = "open" /\ (e = "server" => unsent[e] = <<>>) /\ UNCHANGED chosen
    BY DEF Feed
  <1>2. PICK fed \in Pass(decoder[e], chunk[e]) :
          \/ /\ fed.decoder.error = "ok" /\ ~IsComplete(fed.decoder)
             /\ decoder' = At(decoder, e, fed.decoder)
             /\ chunk' = At(chunk, e, fed.rest)
             /\ UNCHANGED <<socket, sent, unsent, writeWanted, pipe, received>>
          \/ \E m \in Complete(fed.decoder) :
                /\ ThisVerdict(e, m) = "ok"
                /\ decoder' = At(decoder, e, ReadyForNext(fed.decoder))
                /\ chunk' = At(chunk, e, fed.rest)
                /\ received' = At(received, e, Append(received[e], Numbered(
                                     Fields(TypeName(m.header.type), m.payload), m.header.sequence)))
                /\ Answer(e)
                /\ UNCHANGED <<socket, writeWanted, pipe>>
          \/ \E m \in Complete(fed.decoder) :
                /\ ThisVerdict(e, m) # "ok"
                /\ decoder' = At(decoder, e, Failed(fed.decoder, ThisVerdict(e, m)))
                /\ Close(e)
                /\ UNCHANGED <<sent, received>>
          \/ /\ fed.decoder.error # "ok"
             /\ decoder' = At(decoder, e, fed.decoder)
             /\ Close(e)
             /\ UNCHANGED <<sent, received>>
    BY Zenon DEF Feed
  <1>3. CASE /\ fed.decoder.error = "ok" /\ ~IsComplete(fed.decoder)
             /\ decoder' = At(decoder, e, fed.decoder)
             /\ chunk' = At(chunk, e, fed.rest)
             /\ UNCHANGED <<socket, sent, unsent, writeWanted, pipe, received>>
    BY <1>1, <1>3, Zenon
  <1>4. CASE \E m \in Complete(fed.decoder) :
                /\ ThisVerdict(e, m) = "ok"
                /\ decoder' = At(decoder, e, ReadyForNext(fed.decoder))
                /\ chunk' = At(chunk, e, fed.rest)
                /\ received' = At(received, e, Append(received[e], Numbered(
                                     Fields(TypeName(m.header.type), m.payload), m.header.sequence)))
                /\ Answer(e)
                /\ UNCHANGED <<socket, writeWanted, pipe>>
    <2>1. PICK m \in Complete(fed.decoder) :
                /\ ThisVerdict(e, m) = "ok"
                /\ decoder' = At(decoder, e, ReadyForNext(fed.decoder))
                /\ chunk' = At(chunk, e, fed.rest)
                /\ received' = At(received, e, Append(received[e], Numbered(
                                     Fields(TypeName(m.header.type), m.payload), m.header.sequence)))
                /\ Answer(e)
                /\ UNCHANGED <<socket, writeWanted, pipe>>
      BY <1>4
    <2>2. Accepts(e, fed, m)
      BY <1>1, <2>1 DEF Accepts
    <2>. QED
      BY <1>1, <2>2, Zenon
  <1>5. CASE \E m \in Complete(fed.decoder) :
                /\ ThisVerdict(e, m) # "ok"
                /\ decoder' = At(decoder, e, Failed(fed.decoder, ThisVerdict(e, m)))
                /\ Close(e)
                /\ UNCHANGED <<sent, received>>
    <2>1. PICK m \in Complete(fed.decoder) :
                /\ ThisVerdict(e, m) # "ok"
                /\ decoder' = At(decoder, e, Failed(fed.decoder, ThisVerdict(e, m)))
                /\ Close(e)
                /\ UNCHANGED <<sent, received>>
      BY <1>5
    <2>2. ThisVerdict(e, m) \in Errors
      BY VerdictIsAnError DEF ThisVerdict
    <2>. QED
      BY <1>1, <2>1, <2>2, Zenon
  <1>6. CASE /\ fed.decoder.error # "ok"
             /\ decoder' = At(decoder, e, fed.decoder)
             /\ Close(e)
             /\ UNCHANGED <<sent, received>>
    <2>1. fed.decoder \in Decoders
      BY <1>1, FedAtEnd
    <2>2. fed.decoder.error \in Errors /\ fed.decoder = Failed(fed.decoder, fed.decoder.error)
      BY <2>1 DEF Decoders, Failed
    <2>. QED
      BY <1>1, <1>6, <2>2, Zenon
  <1>. QED
    BY <1>2, <1>3, <1>4, <1>5, <1>6

\* One pass of cw_decoder_feed.
LEMMA FeedKeeps ==
    ASSUME StreamInv, NEW e \in Ends, Feed(e)
    PROVE  StreamInv'
  <1>1. /\ socket[e] = "open" /\ UNCHANGED chosen
        /\ \E fed \in Pass(decoder[e], chunk[e]) :
              \/ /\ fed.decoder.error = "ok"
                 /\ decoder' = At(decoder, e, fed.decoder) /\ chunk' = At(chunk, e, fed.rest)
                 /\ UNCHANGED <<socket, sent, unsent, writeWanted, pipe, received>>
              \/ \E m : Accepts(e, fed, m)
              \/ \E error \in Errors :
                    /\ decoder' = At(decoder, e, Failed(fed.decoder, error))
                    /\ Close(e) /\ UNCHANGED <<sent, received>>
                    /\ \/ \E m \in Complete(fed.decoder) : error = ThisVerdict(e, m) /\ error # "ok"
                       \/ error = fed.decoder.error /\ error # "ok"
    BY FeedCases
  <1>2. PICK fed \in Pass(decoder[e], chunk[e]) :
              \/ /\ fed.decoder.error = "ok"
                 /\ decoder' = At(decoder, e, fed.decoder) /\ chunk' = At(chunk, e, fed.rest)
                 /\ UNCHANGED <<socket, sent, unsent, writeWanted, pipe, received>>
              \/ \E m : Accepts(e, fed, m)
              \/ \E error \in Errors :
                    /\ decoder' = At(decoder, e, Failed(fed.decoder, error))
                    /\ Close(e) /\ UNCHANGED <<sent, received>>
                    /\ \/ \E m \in Complete(fed.decoder) : error = ThisVerdict(e, m) /\ error # "ok"
                       \/ error = fed.decoder.error /\ error # "ok"
    BY <1>1
  <1>3. CASE /\ fed.decoder.error = "ok"
             /\ decoder' = At(decoder, e, fed.decoder) /\ chunk' = At(chunk, e, fed.rest)
             /\ UNCHANGED <<socket, sent, unsent, writeWanted, pipe, received>>
    BY <1>1, <1>3, GatherKeeps
  <1>4. CASE \E m : Accepts(e, fed, m)
    BY <1>4, AcceptKeeps
  <1>5. CASE \E error \in Errors :
                /\ decoder' = At(decoder, e, Failed(fed.decoder, error))
                /\ Close(e) /\ UNCHANGED <<sent, received>>
                /\ \/ \E m \in Complete(fed.decoder) : error = ThisVerdict(e, m) /\ error # "ok"
                   \/ error = fed.decoder.error /\ error # "ok"
    BY <1>1, <1>5, RefuseKeeps
  <1>. QED
    BY <1>2, <1>3, <1>4, <1>5

\* What a step can be.
LEMMA StepCases ==
    ASSUME Next
    PROVE  \/ \E e \in Ends : Receive(e) \/ Feed(e) \/ PeerEnded(e) \/ Goes(e)
           \/ AgentIsWritable \/ ServerSends \/ SendFails \/ AgentSays
  BY Zenon DEF Next, AgentStep, ServerStep, EndStep, Ends

\* Every step keeps the invariant.
LEMMA StepKeepsInv == StreamInv /\ [Next]_vars => StreamInv'
  <1>. SUFFICES ASSUME StreamInv, [Next]_vars PROVE StreamInv'
    OBVIOUS
  <1>1. CASE Next
    BY <1>1, StepCases, ReceiveKeeps, FeedKeeps, PeerEndedKeeps, GoesKeeps,
       AgentIsWritableKeeps, ServerSendsKeeps, SendFailsKeeps, AgentSaysKeeps
  <1>2. CASE UNCHANGED vars
    BY <1>2 DEF vars, chosen, StreamInv, StateTypeOK, EndIsOK
  <1>. QED
    BY <1>1, <1>2

\* However the stream is cut and whoever goes when, an end refuses exactly the
\* first message it has no use for, for the reason that message gives, and
\* misses the end of the stream only behind a whole message: cw_decoder_feed
\* and cw_decoder_finish, at both ends.
THEOREM ErrorsAreEarnedHolds == Spec => []ErrorsAreEarned
  <1>. QED
    BY InitMeansInv, StepKeepsInv, InvMeansEarned, PTL DEF Spec

-----------------------------------------------------------------------------
(* Each direction is a channel.                                            *)

\* What is handled of a message is what was said.
LEMMA HandledIsRead ==
    ASSUME NEW e \in Ends, NEW x \in WireMessage, NEW n,
           OpinionOf(e, n, x) = "ok"
    PROVE  Reading(x) = x
  <1>. DEFINE l == [header |-> WireHeader(x), payload |-> WirePayload(x)]
              m == Encoded(x.message)
              h == WireHeader(x)
              p == WirePayload(x)
  <1>1. HeaderError(h) = "ok" /\ Verdict(e, n, l) = "ok"
    <2>1. HeaderError(h) = "ok"
      BY DEF OpinionOf
    <2>. QED
      BY <2>1 DEF OpinionOf
  <1>2. l.header = h /\ l.payload = p
    OBVIOUS
  <1>. HIDE DEF l
  <1>3. IsValid(h.type, p) /\ IsKnown(h.type)
    <2>1. IsValid(h.type, p)
      BY <1>1, <1>2 DEF Verdict
    <2>2. HasHandler(e, n, l)
      BY <1>1, <1>2 DEF Verdict
    <2>. QED
      BY <1>2, <2>1, <2>2 DEF HasHandler
  <1>4. /\ h.type = m.header.type /\ HeaderError(h) = HeaderError(m.header) /\ p = m.payload
    BY WireBytes DEF WirePayload
  <1>5. x.message \in Sayable /\ x = [sequence |-> x.sequence, message |-> x.message]
    BY DEF WireMessage
  <1>6. Fields(TypeName(m.header.type), m.payload) = x.message
    BY <1>1, <1>3, <1>4, <1>5, PayloadsAreReadBack
  <1>. QED
    BY <1>4, <1>5, <1>6 DEF Reading, Numbered

\* One direction in one step: more is sent, or the next message is delivered.
GrowsTo(s, t) == Len(s) <= Len(t) /\ \A i \in 1 .. Len(s) : t[i] = s[i]
ChannelStep(s, t, got, new) ==
    \/ GrowsTo(s, t) /\ new = got
    \/ t = s /\ Len(got) < Len(s) /\ new = Append(got, s[Len(got) + 1])

\* A step that neither says nor handles anything.
LEMMA NothingIsAStep ==
    ASSUME StateTypeOK, NEW e \in Ends, UNCHANGED <<sent, received>>
    PROVE  ChannelStep(sent[Peer(e)], sent'[Peer(e)], received[e], received'[e])
  <1>1. Len(sent[Peer(e)]) \in Nat
    BY EndTypes, PeerIsTheOther
  <1>. QED
    BY <1>1 DEF ChannelStep, GrowsTo

\* A message that is handled is delivered to one end, and its answers are sent by it.
LEMMA AcceptIsAStep ==
    ASSUME StreamInv, NEW e \in Ends, NEW fed \in Pass(decoder[e], chunk[e]), NEW m, Accepts(e, fed, m),
           NEW y \in Ends
    PROVE  ChannelStep(sent[Peer(y)], sent'[Peer(y)], received[y], received'[y])
  <1>. DEFINE s == sent[Peer(e)]
              got == received[e]
              r == Len(got)
              x == s[r + 1]
  <1>0. StateTypeOK /\ Peer(Peer(e)) = e /\ Peer(e) # e /\ Peer(e) \in Ends
    BY PeerIsTheOther DEF StreamInv
  <1>1. /\ socket[e] = "open" /\ (e = "server" => unsent[e] = <<>>)
        /\ m \in Complete(fed.decoder) /\ ThisVerdict(e, m) = "ok"
        /\ received' = At(received, e, Append(got, Numbered(
                             Fields(TypeName(m.header.type), m.payload), m.header.sequence)))
        /\ Answer(e)
    BY DEF Accepts
  <1>2. /\ r < Len(s) /\ x \in WireMessage
        /\ m.header = WireHeader(x) /\ m.payload = WirePayload(x)
        /\ OpinionOf(e, r + 1, x) = "ok"
    BY <1>1, FedAtEnd
  <1>3. received' = At(received, e, Append(got, x))
    <2>1. m.header.sequence = x.sequence
      BY <1>2, WireBytes
    <2>2. Numbered(Fields(TypeName(m.header.type), m.payload), m.header.sequence) = Reading(x)
      BY <1>2, <2>1 DEF Reading
    <2>3. Reading(x) = x
      BY <1>2, HandledIsRead
    <2>. QED
      BY <1>1, <2>2, <2>3
  <1>4. PICK t \in Seq(WireMessage), more \in ByteStrings : GoesOn(e, t, more)
    BY <1>0, <1>1, AnswerGrows
  <1>5. sent' = At(sent, e, t) /\ Len(t) >= Len(sent[e]) /\ \A i \in 1 .. Len(sent[e]) : t[i] = sent[e][i]
    BY <1>4 DEF GoesOn
  <1>6. /\ received'[e] = Append(got, x) /\ received'[Peer(e)] = received[Peer(e)]
        /\ sent'[e] = t /\ sent'[Peer(e)] = s
    <2>1. DOMAIN received = Ends /\ DOMAIN sent = Ends
      BY <1>0 DEF StateTypeOK
    <2>. HIDE DEF got, x
    <2>. QED
      BY <1>0, <1>3, <1>5, <2>1 DEF At
  <1>7. ChannelStep(s, sent'[Peer(e)], got, received'[e])
    BY <1>2, <1>6 DEF ChannelStep
  <1>8. Len(sent[e]) \in Nat /\ Len(t) \in Nat
    BY <1>0, <1>4, EndTypes, LenProperties
  <1>9. ChannelStep(sent[e], sent'[e], received[Peer(e)], received'[Peer(e)])
    BY <1>5, <1>6, <1>8 DEF ChannelStep, GrowsTo
  <1>10. y = e \/ y = Peer(e)
    BY PeerIsTheOther
  <1>. QED
    BY <1>0, <1>7, <1>9, <1>10

\* What the agent says is sent by it.
LEMMA AgentSaysIsAStep ==
    ASSUME StateTypeOK, AgentSays, NEW e \in Ends
    PROVE  ChannelStep(sent[Peer(e)], sent'[Peer(e)], received[e], received'[e])
  <1>. DEFINE s == sent["agent"]
              x == Numbered(conversation.agent[Len(s) + 1], WireSequence(Len(s) + 1))
  <1>1. sent' = At(sent, "agent", Append(s, x)) /\ received' = received
    BY DEF AgentSays
  <1>. HIDE DEF x
  <1>2. DOMAIN sent = Ends /\ s \in Seq(WireMessage) /\ Len(s) \in Nat
    BY EndTypes DEF StateTypeOK, Ends
  <1>3. Len(Append(s, x)) = Len(s) + 1 /\ \A i \in 1 .. Len(s) : Append(s, x)[i] = s[i]
    <2>1. s \in Seq(WireMessage) /\ x \in WireMessage
      BY <1>2, AgentSaysAMessage DEF x
    <2>. HIDE DEF s
    <2>. QED
      BY <2>1, AppendProperties
  <1>4. GrowsTo(s, Append(s, x))
    BY <1>2, <1>3 DEF GrowsTo
  <1>5. GrowsTo(sent["server"], sent["server"])
    <2>1. Len(sent["server"]) \in Nat
      BY EndTypes DEF Ends
    <2>. QED
      BY <2>1 DEF GrowsTo
  <1>6. sent'["agent"] = Append(s, x) /\ sent'["server"] = sent["server"]
    BY <1>1, <1>2 DEF At, Ends
  <1>7. Peer(e) = "agent" \/ Peer(e) = "server"
    BY DEF Peer
  <1>. QED
    BY <1>1, <1>4, <1>5, <1>6, <1>7 DEF ChannelStep

\* Each step of the connection is one of each direction.
LEMMA StepIsAChannelStep ==
    ASSUME StreamInv, [Next]_vars, NEW e \in Ends
    PROVE  ChannelStep(sent[Peer(e)], sent'[Peer(e)], received[e], received'[e])
  <1>0. StateTypeOK
    BY DEF StreamInv
  <1>1. CASE UNCHANGED <<sent, received>>
    BY <1>0, <1>1, NothingIsAStep
  <1>2. CASE UNCHANGED vars
    BY <1>1, <1>2 DEF vars
  <1>3. CASE AgentSays
    BY <1>0, <1>3, AgentSaysIsAStep
  <1>4. CASE \E x \in Ends : Feed(x)
    <2>1. PICK x \in Ends : Feed(x)
      BY <1>4
    <2>2. \/ \E fed \in Pass(decoder[x], chunk[x]) : \E m : Accepts(x, fed, m)
          \/ UNCHANGED <<sent, received>>
      BY <2>1, FeedCases
    <2>. QED
      BY <1>1, <2>2, AcceptIsAStep
  <1>5. CASE \/ \E x \in Ends : Receive(x) \/ PeerEnded(x) \/ Goes(x)
             \/ AgentIsWritable \/ ServerSends \/ SendFails
    <2>1. UNCHANGED <<sent, received>>
      BY <1>5 DEF Receive, PeerEnded, Goes, AgentIsWritable, ServerSends, SendFails
    <2>. QED
      BY <1>1, <2>1
  <1>. QED
    BY <1>2, <1>3, <1>4, <1>5, StepCases

\* To the channel, growth is to send.
LEMMA ToServerStep ==
    ASSUME StreamInv, StreamInv',
           ChannelStep(sent["agent"], sent'["agent"], received["server"], received'["server"])
    PROVE  [ToServer!Send \/ ToServer!Deliver]_<<sent["agent"], received["server"]>>
  <1>. DEFINE s == sent["agent"]
              t == sent'["agent"]
  <1>1. s \in Seq(WireMessage) /\ t \in Seq(WireMessage)
    BY DEF StreamInv, StateTypeOK, Ends
  <1>2. CASE GrowsTo(s, t) /\ received'["server"] = received["server"]
    BY <1>1, <1>2 DEF ToServer!Send, ToServer!IsStrictPrefix, ToServer!IsPrefix, GrowsTo
  <1>3. CASE ~(GrowsTo(s, t) /\ received'["server"] = received["server"])
    BY <1>1, <1>3 DEF ToServer!Deliver, ChannelStep
  <1>. QED
    BY <1>2, <1>3

\* The same, the other way.
LEMMA ToAgentStep ==
    ASSUME StreamInv, StreamInv',
           ChannelStep(sent["server"], sent'["server"], received["agent"], received'["agent"])
    PROVE  [ToAgent!Send \/ ToAgent!Deliver]_<<sent["server"], received["agent"]>>
  <1>. DEFINE s == sent["server"]
              t == sent'["server"]
  <1>1. s \in Seq(WireMessage) /\ t \in Seq(WireMessage)
    BY DEF StreamInv, StateTypeOK, Ends
  <1>2. CASE GrowsTo(s, t) /\ received'["agent"] = received["agent"]
    BY <1>1, <1>2 DEF ToAgent!Send, ToAgent!IsStrictPrefix, ToAgent!IsPrefix, GrowsTo
  <1>3. CASE ~(GrowsTo(s, t) /\ received'["agent"] = received["agent"])
    BY <1>1, <1>3 DEF ToAgent!Deliver, ChannelStep
  <1>. QED
    BY <1>2, <1>3

\* However the stream is cut and whoever goes when, each direction of the
\* connection implements the channel: an end handles what the other sent, field
\* by field, whole, once and in order, and nothing else - recv, cw_decoder_feed
\* and the handlers of one end, queue_message and send_all of the other.
THEOREM StreamsAreChannelsHolds == Spec => StreamsAreChannels
  <1>1. Init => ToServer!Init /\ ToAgent!Init
    BY DEF Init, ToServer!Init, ToAgent!Init, Ends
  <1>2. StreamInv /\ StreamInv' /\ [Next]_vars =>
          /\ [ToServer!Send \/ ToServer!Deliver]_<<sent["agent"], received["server"]>>
          /\ [ToAgent!Send \/ ToAgent!Deliver]_<<sent["server"], received["agent"]>>
    <2>. SUFFICES ASSUME StreamInv, StreamInv', [Next]_vars
                  PROVE  /\ [ToServer!Send \/ ToServer!Deliver]_<<sent["agent"], received["server"]>>
                         /\ [ToAgent!Send \/ ToAgent!Deliver]_<<sent["server"], received["agent"]>>
      OBVIOUS
    <2>1. /\ "agent" \in Ends /\ "server" \in Ends
          /\ Peer("agent") = "server" /\ Peer("server") = "agent"
      BY DEF Ends, Peer
    <2>2. ChannelStep(sent["agent"], sent'["agent"], received["server"], received'["server"])
      BY <2>1, StepIsAChannelStep
    <2>3. ChannelStep(sent["server"], sent'["server"], received["agent"], received'["agent"])
      BY <2>1, StepIsAChannelStep
    <2>. QED
      BY <2>2, <2>3, ToServerStep, ToAgentStep
  <1>. QED
    BY <1>1, <1>2, InitMeansInv, StepKeepsInv, PTL DEF Spec, StreamsAreChannels, ToServer!Spec, ToAgent!Spec
=============================================================================
