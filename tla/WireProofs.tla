----------------------------- MODULE WireProofs -----------------------------
(***************************************************************************)
(* Lemmas about buffers: what a slice of a buffer is, what a concatenation *)
(* puts where, and what the framing of an attribute looks like to the      *)
(* iterator that reads it back.                                            *)
(***************************************************************************)
EXTENDS NetlinkCore, SequenceTheorems, TLAPS

LEMMA ByteIs == \A x : x \in Byte <=> x \in Int /\ 0 <= x /\ x <= 255
BY DEF Byte

(* Buffer b has t at offset off.                                           *)
Holds(b, off, t) ==
  /\ off + Len(t) <= Len(b)
  /\ \A i \in 1 .. Len(t) : b[off + i] = t[i]

-----------------------------------------------------------------------------
(* A slice within a buffer has the length asked for and the bytes there.   *)
LEMMA SliceFacts ==
  ASSUME NEW S, NEW b \in Seq(S), NEW off \in Nat, NEW n \in Nat,
         off + n <= Len(b)
  PROVE  /\ Slice(b, off, n) \in Seq(S)
         /\ Len(Slice(b, off, n)) = n
         /\ \A i \in 1 .. n : Slice(b, off, n)[i] = b[off + i]
<1>1. \A i \in off + 1 .. off + n : b[i] \in S
  BY ElementOfSeq
<1>2. /\ Slice(b, off, n) \in Seq(S)
      /\ Len(Slice(b, off, n)) = IF off + 1 <= off + n THEN off + n - (off + 1) + 1 ELSE 0
      /\ \A i \in 1 .. off + n - (off + 1) + 1 : Slice(b, off, n)[i] = b[off + 1 + i - 1]
  BY <1>1, SubSeqProperties, off + 1 \in Int, off + n \in Int DEF Slice
<1> QED
  BY <1>2

LEMMA SliceBytes ==
  ASSUME NEW b \in Seq(Byte), NEW off \in Nat, NEW n \in Nat,
         off + n <= Len(b)
  PROVE  Slice(b, off, n) \in Bytes(n)
BY SliceFacts DEF Bytes

(* What a buffer has at an offset is what its slice there is.              *)
LEMMA HoldsSlice ==
  ASSUME NEW S, NEW b \in Seq(S), NEW off \in Nat, NEW t \in Seq(S),
         Holds(b, off, t)
  PROVE  Slice(b, off, Len(t)) = t
<1>1. Len(t) \in Nat /\ off + Len(t) <= Len(b)
  BY DEF Holds
<1>2. /\ Slice(b, off, Len(t)) \in Seq(S)
      /\ Len(Slice(b, off, Len(t))) = Len(t)
      /\ \A i \in 1 .. Len(t) : Slice(b, off, Len(t))[i] = b[off + i]
  BY <1>1, SliceFacts
<1>3. \A i \in 1 .. Len(t) : Slice(b, off, Len(t))[i] = t[i]
  BY <1>2 DEF Holds
<1> QED
  BY <1>2, <1>3, SeqEqual

LEMMA HoldsItself ==
  ASSUME NEW S, NEW b \in Seq(S)
  PROVE  Holds(b, 0, b)
BY LenProperties DEF Holds

LEMMA ConcatLen ==
  ASSUME NEW S, NEW s \in Seq(S), NEW t \in Seq(S)
  PROVE  /\ s \o t \in Seq(S)
         /\ Len(s \o t) = Len(s) + Len(t)
         /\ Len(s) \in Nat /\ Len(t) \in Nat
BY ConcatProperties

(* A buffer has a concatenation where it has its parts one after another.  *)
LEMMA HoldsConcat ==
  ASSUME NEW S, NEW b, NEW off \in Nat, NEW s \in Seq(S), NEW t \in Seq(S),
         Len(b) \in Nat, Holds(b, off, s \o t)
  PROVE  Holds(b, off, s) /\ Holds(b, off + Len(s), t)
<1>1. /\ Len(s) \in Nat /\ Len(t) \in Nat
      /\ Len(s \o t) = Len(s) + Len(t)
      /\ \A i \in 1 .. Len(s) + Len(t) : (s \o t)[i] = IF i <= Len(s) THEN s[i] ELSE t[i - Len(s)]
  BY ConcatProperties, LenProperties
<1>2. Holds(b, off, s)
  <2>1. off + Len(s) <= Len(b)
    BY <1>1 DEF Holds
  <2>2. ASSUME NEW i \in 1 .. Len(s) PROVE b[off + i] = s[i]
    <3>1. i \in 1 .. Len(s) + Len(t) /\ i <= Len(s)
      BY <1>1
    <3> QED
      BY <3>1, <1>1 DEF Holds
  <2> QED
    BY <2>1, <2>2 DEF Holds
<1>3. Holds(b, off + Len(s), t)
  <2>1. (off + Len(s)) + Len(t) <= Len(b)
    BY <1>1 DEF Holds
  <2>2. ASSUME NEW i \in 1 .. Len(t) PROVE b[(off + Len(s)) + i] = t[i]
    <3>1. /\ Len(s) + i \in 1 .. Len(s) + Len(t) /\ ~(Len(s) + i <= Len(s))
          /\ (off + Len(s)) + i = off + (Len(s) + i) /\ (Len(s) + i) - Len(s) = i
      BY <1>1
    <3>2. b[off + (Len(s) + i)] = (s \o t)[Len(s) + i]
      BY <3>1, <1>1 DEF Holds
    <3>3. (s \o t)[Len(s) + i] = t[(Len(s) + i) - Len(s)]
      BY <3>1, <1>1
    <3> QED
      BY <3>1, <3>2, <3>3
  <2> QED
    BY <2>1, <2>2 DEF Holds
<1> QED
  BY <1>2, <1>3

LEMMA BytesConcat ==
  ASSUME NEW m \in Nat, NEW n \in Nat, NEW s \in Bytes(m), NEW t \in Bytes(n)
  PROVE  s \o t \in Bytes(m + n)
BY ConcatProperties DEF Bytes

LEMMA ZerosBytes ==
  ASSUME NEW n \in Nat
  PROVE  Zeros(n) \in Bytes(n)
BY ByteIs DEF Zeros, Bytes

(* The same for parts whose lengths are known.                             *)
LEMMA HoldsParts ==
  ASSUME NEW b \in Seq(Byte), NEW off \in Nat, NEW m \in Nat, NEW n \in Nat,
         NEW s \in Bytes(m), NEW t \in Bytes(n), Holds(b, off, s \o t)
  PROVE  Holds(b, off, s) /\ Holds(b, off + m, t)
<1>1. s \in Seq(Byte) /\ t \in Seq(Byte) /\ Len(s) = m /\ Len(b) \in Nat
  BY DEF Bytes
<1>2. Holds(b, off, s) /\ Holds(b, off + Len(s), t)
  BY <1>1, HoldsConcat
<1> QED
  BY <1>1, <1>2

LEMMA HoldsBytes ==
  ASSUME NEW b \in Seq(Byte), NEW off \in Nat, NEW n \in Nat, NEW t \in Bytes(n),
         Holds(b, off, t)
  PROVE  Slice(b, off, n) = t
<1>1. t \in Seq(Byte) /\ Len(t) = n
  BY DEF Bytes
<1>2. Slice(b, off, Len(t)) = t
  BY <1>1, HoldsSlice
<1> QED
  BY <1>1, <1>2

(* A slice of a slice.                                                     *)
LEMMA HoldsWithin ==
  ASSUME NEW b \in Seq(Byte), NEW off \in Nat, NEW n \in Nat, off + n <= Len(b),
         NEW at \in Nat, NEW t \in Seq(Byte), Holds(Slice(b, off, n), at, t)
  PROVE  Holds(b, off + at, t)
<1> DEFINE s == Slice(b, off, n)
<1>1. s \in Seq(Byte) /\ Len(s) = n /\ \A i \in 1 .. n : s[i] = b[off + i]
  BY SliceFacts
<1>2. Len(t) \in Nat /\ Len(b) \in Nat
  OBVIOUS
<1> HIDE DEF s
<1>3. at + Len(t) <= n /\ \A i \in 1 .. Len(t) : s[at + i] = t[i]
  BY <1>1 DEF Holds, s
<1>4. (off + at) + Len(t) <= Len(b)
  BY <1>2, <1>3
<1>5. ASSUME NEW i \in 1 .. Len(t) PROVE b[(off + at) + i] = t[i]
  <2>1. at + i \in 1 .. n /\ off + (at + i) = (off + at) + i
    BY <1>2, <1>3
  <2> QED
    BY <2>1, <1>1, <1>3
<1> QED
  BY <1>4, <1>5 DEF Holds

LEMMA SliceJoin ==
  ASSUME NEW b \in Seq(Byte), NEW off \in Nat, NEW m \in Nat, NEW n \in Nat,
         off + (m + n) <= Len(b)
  PROVE  Slice(b, off, m) \o Slice(b, off + m, n) = Slice(b, off, m + n)
<1> DEFINE s == Slice(b, off, m)
           t == Slice(b, off + m, n)
           u == Slice(b, off, m + n)
<1>1. off + m <= Len(b) /\ (off + m) + n <= Len(b) /\ off + m \in Nat /\ m + n \in Nat
  OBVIOUS
<1>2. /\ s \in Seq(Byte) /\ Len(s) = m /\ \A i \in 1 .. m : s[i] = b[off + i]
      /\ t \in Seq(Byte) /\ Len(t) = n /\ \A i \in 1 .. n : t[i] = b[(off + m) + i]
      /\ u \in Seq(Byte) /\ Len(u) = m + n /\ \A i \in 1 .. m + n : u[i] = b[off + i]
  BY <1>1, SliceFacts
<1> HIDE DEF s, t, u
<1>3. /\ s \o t \in Seq(Byte) /\ Len(s \o t) = m + n
      /\ \A i \in 1 .. m + n : (s \o t)[i] = IF i <= m THEN s[i] ELSE t[i - m]
  <2>1. /\ s \o t \in Seq(Byte) /\ Len(s \o t) = Len(s) + Len(t)
        /\ \A i \in 1 .. Len(s) + Len(t) :
             (s \o t)[i] = IF i <= Len(s) THEN s[i] ELSE t[i - Len(s)]
    <3>1. s \in Seq(Byte) /\ t \in Seq(Byte)
      BY <1>2
    <3> QED
      BY <3>1, ConcatProperties
  <2> QED
    BY <2>1, <1>2
<1>4. ASSUME NEW i \in 1 .. m + n PROVE (s \o t)[i] = u[i]
  <2>1. CASE i <= m
    <3>1. i \in 1 .. m
      BY <2>1
    <3> QED
      BY <3>1, <2>1, <1>2, <1>3
  <2>2. CASE ~(i <= m)
    <3>1. i - m \in 1 .. n /\ (off + m) + (i - m) = off + i
      BY <2>2
    <3>2. (s \o t)[i] = t[i - m]
      BY <2>2, <1>3
    <3>3. t[i - m] = b[off + i] /\ u[i] = b[off + i]
      BY <3>1, <1>2
    <3> QED
      BY <3>2, <3>3
  <2> QED
    BY <2>1, <2>2
<1>5. s \o t = u
  BY <1>2, <1>3, <1>4, SeqEqual
<1> QED
  BY <1>5 DEF s, t, u

-----------------------------------------------------------------------------
(* The two bytes of a 16-bit number.                                       *)
LEMMA U16Facts ==
  ASSUME NEW n \in Word16
  PROVE  /\ U16Bytes(n) \in Bytes(2)
         /\ U16Bytes(n)[1] = n % 256 /\ U16Bytes(n)[2] = n \div 256
         /\ U16Bytes(n)[1] + (256 * U16Bytes(n)[2]) = n
<1>1. n % 256 \in Byte /\ n \div 256 \in Byte /\ (n % 256) + (256 * (n \div 256)) = n
  BY ByteIs DEF Word16
<1>2. /\ U16Bytes(n) \in Seq(Byte) /\ Len(U16Bytes(n)) = 2
      /\ U16Bytes(n)[1] = n % 256 /\ U16Bytes(n)[2] = n \div 256
  BY <1>1 DEF U16Bytes
<1> QED
  BY <1>1, <1>2 DEF Bytes

LEMMA U16Sum ==
  ASSUME NEW x \in Byte, NEW y \in Byte
  PROVE  x + (256 * y) \in Word16
BY ByteIs DEF Word16

LEMMA U16Range ==
  ASSUME NEW b \in Seq(Byte), NEW off \in Nat, off + 2 <= Len(b)
  PROVE  U16(b, off) \in Word16
<1>1. b[off + 1] \in Byte /\ b[off + 2] \in Byte
  BY ElementOfSeq
<1> QED
  BY <1>1, U16Sum DEF U16

LEMMA U16Read ==
  ASSUME NEW b, NEW off \in Nat, NEW n \in Word16, Holds(b, off, U16Bytes(n))
  PROVE  U16(b, off) = n
<1>1. Len(U16Bytes(n)) = 2
  BY U16Facts DEF Bytes
<1>2. b[off + 1] = U16Bytes(n)[1] /\ b[off + 2] = U16Bytes(n)[2]
  BY <1>1 DEF Holds
<1> QED
  BY <1>2, U16Facts DEF U16

-----------------------------------------------------------------------------
(* Padding.                                                                *)
LEMMA AlignFacts ==
  ASSUME NEW n \in Nat
  PROVE  /\ AlignTo4(n) \in Nat
         /\ n <= AlignTo4(n) /\ AlignTo4(n) <= n + 3
         /\ AlignTo4(NLA_HEADER_SIZE + n) = NLA_HEADER_SIZE + AlignTo4(n)
BY DEF AlignTo4, NLA_HEADER_SIZE

LEMMA AlignGrows ==
  ASSUME NEW m \in Nat, NEW n \in Nat, m <= n
  PROVE  AlignTo4(m) <= AlignTo4(n)
BY DEF AlignTo4

LEMMA FitsSum ==
  ASSUME NEW n \in Nat, NlaFits(n)
  PROVE  NLA_HEADER_SIZE + n \in Word16 /\ AlignTo4(n) - n \in Nat
<1>1. NLA_HEADER_SIZE + n \in Word16
  BY DEF NlaFits, NLA_HEADER_SIZE, U16_MAX, Word16
<1> QED
  BY <1>1, AlignFacts

LEMMA FitsFacts ==
  ASSUME NEW value \in Seq(Byte), NlaFits(Len(value))
  PROVE  /\ Len(value) \in Nat
         /\ NLA_HEADER_SIZE + Len(value) \in Word16
         /\ AlignTo4(Len(value)) - Len(value) \in Nat
<1>1. Len(value) \in Nat
  OBVIOUS
<1> QED
  BY <1>1, FitsSum

(* An attribute on the wire takes buffer_len() bytes.                      *)
LEMMA NlaBytesFacts ==
  ASSUME NEW type \in Word16, NEW value \in Seq(Byte), NlaFits(Len(value))
  PROVE  /\ NlaBytes(type, value) \in Bytes(NlaBufferLen(Len(value)))
         /\ NlaBufferLen(Len(value)) \in Nat
<1> DEFINE n   == Len(value)
           pad == AlignTo4(n) - n
<1>1. n \in Nat /\ NLA_HEADER_SIZE + n \in Word16 /\ pad \in Nat
  BY FitsFacts
<1>2. /\ U16Bytes(NLA_HEADER_SIZE + n) \in Bytes(2) /\ U16Bytes(type) \in Bytes(2)
      /\ value \in Bytes(n) /\ Zeros(pad) \in Bytes(pad)
  BY <1>1, U16Facts, ZerosBytes DEF Bytes
<1> HIDE DEF n, pad
<1>3. U16Bytes(NLA_HEADER_SIZE + n) \o U16Bytes(type) \in Bytes(2 + 2)
  BY <1>2, BytesConcat
<1>4. U16Bytes(NLA_HEADER_SIZE + n) \o U16Bytes(type) \o value \in Bytes((2 + 2) + n)
  BY <1>1, <1>2, <1>3, BytesConcat, 2 + 2 \in Nat
<1>5. U16Bytes(NLA_HEADER_SIZE + n) \o U16Bytes(type) \o value \o Zeros(pad)
        \in Bytes(((2 + 2) + n) + pad)
  BY <1>1, <1>2, <1>4, BytesConcat, (2 + 2) + n \in Nat
<1>6. ((2 + 2) + n) + pad = NlaBufferLen(n) /\ NlaBufferLen(n) \in Nat
  <2>1. AlignTo4(n) \in Nat
    BY <1>1, AlignFacts
  <2> QED
    BY <1>1, <2>1 DEF NlaBufferLen, NLA_HEADER_SIZE, pad
<1> QED
  BY <1>5, <1>6 DEF NlaBytes, n, pad

(* What the iterator finds where an attribute was emitted: its type, its   *)
(* value, and the way to the next one.                                     *)
LEMMA NlaReadBack ==
  ASSUME NEW b \in Seq(Byte), NEW pos \in Nat,
         NEW type \in Word16, NEW value \in Seq(Byte), NlaFits(Len(value)),
         Holds(b, pos, NlaBytes(type, value))
  PROVE  /\ NlaChecked(b, pos)
         /\ NlaLength(b, pos) = NLA_HEADER_SIZE + Len(value)
         /\ NlaType(b, pos) = type
         /\ NlaValue(b, pos) = value
<1> DEFINE n   == Len(value)
           pad == AlignTo4(n) - n
<1>1. n \in Nat /\ NLA_HEADER_SIZE + n \in Word16 /\ pad \in Nat /\ Len(b) \in Nat
  BY FitsFacts
<1>2. /\ U16Bytes(NLA_HEADER_SIZE + n) \in Seq(Byte) /\ Len(U16Bytes(NLA_HEADER_SIZE + n)) = 2
      /\ U16Bytes(type) \in Seq(Byte) /\ Len(U16Bytes(type)) = 2
      /\ Zeros(pad) \in Seq(Byte)
  BY <1>1, U16Facts, ZerosBytes DEF Bytes
<1> DEFINE h1 == U16Bytes(NLA_HEADER_SIZE + n)
           h2 == U16Bytes(type)
           z  == Zeros(pad)
<1>3. Holds(b, pos, h1 \o h2 \o value \o z)
  BY DEF NlaBytes
<1>4. /\ h1 \in Seq(Byte) /\ h2 \in Seq(Byte) /\ z \in Seq(Byte)
      /\ Len(h1) = 2 /\ Len(h2) = 2
  BY <1>2
<1> HIDE DEF n, pad, h1, h2, z
<1>5. h1 \o h2 \in Seq(Byte) /\ Len(h1 \o h2) = 4
  <2>1. h1 \o h2 \in Seq(Byte) /\ Len(h1 \o h2) = Len(h1) + Len(h2)
    BY <1>4, ConcatLen
  <2> QED
    BY <2>1, <1>4
<1>6. h1 \o h2 \o value \in Seq(Byte)
  BY <1>5, ConcatLen
<1>6b. Holds(b, pos, h1 \o h2 \o value)
  BY <1>1, <1>3, <1>4, <1>6, HoldsConcat
<1>7. Holds(b, pos, h1 \o h2) /\ Holds(b, pos + Len(h1 \o h2), value)
  BY <1>1, <1>4, <1>5, <1>6b, HoldsConcat
<1>8. Holds(b, pos, h1) /\ Holds(b, pos + Len(h1), h2)
  BY <1>1, <1>4, <1>7, HoldsConcat
<1>9. NlaLength(b, pos) = NLA_HEADER_SIZE + n
  BY <1>1, <1>8, U16Read DEF NlaLength, h1
<1>10. NlaType(b, pos) = type
  BY <1>4, <1>8, U16Read, pos + 2 \in Nat DEF NlaType, h2
<1>11. /\ Holds(b, pos + NLA_HEADER_SIZE, value)
       /\ (NLA_HEADER_SIZE + n) - NLA_HEADER_SIZE = n
  BY <1>1, <1>5, <1>7 DEF NLA_HEADER_SIZE
<1>12. NlaValue(b, pos) = value
  <2>1. Slice(b, pos + NLA_HEADER_SIZE, Len(value)) = value
    BY <1>11, HoldsSlice DEF NLA_HEADER_SIZE
  <2> QED
    BY <2>1, <1>9, <1>11 DEF NlaValue, n
<1>13. NlaChecked(b, pos)
  <2>1. pos + NLA_HEADER_SIZE + n <= Len(b)
    BY <1>11 DEF Holds, n
  <2> QED
    BY <2>1, <1>1, <1>9 DEF NlaChecked, NLA_HEADER_SIZE
<1> QED
  BY <1>9, <1>10, <1>12, <1>13 DEF n

LEMMA WithinSum ==
  ASSUME NEW l \in Word16, NEW pos \in Nat, NEW n \in Nat,
         l \in NLA_HEADER_SIZE .. (n - pos)
  PROVE  /\ l >= NLA_HEADER_SIZE
         /\ pos + l <= n
         /\ l - NLA_HEADER_SIZE \in Nat
         /\ (pos + NLA_HEADER_SIZE) + (l - NLA_HEADER_SIZE) <= n
BY DEF NLA_HEADER_SIZE, Word16

(* What the iterator accepts lies within the buffer.                       *)
LEMMA NlaCheckedFacts ==
  ASSUME NEW b \in Seq(Byte), NEW pos \in Nat, NlaChecked(b, pos)
  PROVE  /\ NlaLength(b, pos) \in Word16
         /\ NlaLength(b, pos) >= NLA_HEADER_SIZE
         /\ NlaType(b, pos) \in Word16
         /\ NlaValue(b, pos) \in Seq(Byte)
         /\ Len(NlaValue(b, pos)) = NlaLength(b, pos) - NLA_HEADER_SIZE
         /\ pos + NlaLength(b, pos) <= Len(b)
<1>1. Len(b) \in Nat /\ pos + 2 \in Nat /\ pos + NLA_HEADER_SIZE \in Nat
  BY DEF NLA_HEADER_SIZE
<1>2. pos + 2 <= Len(b) /\ (pos + 2) + 2 <= Len(b)
  BY <1>1 DEF NlaChecked, NLA_HEADER_SIZE
<1>3. NlaLength(b, pos) \in Word16 /\ NlaType(b, pos) \in Word16
  BY <1>1, <1>2, U16Range DEF NlaLength, NlaType
<1> DEFINE l == NlaLength(b, pos)
<1>4. l \in NLA_HEADER_SIZE .. (Len(b) - pos)
  BY DEF NlaChecked
<1>5. /\ l >= NLA_HEADER_SIZE
      /\ pos + l <= Len(b)
      /\ l - NLA_HEADER_SIZE \in Nat
      /\ (pos + NLA_HEADER_SIZE) + (l - NLA_HEADER_SIZE) <= Len(b)
  BY <1>1, <1>3, <1>4, WithinSum
<1>6. NlaValue(b, pos) \in Bytes(l - NLA_HEADER_SIZE)
  BY <1>1, <1>5, SliceBytes DEF NlaValue
<1> QED
  BY <1>3, <1>5, <1>6 DEF Bytes
=============================================================================
