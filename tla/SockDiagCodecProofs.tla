-------------------------- MODULE SockDiagCodecProofs --------------------------
(***************************************************************************)
(* What holds of the codec whatever arrives, whatever a program builds and *)
(* whatever buffer it is emitted into.                                     *)
(***************************************************************************)
EXTENDS NlaProofs, HeaderProofs

Encoding == {"size", "alloc", "emitHead", "emitNlas", "panicked"}

-----------------------------------------------------------------------------
(***************************************************************************)
(* Messages.                                                               *)
(***************************************************************************)
LEMMA VariantSets ==
  /\ Requests \subseteq Variants /\ Responses \subseteq Variants
  /\ \A v \in Variants : v \in Requests <=> v \notin Responses
  /\ "none" \notin Variants
  /\ \A v \in Requests : v \in Readers /\ v \notin MessageTypes
BY DEF Variants, Requests, Responses, Readers, MessageTypes

LEMMA MessageShape ==
  ASSUME NEW m \in Message
  PROVE  /\ m.variant \in Variants
         /\ m.header \in HeaderSet(m.variant)
         /\ m.nlas \in Seq(NlaSet(m.variant))
         /\ m.variant \in Requests => m.nlas = << >>
         /\ m = [variant |-> m.variant, header |-> m.header, nlas |-> m.nlas]
<1>1. << >> \in Seq(InetNla) /\ << >> \in Seq(UnixNla)
  OBVIOUS
<1>2. CASE m \in [variant : {"InetRequest"}, header : InetRequest, nlas : {<< >>}]
  BY <1>1, <1>2 DEF Variants, Requests, Responses, HeaderSet, NlaSet, InetVariants
<1>3. CASE m \in [variant : {"InetResponse"}, header : InetResponseHeader, nlas : Seq(InetNla)]
  BY <1>3 DEF Variants, Requests, Responses, HeaderSet, NlaSet, InetVariants
<1>4. CASE m \in [variant : {"UnixRequest"}, header : UnixRequest, nlas : {<< >>}]
  BY <1>1, <1>4 DEF Variants, Requests, Responses, HeaderSet, NlaSet, InetVariants
<1>5. CASE m \in [variant : {"UnixResponse"}, header : UnixResponseHeader, nlas : Seq(UnixNla)]
  BY <1>5 DEF Variants, Requests, Responses, HeaderSet, NlaSet, InetVariants
<1> QED
  BY <1>2, <1>3, <1>4, <1>5 DEF Message

LEMMA MessageMade ==
  ASSUME NEW variant \in Variants, NEW header \in HeaderSet(variant),
         NEW nlas \in Seq(NlaSet(variant)), variant \in Requests => nlas = << >>
  PROVE  [variant |-> variant, header |-> header, nlas |-> nlas] \in Message
<1>1. CASE variant = "InetRequest"
  BY <1>1 DEF Message, Requests, HeaderSet
<1>2. CASE variant = "InetResponse"
  BY <1>2 DEF Message, HeaderSet, NlaSet, InetVariants
<1>3. CASE variant = "UnixRequest"
  BY <1>3 DEF Message, Requests, HeaderSet
<1>4. CASE variant = "UnixResponse"
  BY <1>4 DEF Message, HeaderSet, NlaSet, InetVariants
<1> QED
  BY <1>1, <1>2, <1>3, <1>4 DEF Variants, Requests, Responses

LEMMA NothingIsNone == Nothing \notin Message /\ Nothing.variant = "none"
<1>1. Nothing.variant = "none"
  BY DEF Nothing
<1> QED
  BY <1>1, MessageShape, VariantSets

(* An attribute of a message.                                              *)
LEMMA NlaOf ==
  ASSUME NEW m \in Message, NEW i \in 1 .. Len(m.nlas)
  PROVE  /\ m.variant \in Responses
         /\ m.nlas[i] \in NlaSet(m.variant)
         /\ Kind(m.variant, m.nlas[i]) \in Word16
         /\ ValueLen(m.variant, m.nlas[i]) \in Nat
         /\ EmitValue(m.variant, m.nlas[i]) \in Seq(Byte)
         /\ Len(EmitValue(m.variant, m.nlas[i])) = ValueLen(m.variant, m.nlas[i])
<1>1. m.nlas # << >> /\ m.nlas \in Seq(NlaSet(m.variant)) /\ m.variant \in Variants
  BY MessageShape
<1>2. m.variant \in Responses
  BY <1>1, MessageShape, VariantSets
<1>3. m.nlas[i] \in NlaSet(m.variant)
  BY <1>1, ElementOfSeq
<1> QED
  BY <1>2, <1>3, NlaFacts

(* Every emitter fills the slice it is given.                              *)
LEMMA ValueSliceIs ==
  ASSUME NEW m \in Message, NEW i \in 1 .. Len(m.nlas)
  PROVE  ValueSlice(m.variant, m.nlas[i]) = EmitValue(m.variant, m.nlas[i])
<1> DEFINE s == EmitValue(m.variant, m.nlas[i])
<1>1. s \in Seq(Byte) /\ Len(s) = ValueLen(m.variant, m.nlas[i]) /\ Len(s) \in Nat
  BY NlaOf
<1>2. ValueSlice(m.variant, m.nlas[i]) = s \o Untouched(Len(s) - Len(s))
  BY <1>1 DEF ValueSlice
<1> HIDE DEF s
<1>3. Len(s) - Len(s) = 0
  BY <1>1
<1>4. Untouched(0) = << >>
  BY DEF Untouched
<1>5. s \o << >> = s
  BY <1>1
<1> QED
  BY <1>2, <1>3, <1>4, <1>5 DEF s

-----------------------------------------------------------------------------
(***************************************************************************)
(* Buffers that are written to.                                            *)
(***************************************************************************)
Cell == Byte \cup {Stale}

LEMMA CellFacts == Stale \notin Byte /\ Seq(Byte) \subseteq Seq(Cell)
<1>1. Stale \notin Byte
  BY ByteIs DEF Stale
<1>2. ASSUME NEW s \in Seq(Byte) PROVE s \in Seq(Cell)
  BY DEF Cell
<1> QED
  BY <1>1, <1>2

LEMMA WriteFacts ==
  ASSUME NEW b \in Seq(Cell), NEW off \in Nat, NEW t \in Seq(Byte),
         off + Len(t) <= Len(b)
  PROVE  /\ Write(b, off, t) \in Seq(Cell)
         /\ Len(Write(b, off, t)) = Len(b)
         /\ Holds(Write(b, off, t), off, t)
         /\ \A i \in 1 .. off : Write(b, off, t)[i] = b[i]
         /\ \A i \in off + Len(t) + 1 .. Len(b) : Write(b, off, t)[i] = b[i]
<1> DEFINE n    == Len(t)
           h    == Slice(b, 0, off)
           left == Len(b) - (off + n)
           rest == Slice(b, off + n, left)
           u    == h \o t
           w    == u \o rest
<1>1. /\ n \in Nat /\ Len(b) \in Nat /\ left \in Nat /\ off + n \in Nat
      /\ 0 + off <= Len(b) /\ off + n <= Len(b)
      /\ (off + n) + left = Len(b) /\ (off + n) + left <= Len(b)
  OBVIOUS
<1>2. t \in Seq(Cell)
  BY CellFacts
<1>3. w = Write(b, off, t)
  BY <1>1 DEF Write, Slice
<1>4. h \in Seq(Cell) /\ Len(h) = off /\ \A i \in 1 .. off : h[i] = b[0 + i]
  <2>1. 0 \in Nat /\ 0 + off <= Len(b)
    BY <1>1
  <2> HIDE DEF n, h, left, rest, u, w
  <2>2. /\ Slice(b, 0, off) \in Seq(Cell) /\ Len(Slice(b, 0, off)) = off
        /\ \A i \in 1 .. off : Slice(b, 0, off)[i] = b[0 + i]
    BY <2>1, SliceFacts
  <2> QED
    BY <2>2 DEF h
<1> HIDE DEF left
<1>5. /\ rest \in Seq(Cell) /\ Len(rest) = left
      /\ \A i \in 1 .. left : rest[i] = b[(off + n) + i]
  <2> DEFINE o == off + n
  <2>1. o \in Nat /\ left \in Nat /\ o + left <= Len(b)
    BY <1>1
  <2> HIDE DEF n, o
  <2>2. /\ Slice(b, o, left) \in Seq(Cell) /\ Len(Slice(b, o, left)) = left
        /\ \A i \in 1 .. left : Slice(b, o, left)[i] = b[o + i]
    BY <2>1, SliceFacts
  <2> QED
    BY <2>2 DEF o
<1> HIDE DEF h, rest
<1>6. /\ u \in Seq(Cell) /\ Len(u) = Len(h) + n
      /\ \A i \in 1 .. Len(h) + n : u[i] = IF i <= Len(h) THEN h[i] ELSE t[i - Len(h)]
  BY <1>2, <1>4, ConcatProperties
<1> HIDE DEF u
<1>7. /\ w \in Seq(Cell) /\ Len(w) = Len(u) + Len(rest)
      /\ \A i \in 1 .. Len(u) + Len(rest) :
           w[i] = IF i <= Len(u) THEN u[i] ELSE rest[i - Len(u)]
  <2>1. u \in Seq(Cell) /\ rest \in Seq(Cell)
    BY <1>5, <1>6
  <2> QED
    BY <2>1, ConcatProperties
<1> HIDE DEF n, w
<1>8. Len(u) = off + n /\ Len(w) = Len(b)
  BY <1>1, <1>4, <1>5, <1>6, <1>7
<1>9. ASSUME NEW i \in 1 .. off + n PROVE w[i] = IF i <= off THEN h[i] ELSE t[i - off]
  <2>1. i \in 1 .. Len(u) + Len(rest) /\ i <= Len(u)
    BY <1>1, <1>5, <1>8
  <2>2. w[i] = u[i]
    BY <2>1, <1>7
  <2> QED
    BY <2>2, <1>4, <1>6
<1>10. ASSUME NEW i \in 1 .. off PROVE w[i] = b[i]
  <2>1. i \in 1 .. off + n /\ i <= off /\ 0 + i = i
    BY <1>1
  <2> QED
    BY <2>1, <1>4, <1>9
<1>11. Holds(w, off, t)
  <2>1. ASSUME NEW i \in 1 .. Len(t) PROVE w[off + i] = t[i]
    <3>1. off + i \in 1 .. off + n /\ ~(off + i <= off) /\ (off + i) - off = i
      BY <1>1 DEF n
    <3> QED
      BY <3>1, <1>9
  <2> QED
    BY <2>1, <1>1, <1>8 DEF Holds, n
<1>12. ASSUME NEW i \in off + n + 1 .. Len(b) PROVE w[i] = b[i]
  <2> DEFINE j == i - (off + n)
  <2>1. j \in 1 .. left /\ (off + n) + j = i /\ i - Len(u) = j
    BY <1>1, <1>8 DEF left
  <2>2. i \in 1 .. Len(u) + Len(rest) /\ ~(i <= Len(u))
    BY <1>1, <1>5, <1>8
  <2> HIDE DEF j
  <2>3. w[i] = rest[j]
    BY <2>1, <2>2, <1>7
  <2> QED
    BY <2>1, <2>3, <1>5
<1> QED
  BY <1>3, <1>7, <1>8, <1>10, <1>11, <1>12 DEF n

(* What was written before stays.                                          *)
LEMMA HoldsStays ==
  ASSUME NEW b \in Seq(Cell), NEW off \in Nat, NEW t \in Seq(Byte),
         off + Len(t) <= Len(b),
         NEW o \in Nat, NEW u \in Seq(Byte), Holds(b, o, u), o + Len(u) <= off
  PROVE  Holds(Write(b, off, t), o, u)
<1> DEFINE w == Write(b, off, t)
<1>1. Len(w) = Len(b) /\ \A i \in 1 .. off : w[i] = b[i]
  BY WriteFacts
<1> HIDE DEF w
<1>2. ASSUME NEW i \in 1 .. Len(u) PROVE w[o + i] = u[i]
  <2>1. o + i \in 1 .. off /\ Len(u) \in Nat
    OBVIOUS
  <2>2. b[o + i] = u[i]
    BY DEF Holds
  <2> QED
    BY <2>1, <2>2, <1>1
<1> QED
  BY <1>1, <1>2 DEF Holds, w

-----------------------------------------------------------------------------
(***************************************************************************)
(* buffer_len(): the running sums.                                         *)
(***************************************************************************)
SumsUpTo(m, e) ==
  /\ Len(e) \in 1 .. Len(m.nlas) + 1
  /\ e[1] = HeaderLen(m.variant)
  /\ \A i \in 1 .. Len(e) - 1 : e[i + 1] = e[i] + NlaBufferLen(ValueLen(m.variant, m.nlas[i]))
  /\ \A i, j \in 1 .. Len(e) : i <= j => e[i] <= e[j]

Sums(m, e) == SumsUpTo(m, e) /\ Len(e) = Len(m.nlas) + 1

LEMMA BufferLenFacts ==
  ASSUME NEW n \in Nat
  PROVE  NlaBufferLen(n) \in Nat /\ NlaBufferLen(n) >= 4
<1>1. AlignTo4(n) \in Nat
  BY AlignFacts
<1> QED
  BY <1>1 DEF NlaBufferLen, NLA_HEADER_SIZE

LEMMA SumsBegin ==
  ASSUME NEW m \in Message
  PROVE  SumsUpTo(m, << HeaderLen(m.variant) >>) /\ << HeaderLen(m.variant) >> \in Seq(Nat)
<1>1. Len(m.nlas) \in Nat /\ HeaderLen(m.variant) \in Nat
  BY MessageShape, HeaderLens
<1> DEFINE h == HeaderLen(m.variant)
           e == << h >>
<1>2. Len(e) = 1 /\ e[1] = h /\ e \in Seq(Nat)
  BY <1>1
<1> HIDE DEF h, e
<1>3. Len(e) \in 1 .. Len(m.nlas) + 1
  BY <1>1, <1>2
<1>4. 1 .. Len(e) - 1 = {} /\ 1 .. Len(e) = {1}
  BY <1>2
<1>5. \A i, j \in 1 .. Len(e) : i <= j => e[i] <= e[j]
  BY <1>1, <1>2, <1>4 DEF h
<1>6. SumsUpTo(m, e)
  BY <1>2, <1>3, <1>4, <1>5 DEF SumsUpTo, h
<1> QED
  BY <1>2, <1>6 DEF h, e

LEMMA SumsStep ==
  ASSUME NEW m \in Message, NEW e \in Seq(Nat), SumsUpTo(m, e), Len(e) <= Len(m.nlas)
  PROVE  LET f == Append(e, e[Len(e)] + NlaBufferLen(ValueLen(m.variant, m.nlas[Len(e)])))
         IN  f \in Seq(Nat) /\ SumsUpTo(m, f)
<1> DEFINE n == Len(e)
           a == NlaBufferLen(ValueLen(m.variant, m.nlas[n]))
           x == e[n] + a
           f == Append(e, x)
<1>1. n \in Nat /\ n >= 1 /\ n \in 1 .. n /\ n \in 1 .. Len(m.nlas) /\ Len(m.nlas) \in Nat
  <2>1. m.nlas \in Seq(NlaSet(m.variant))
    BY MessageShape
  <2>2. n \in Nat /\ n >= 1 /\ Len(m.nlas) \in Nat
    BY <2>1 DEF SumsUpTo
  <2> QED
    BY <2>2
<1>2. a \in Nat /\ a >= 4
  BY <1>1, NlaOf, BufferLenFacts
<1>3. e[n] \in Nat
  BY <1>1, ElementOfSeq
<1> HIDE DEF a
<1>4. x \in Nat /\ x >= e[n]
  BY <1>2, <1>3
<1>5. /\ f \in Seq(Nat) /\ Len(f) = n + 1 /\ f[n + 1] = x
      /\ \A i \in 1 .. n : f[i] = e[i]
  BY <1>4, AppendFacts
<1>6. \A i \in 1 .. n : e[i] \in Nat /\ e[i] <= e[n]
  BY <1>1, ElementOfSeq DEF SumsUpTo
<1> HIDE DEF f, n
<1>7. Len(f) \in 1 .. Len(m.nlas) + 1
  BY <1>1, <1>5
<1>8. f[1] = HeaderLen(m.variant)
  BY <1>1, <1>5 DEF SumsUpTo
<1>9. ASSUME NEW i \in 1 .. Len(f) - 1
      PROVE  f[i + 1] = f[i] + NlaBufferLen(ValueLen(m.variant, m.nlas[i]))
  <2>1. CASE i = n
    BY <2>1, <1>1, <1>5 DEF a
  <2>2. CASE i # n
    <3>1. i \in 1 .. n - 1 /\ i \in 1 .. n /\ i + 1 \in 1 .. n
      BY <2>2, <1>1, <1>5
    <3>2. e[i + 1] = e[i] + NlaBufferLen(ValueLen(m.variant, m.nlas[i]))
      BY <3>1 DEF SumsUpTo, n
    <3> QED
      BY <3>1, <3>2, <1>5
  <2> QED
    BY <2>1, <2>2
<1>10. ASSUME NEW i \in 1 .. Len(f), NEW j \in 1 .. Len(f), i <= j
       PROVE  f[i] <= f[j]
  <2>1. CASE j \in 1 .. n
    <3>1. i \in 1 .. n
      BY <2>1, <1>1, <1>5, <1>10
    <3>2. e[i] <= e[j]
      BY <3>1, <2>1, <1>10 DEF SumsUpTo, n
    <3> QED
      BY <3>1, <3>2, <2>1, <1>5
  <2>2. CASE j \notin 1 .. n
    <3>1. j = n + 1
      BY <2>2, <1>1, <1>5
    <3>2. CASE i = n + 1
      BY <3>1, <3>2, <1>4, <1>5
    <3>3. CASE i # n + 1
      <4>1. i \in 1 .. n
        BY <3>3, <1>1, <1>5
      <4>2. f[i] = e[i] /\ f[j] = x
        BY <4>1, <3>1, <1>5
      <4> QED
        BY <4>1, <4>2, <1>3, <1>4, <1>6
    <3> QED
      BY <3>2, <3>3
  <2> QED
    BY <2>1, <2>2
<1>11. SumsUpTo(m, f)
  BY <1>7, <1>8, <1>9, <1>10 DEF SumsUpTo
<1> QED
  BY <1>5, <1>11 DEF f, n, a

(* Where an attribute of a sized message begins and ends.                  *)
LEMMA SumsFacts ==
  ASSUME NEW m \in Message, NEW e \in Seq(Nat), Sums(m, e)
  PROVE  /\ Len(m.nlas) \in Nat
         /\ e[Len(e)] \in Nat
         /\ e[1] = HeaderLen(m.variant)
         /\ \A i \in 1 .. Len(m.nlas) + 1 : e[i] \in Nat /\ e[i] <= e[Len(e)]
         /\ \A i \in 1 .. Len(m.nlas) :
              /\ e[i] \in Nat /\ e[i + 1] \in Nat
              /\ e[i + 1] = e[i] + NlaBufferLen(ValueLen(m.variant, m.nlas[i]))
              /\ e[i] + 4 <= e[i + 1]
         /\ \A i, j \in 1 .. Len(m.nlas) + 1 : i <= j => e[i] <= e[j]
<1>1. m.nlas \in Seq(NlaSet(m.variant))
  BY MessageShape
<1>2. Len(m.nlas) \in Nat /\ Len(e) = Len(m.nlas) + 1
  BY <1>1 DEF Sums
<1>3. \A i \in 1 .. Len(m.nlas) + 1 : e[i] \in Nat /\ e[i] <= e[Len(e)]
  <2>1. \A i \in 1 .. Len(e) : e[i] \in Nat
    BY ElementOfSeq
  <2>2. \A i \in 1 .. Len(e) : Len(e) \in 1 .. Len(e) /\ i <= Len(e)
    BY <1>2
  <2> QED
    BY <1>2, <2>1, <2>2 DEF Sums, SumsUpTo
<1>4. ASSUME NEW i \in 1 .. Len(m.nlas)
      PROVE  /\ e[i] \in Nat /\ e[i + 1] \in Nat
             /\ e[i + 1] = e[i] + NlaBufferLen(ValueLen(m.variant, m.nlas[i]))
             /\ e[i] + 4 <= e[i + 1]
  <2> DEFINE n == NlaBufferLen(ValueLen(m.variant, m.nlas[i]))
  <2>1. n \in Nat /\ n >= 4
    BY NlaOf, BufferLenFacts
  <2>2. i \in 1 .. Len(e) - 1 /\ i \in 1 .. Len(m.nlas) + 1 /\ i + 1 \in 1 .. Len(m.nlas) + 1
    BY <1>2
  <2>3. e[i + 1] = e[i] + n
    BY <2>2 DEF Sums, SumsUpTo
  <2>4. e[i] \in Nat /\ e[i + 1] \in Nat
    BY <2>2, <1>3
  <2> HIDE DEF n
  <2>5. e[i] + 4 <= e[i + 1]
    BY <2>1, <2>3, <2>4
  <2> QED
    BY <2>3, <2>4, <2>5 DEF n
<1>5. e[1] = HeaderLen(m.variant)
  BY DEF Sums, SumsUpTo
<1>6. e[Len(e)] \in Nat
  BY <1>2, <1>3
<1> QED
  BY <1>2, <1>3, <1>4, <1>5, <1>6 DEF Sums, SumsUpTo

-----------------------------------------------------------------------------
(***************************************************************************)
(* Types.  A message is at hand whenever a step needs one, and the sums of *)
(* buffer_len() are those of the message that is, or was, emitted.         *)
(***************************************************************************)
Phases ==
  /\ pc \in Encoding => msg \in Message /\ sent = Nothing
  /\ pc \in {"nlas", "parsed", "delivered"} => msg \in Message
  /\ pc = "nlas" => msg.variant \in Responses

Sizing ==
  /\ pc = "size" => SumsUpTo(msg, ends)
  /\ pc \in {"alloc", "emitHead", "emitNlas", "panicked"} => Sums(msg, ends)
  /\ sent # Nothing => Sums(sent, ends)

TypeInv == TypeOK /\ Phases /\ Sizing

LEMMA PcFacts ==
  /\ Encoding \subseteq Steps \cup Outcomes
  /\ {"head", "nlas", "parsed", "refused", "delivered"} \subseteq Steps \cup Outcomes
  /\ {"head", "nlas", "parsed", "refused", "delivered"} \cap Encoding = {}
  /\ {"size", "alloc", "emitHead", "emitNlas", "panicked"} = Encoding
BY DEF Steps, Outcomes, Encoding

LEMMA InitTypes == Init => TypeInv
<1> SUFFICES ASSUME Init PROVE TypeInv
  OBVIOUS
<1>1. pos = 0 /\ buf = << >> /\ k = 0 /\ sent = Nothing /\ buf \in Seq(Cell)
  BY DEF Init
<1>2. CASE Arrive
  <2>1. PICK p \in Payloads : /\ reader = p.reader /\ type = p.type
                              /\ wire = p.bytes /\ spans = p.spans
                              /\ msg = Nothing /\ ends = << >> /\ pc = "head"
    BY <1>2 DEF Arrive
  <2>2. /\ reader \in Readers /\ type \in Nat /\ wire \in Seq(Byte) /\ spans \in Seq(Span)
        /\ ends \in Seq(Nat)
    BY <2>1, CodecAssumption
  <2>3. TypeOK
    BY <1>1, <2>1, <2>2, PcFacts DEF TypeOK, Cell
  <2>4. Phases /\ Sizing
    BY <1>1, <2>1 DEF Phases, Sizing, Encoding
  <2> QED
    BY <2>3, <2>4 DEF TypeInv
<1>3. CASE Build
  <2>1. PICK m \in Messages : /\ reader = m.reader /\ type = 0
                              /\ wire = << >> /\ spans = << >> /\ msg = m.msg
                              /\ ends = << HeaderLen(m.msg.variant) >> /\ pc = "size"
    BY <1>3 DEF Build
  <2>2. msg \in Message /\ reader \in MessageTypes \cup ({msg.variant} \cap Requests)
    BY <2>1, CodecAssumption
  <2>3. reader \in Readers
    BY <2>2 DEF Readers
  <2>4. SumsUpTo(msg, ends) /\ ends \in Seq(Nat)
    BY <2>1, <2>2, SumsBegin
  <2>5. wire \in Seq(Byte) /\ spans \in Seq(Span) /\ type \in Nat /\ pos \in Nat /\ k \in Nat
    BY <1>1, <2>1
  <2>6. TypeOK
    BY <1>1, <2>1, <2>2, <2>3, <2>4, <2>5, PcFacts DEF TypeOK, Cell, Encoding
  <2>7. Phases /\ Sizing
    BY <1>1, <2>1, <2>2, <2>4 DEF Phases, Sizing
  <2> QED
    BY <2>6, <2>7 DEF TypeInv
<1> QED
  BY <1>2, <1>3 DEF Init

(* An attribute that can be written, but for the longest of names.         *)
Fitting(variant, a) == NlaFits(ValueLen(variant, a)) <=> ~FullName(a)

(* What a step of the attribute loop is about.                             *)
LEMMA NlaHereFacts ==
  ASSUME TypeInv, pc = "nlas", NlaOk
  PROVE  /\ msg \in Message /\ msg.variant \in Responses
         /\ NlaHere.val \in NlaSet(msg.variant)
         /\ NlaSurvives(msg.variant, NlaHere.val)
         /\ Fitting(msg.variant, NlaHere.val)
         /\ NextNla(wire, pos) \in Nat
         /\ pos + 4 <= NextNla(wire, pos)
         /\ NextNla(wire, pos) <= Len(wire) + 3
<1>1. wire \in Seq(Byte) /\ pos \in Nat /\ msg \in Message /\ msg.variant \in Responses
  BY DEF TypeInv, TypeOK, Phases
<1>2. /\ NlaType(wire, pos) \in Word16 /\ NlaValue(wire, pos) \in Seq(Byte)
      /\ NlaLength(wire, pos) \in Word16 /\ NlaLength(wire, pos) >= 4
      /\ pos + NlaLength(wire, pos) <= Len(wire)
  BY <1>1, NlaCheckedFacts DEF NlaOk, NLA_HEADER_SIZE
<1>3. NlaHere.ok
  BY DEF NlaOk
<1>4. NlaHere.val \in NlaSet(msg.variant) /\ NlaSurvives(msg.variant, NlaHere.val)
  BY <1>1, <1>2, <1>3, NlaTyped DEF NlaHere
<1> DEFINE l == NlaLength(wire, pos)
<1>5. /\ l \in Nat /\ l >= 4 /\ l <= 65535 /\ pos + l <= Len(wire) /\ Len(wire) \in Nat
  BY <1>1, <1>2 DEF Word16
<1>6. NextNla(wire, pos) = pos + AlignTo4(l)
  BY DEF NextNla
<1>9. Len(NlaValue(wire, pos)) = l - 4
  BY <1>1, NlaCheckedFacts DEF NlaOk, NLA_HEADER_SIZE
<1> HIDE DEF l
<1>10. Len(NlaValue(wire, pos)) <= 65531
  BY <1>5, <1>9
<1>11. Fitting(msg.variant, NlaHere.val)
  BY <1>1, <1>2, <1>3, <1>10, ParsedFits DEF NlaHere, Fitting
<1>7. AlignTo4(l) \in Nat /\ l <= AlignTo4(l) /\ AlignTo4(l) <= l + 3
  BY <1>5, AlignFacts
<1>8. /\ NextNla(wire, pos) \in Nat /\ pos + 4 <= NextNla(wire, pos)
      /\ NextNla(wire, pos) <= Len(wire) + 3
  BY <1>1, <1>5, <1>6, <1>7
<1> QED
  BY <1>1, <1>4, <1>8, <1>11

(* What an attribute is emitted as.                                        *)
NlaAt(m, i) == NlaBytes(Kind(m.variant, m.nlas[i]), EmitValue(m.variant, m.nlas[i]))

LEMMA NlaAtFacts ==
  ASSUME NEW m \in Message, NEW i \in 1 .. Len(m.nlas),
         NlaFits(ValueLen(m.variant, m.nlas[i]))
  PROVE  /\ NlaAt(m, i) \in Seq(Byte)
         /\ Len(NlaAt(m, i)) = NlaBufferLen(ValueLen(m.variant, m.nlas[i]))
<1>1. /\ Kind(m.variant, m.nlas[i]) \in Word16
      /\ EmitValue(m.variant, m.nlas[i]) \in Seq(Byte)
      /\ Len(EmitValue(m.variant, m.nlas[i])) = ValueLen(m.variant, m.nlas[i])
  BY NlaOf
<1> QED
  BY <1>1, NlaBytesFacts DEF NlaAt, Bytes

(* The writes of EmitHead and EmitNla.                                     *)
LEMMA EmitHeadFacts ==
  ASSUME TypeInv, EmitHead
  PROVE  /\ msg \in Message /\ buf \in Seq(Cell)
         /\ EmitHeader(msg) \in Seq(Byte)
         /\ Len(EmitHeader(msg)) = HeaderLen(msg.variant)
         /\ 0 + Len(EmitHeader(msg)) <= Len(buf)
         /\ buf' = Write(buf, 0, EmitHeader(msg))
         /\ buf' \in Seq(Cell) /\ Len(buf') = Len(buf)
<1>1. msg \in Message /\ buf \in Seq(Cell)
  BY DEF TypeInv, TypeOK, Phases, EmitHead, Encoding, Cell
<1>2. EmitHeader(msg) \in Bytes(HeaderLen(msg.variant))
  BY <1>1, MessageShape, HeaderBytes
<1>3. EmitHeader(msg) \in Seq(Byte) /\ Len(EmitHeader(msg)) = HeaderLen(msg.variant)
  BY <1>2 DEF Bytes
<1>4. HeaderLen(msg.variant) \in Nat /\ Len(buf) \in Nat
  BY <1>1, MessageShape, HeaderLens
<1>5. HeaderLen(msg.variant) <= Len(buf)
  BY <1>4 DEF EmitHead, HeadRoom
<1>6. 0 + Len(EmitHeader(msg)) <= Len(buf)
  BY <1>3, <1>4, <1>5
<1>7. buf' = Write(buf, 0, EmitHeader(msg))
  BY DEF EmitHead
<1>8. Write(buf, 0, EmitHeader(msg)) \in Seq(Cell) /\ Len(Write(buf, 0, EmitHeader(msg))) = Len(buf)
  BY <1>1, <1>3, <1>6, WriteFacts, 0 \in Nat
<1> QED
  BY <1>1, <1>3, <1>6, <1>7, <1>8

LEMMA EmitNlaFacts ==
  ASSUME TypeInv, EmitNla
  PROVE  /\ msg \in Message /\ buf \in Seq(Cell) /\ ends \in Seq(Nat) /\ Sums(msg, ends)
         /\ k \in Nat /\ k + 1 \in 1 .. Len(msg.nlas)
         /\ NlaFits(ValueLen(msg.variant, msg.nlas[k + 1]))
         /\ NlaAt(msg, k + 1) \in Seq(Byte)
         /\ ends[k + 1] \in Nat /\ ends[k + 2] \in Nat
         /\ ends[k + 1] + Len(NlaAt(msg, k + 1)) = ends[k + 2]
         /\ ends[k + 2] <= Len(buf)
         /\ buf' = Write(buf, ends[k + 1], NlaAt(msg, k + 1))
         /\ buf' \in Seq(Cell) /\ Len(buf') = Len(buf)
<1>1. /\ msg \in Message /\ buf \in Seq(Cell) /\ ends \in Seq(Nat) /\ Sums(msg, ends)
      /\ k \in Nat
  BY DEF TypeInv, TypeOK, Phases, Sizing, EmitNla, Encoding, Cell
<1>2. k + 1 \in 1 .. Len(msg.nlas) /\ (k + 1) + 1 = k + 2
  <2>1. Len(msg.nlas) \in Nat
    BY <1>1, SumsFacts
  <2> QED
    BY <1>1, <2>1 DEF EmitNla
<1>3. /\ NlaFits(ValueLen(msg.variant, msg.nlas[k + 1])) /\ ends[k + 2] <= Len(buf)
      /\ buf' = Write(buf, ends[k + 1], NlaAt(msg, k + 1))
  <2>1. ValueSlice(msg.variant, msg.nlas[k + 1]) = EmitValue(msg.variant, msg.nlas[k + 1])
    BY <1>1, <1>2, ValueSliceIs
  <2> QED
    BY <2>1 DEF EmitNla, NlaEmittable, NlaAt
<1>4. /\ NlaAt(msg, k + 1) \in Seq(Byte)
      /\ Len(NlaAt(msg, k + 1)) = NlaBufferLen(ValueLen(msg.variant, msg.nlas[k + 1]))
  BY <1>1, <1>2, <1>3, NlaAtFacts
<1>5. /\ ends[k + 1] \in Nat /\ ends[k + 2] \in Nat
      /\ ends[k + 1] + Len(NlaAt(msg, k + 1)) = ends[k + 2]
  BY <1>1, <1>2, <1>4, SumsFacts
<1>6. /\ Write(buf, ends[k + 1], NlaAt(msg, k + 1)) \in Seq(Cell)
      /\ Len(Write(buf, ends[k + 1], NlaAt(msg, k + 1))) = Len(buf)
  BY <1>1, <1>3, <1>4, <1>5, WriteFacts
<1> QED
  BY <1>1, <1>2, <1>3, <1>4, <1>5, <1>6

(* A fresh buffer, and the bytes that are sent.                            *)
LEMMA AllocatedFacts ==
  ASSUME TypeInv, Allocate
  PROVE  buf' \in Seq(Cell) /\ Len(buf') \in Nat
<1>1. ends \in Seq(Nat) /\ Total \in Nat
  <2>1. msg \in Message /\ ends \in Seq(Nat) /\ Sums(msg, ends)
    BY DEF Allocate, TypeInv, TypeOK, Phases, Sizing, Encoding
  <2> QED
    BY <2>1, SumsFacts DEF Total
<1>2. PICK slack \in Slacks : /\ Total + slack >= 0
                              /\ buf' = [i \in 1 .. Total + slack |-> Stale]
  BY DEF Allocate
<1>3. Total + slack \in Nat
  BY <1>1, <1>2, CodecAssumption
<1> DEFINE n == Total + slack
<1> HIDE DEF n
<1>4. [i \in 1 .. n |-> Stale] \in Seq(Cell) /\ Len([i \in 1 .. n |-> Stale]) = n
  BY <1>3 DEF n, Cell
<1> QED
  BY <1>2, <1>3, <1>4 DEF n

LEMMA SentFacts ==
  ASSUME TypeInv, EmitEnd
  PROVE  /\ wire' \in Seq(Byte) /\ Len(wire') = Len(buf)
         /\ \A off \in Nat : \A t \in Seq(Byte) : Holds(buf, off, t) => Holds(wire', off, t)
<1>1. buf \in Seq(Cell)
  BY DEF TypeInv, TypeOK, Cell
<1>2. PICK fill \in Fills :
        wire' = [i \in DOMAIN buf |->
                   IF buf[i] = Stale THEN fill[1 + ((i - 1) % Len(fill))] ELSE buf[i]]
  BY DEF EmitEnd
<1> DEFINE at(i) == fill[1 + ((i - 1) % Len(fill))]
<1>3. Len(buf) \in Nat /\ DOMAIN buf = 1 .. Len(buf)
  BY <1>1
<1>8. ASSUME NEW i \in 1 .. Len(buf) PROVE at(i) \in Byte
  <2> DEFINE n == Len(fill)
             j == 1 + ((i - 1) % n)
  <2>1. fill \in Seq(Byte) /\ n \in Nat /\ n >= 1
    <3>1. fill \in Seq(Byte) /\ fill # << >>
      BY <1>2, CodecAssumption
    <3> QED
      BY <3>1
  <2>2. j \in 1 .. n
    <3>1. i - 1 \in Nat
      BY <1>3
    <3> HIDE DEF n
    <3>2. (i - 1) % n \in 0 .. n - 1
      BY <2>1, <3>1
    <3> QED
      BY <2>1, <3>2
  <2> HIDE DEF j
  <2>3. fill[j] \in Byte
    BY <2>1, <2>2, ElementOfSeq
  <2> QED
    BY <2>3 DEF j
<1>9. wire' = [i \in 1 .. Len(buf) |-> IF buf[i] = Stale THEN at(i) ELSE buf[i]]
  BY <1>2, <1>3
<1> HIDE DEF at
<1>4. \A i \in 1 .. Len(buf) : buf[i] \in Cell
  BY <1>1, ElementOfSeq
<1>5. \A i \in 1 .. Len(buf) : (IF buf[i] = Stale THEN at(i) ELSE buf[i]) \in Byte
  BY <1>4, <1>8 DEF Cell
<1>6. /\ wire' \in Seq(Byte) /\ Len(wire') = Len(buf)
      /\ \A i \in 1 .. Len(buf) : wire'[i] = IF buf[i] = Stale THEN at(i) ELSE buf[i]
  BY <1>3, <1>5, <1>9
<1>7. ASSUME NEW off \in Nat, NEW t \in Seq(Byte), Holds(buf, off, t)
      PROVE  Holds(wire', off, t)
  <2>1. ASSUME NEW i \in 1 .. Len(t) PROVE wire'[off + i] = t[i]
    <3>1. off + i \in 1 .. Len(buf) /\ buf[off + i] = t[i]
      BY <1>3, <1>7 DEF Holds
    <3>2. t[i] \in Byte /\ t[i] # Stale
      BY ElementOfSeq, CellFacts
    <3> QED
      BY <3>1, <3>2, <1>6
  <2> QED
    BY <2>1, <1>6, <1>7 DEF Holds
<1> QED
  BY <1>6, <1>7

LEMMA NextTypes == TypeInv /\ [Next]_vars => TypeInv'
<1> SUFFICES ASSUME TypeInv, [Next]_vars PROVE TypeInv'
  OBVIOUS
<1> USE DEF TypeInv
<1>1. CASE AcceptHead
  <2>1. Variant \in Variants /\ Header = ParseHeader(Variant, wire) /\ Header.ok
    BY <1>1 DEF AcceptHead, HeadOk, Header, Variant, ReadAs, VariantOf, Variants, Responses, Requests
  <2>2. wire \in Seq(Byte)
    BY DEF TypeOK
  <2>3. Header.val \in HeaderSet(Variant) /\ HeaderLen(Variant) \in Nat
    BY <2>1, <2>2, HeaderTyped, HeaderLens
  <2>4. msg' \in Message /\ msg'.variant = Variant
    <3>1. msg' = [variant |-> Variant, header |-> Header.val, nlas |-> << >>]
      BY <1>1 DEF AcceptHead
    <3>2. << >> \in Seq(NlaSet(Variant))
      OBVIOUS
    <3>3. [variant |-> Variant, header |-> Header.val, nlas |-> << >>] \in Message
      BY <2>1, <2>3, <3>2, MessageMade
    <3> QED
      BY <3>1, <3>3
  <2>5. pc' \in {"nlas", "parsed"} /\ (pc' = "nlas" => Variant \in Responses) /\ pos' = HeaderLen(Variant)
    BY <1>1 DEF AcceptHead
  <2>6. UNCHANGED << reader, type, wire, spans, ends, buf, k, sent >>
    BY <1>1 DEF AcceptHead
  <2> QED
    BY <2>3, <2>4, <2>5, <2>6, PcFacts DEF TypeOK, Phases, Sizing
<1>2. CASE RefuseHead
  BY <1>2, PcFacts DEF RefuseHead, TypeOK, Phases, Sizing
<1>3. CASE ParseNla
  <2>1. /\ pc = "nlas" /\ pc' = "nlas" /\ NlaOk
        /\ msg' = [msg EXCEPT !.nlas = Append(@, NlaHere.val)]
        /\ pos' = NextNla(wire, pos)
        /\ UNCHANGED << reader, type, wire, spans, ends, buf, k, sent >>
    BY <1>3 DEF ParseNla
  <2>2. /\ msg \in Message /\ msg.variant \in Responses
        /\ NlaHere.val \in NlaSet(msg.variant) /\ NextNla(wire, pos) \in Nat
    BY <2>1, NlaHereFacts
  <2>3. /\ msg.nlas \in Seq(NlaSet(msg.variant)) /\ msg.header \in HeaderSet(msg.variant)
        /\ msg.variant \in Variants /\ msg.variant \notin Requests
        /\ msg = [variant |-> msg.variant, header |-> msg.header, nlas |-> msg.nlas]
    BY <2>2, MessageShape, VariantSets
  <2>4. Append(msg.nlas, NlaHere.val) \in Seq(NlaSet(msg.variant))
    BY <2>2, <2>3, AppendFacts
  <2>5. msg' = [variant |-> msg.variant, header |-> msg.header,
                nlas |-> Append(msg.nlas, NlaHere.val)]
    BY <2>1, <2>3
  <2>6. msg' \in Message /\ msg'.variant = msg.variant
    BY <2>3, <2>4, <2>5, MessageMade
  <2> QED
    BY <2>1, <2>2, <2>6, PcFacts DEF TypeOK, Phases, Sizing
<1>4. CASE RefuseNla
  BY <1>4, PcFacts DEF RefuseNla, TypeOK, Phases, Sizing
<1>5. CASE ParseEnd
  BY <1>5, PcFacts DEF ParseEnd, TypeOK, Phases, Sizing
<1>6. CASE Relay
  <2>1. /\ pc = "parsed" /\ pc' = "size" /\ sent = Nothing
        /\ ends' = << HeaderLen(msg.variant) >>
        /\ UNCHANGED << reader, type, wire, spans, pos, msg, buf, k, sent >>
    BY <1>6 DEF Relay
  <2>2. msg \in Message /\ SumsUpTo(msg, ends') /\ ends' \in Seq(Nat)
    BY <2>1, SumsBegin DEF Phases
  <2> QED
    BY <2>1, <2>2, PcFacts DEF TypeOK, Phases, Sizing
<1>7. CASE Deliver
  BY <1>7, PcFacts DEF Deliver, TypeOK, Phases, Sizing
<1>8. CASE SizeNla
  <2>1. /\ pc = "size" /\ Len(ends) <= Len(msg.nlas)
        /\ ends' = Append(ends, ends[Len(ends)] + NlaBufferLen(ValueLen(msg.variant, msg.nlas[Len(ends)])))
        /\ UNCHANGED << pc, reader, type, wire, spans, pos, msg, buf, k, sent >>
    BY <1>8 DEF SizeNla, Total
  <2>2. msg \in Message /\ sent = Nothing /\ SumsUpTo(msg, ends) /\ ends \in Seq(Nat)
    BY <2>1 DEF TypeOK, Phases, Sizing, Encoding
  <2>3. SumsUpTo(msg, ends') /\ ends' \in Seq(Nat)
    BY <2>1, <2>2, SumsStep
  <2> QED
    BY <2>1, <2>2, <2>3 DEF TypeOK, Phases, Sizing
<1>9. CASE SizeEnd
  <2>1. /\ pc = "size" /\ pc' = "alloc" /\ Len(ends) = Len(msg.nlas) + 1
        /\ UNCHANGED << reader, type, wire, spans, pos, msg, ends, buf, k, sent >>
    BY <1>9 DEF SizeEnd
  <2>2. Sums(msg, ends)
    BY <2>1 DEF Sizing, Sums
  <2> QED
    BY <2>1, <2>2, PcFacts DEF TypeOK, Phases, Sizing
<1>10. CASE Allocate
  <2>1. /\ pc = "alloc" /\ pc' = "emitHead" /\ k' = 0
        /\ UNCHANGED << reader, type, wire, spans, pos, msg, ends, sent >>
    BY <1>10 DEF Allocate
  <2>2. buf' \in Seq(Cell)
    BY <1>10, AllocatedFacts
  <2> QED
    BY <2>1, <2>2, PcFacts DEF TypeOK, Phases, Sizing, Cell
<1>11. CASE EmitHead
  <2>1. /\ pc = "emitHead" /\ pc' = "emitNlas"
        /\ UNCHANGED << reader, type, wire, spans, pos, msg, ends, k, sent >>
    BY <1>11 DEF EmitHead
  <2>2. buf' \in Seq(Cell)
    BY <1>11, EmitHeadFacts
  <2> QED
    BY <2>1, <2>2, PcFacts DEF TypeOK, Phases, Sizing, Cell
<1>12. CASE EmitNla
  <2>1. /\ pc = "emitNlas" /\ k' = k + 1
        /\ UNCHANGED << pc, reader, type, wire, spans, pos, msg, ends, sent >>
    BY <1>12 DEF EmitNla
  <2>2. buf' \in Seq(Cell) /\ k' \in Nat
    BY <1>12, <2>1, EmitNlaFacts
  <2> QED
    BY <2>1, <2>2 DEF TypeOK, Phases, Sizing, Cell
<1>13. CASE Panic
  BY <1>13, PcFacts DEF Panic, TypeOK, Phases, Sizing
<1>14. CASE EmitEnd
  <2>1. /\ pc = "emitNlas" /\ pc' = "head" /\ type' = MessageType(reader)
        /\ sent' = msg /\ msg' = Nothing /\ pos' = 0 /\ spans' = << >>
        /\ UNCHANGED << reader, ends, buf, k >>
    BY <1>14 DEF EmitEnd
  <2>2. wire' \in Seq(Byte)
    BY <1>14, SentFacts
  <2>3. msg \in Message /\ Sums(msg, ends)
    BY <2>1 DEF Phases, Sizing, Encoding
  <2>4. type' \in Nat /\ spans' \in Seq(Span) /\ pos' \in Nat
    BY <2>1 DEF MessageType, SOCK_DIAG_BY_FAMILY, SOCK_DESTROY
  <2> QED
    BY <2>1, <2>2, <2>3, <2>4, PcFacts DEF TypeOK, Phases, Sizing
<1>15. CASE UNCHANGED vars
  BY <1>15 DEF vars, TypeOK, Phases, Sizing
<1> QED
  BY <1>1, <1>2, <1>3, <1>4, <1>5, <1>6, <1>7, <1>8, <1>9, <1>10, <1>11, <1>12, <1>13,
     <1>14, <1>15
     DEF Next

(* At every step the variables have their types; the emitters, the buffer  *)
(* and the attribute parsers never leave the values of the Rust types.     *)
THEOREM TypesHold == Spec => []TypeOK
<1>1. Spec => []TypeInv
  BY InitTypes, NextTypes, PTL DEF Spec
<1>2. TypeInv => TypeOK
  BY DEF TypeInv
<1> QED
  BY <1>1, <1>2, PTL

-----------------------------------------------------------------------------
(***************************************************************************)
(* Decoding.  What is being decoded is a message of the variant the reader *)
(* chose, and everything about it survives so far.                         *)
(***************************************************************************)
AllSurvive(m) ==
  /\ HeaderSurvives(m.variant, m.header)
  /\ \A i \in 1 .. Len(m.nlas) : /\ NlaSurvives(m.variant, m.nlas[i])
                                 /\ Fitting(m.variant, m.nlas[i])

Decoded ==
  pc \in {"nlas", "parsed", "delivered"} =>
    /\ msg.variant = ReadAs(reader, type, wire)
    /\ AllSurvive(msg)

DecodeInv == Decoded /\ Budget

LEMMA AcceptHeadFacts ==
  ASSUME TypeInv, AcceptHead
  PROVE  /\ Variant \in Variants /\ Variant = ReadAs(reader, type, wire)
         /\ msg' = [variant |-> Variant, header |-> Header.val, nlas |-> << >>]
         /\ HeaderSurvives(Variant, Header.val)
         /\ HeaderLen(Variant) \in Nat /\ HeaderLen(Variant) <= Len(wire)
         /\ pos' = HeaderLen(Variant)
         /\ pc' \in {"nlas", "parsed"} /\ (pc' = "nlas" <=> Variant \in Responses)
         /\ UNCHANGED << reader, type, wire, spans, ends, buf, k, sent >>
<1>1. Variant \in Variants /\ Header = ParseHeader(Variant, wire) /\ Header.ok
  BY DEF AcceptHead, HeadOk, Header, Variant, ReadAs, VariantOf, Variants, Responses, Requests
<1>2. wire \in Seq(Byte)
  BY DEF TypeInv, TypeOK
<1>3. /\ HeaderSurvives(Variant, Header.val)
      /\ HeaderLen(Variant) \in Nat /\ HeaderLen(Variant) <= Len(wire)
  BY <1>1, <1>2, HeaderTyped, HeaderLens
<1> QED
  BY <1>1, <1>3 DEF AcceptHead, Variant

LEMMA ParseNlaFacts ==
  ASSUME TypeInv, ParseNla
  PROVE  /\ pc = "nlas" /\ pc' = "nlas"
         /\ msg'.variant = msg.variant /\ msg'.header = msg.header
         /\ msg.variant \in Responses
         /\ Len(msg.nlas) \in Nat /\ Len(msg'.nlas) = Len(msg.nlas) + 1
         /\ \A i \in 1 .. Len(msg.nlas) : msg'.nlas[i] = msg.nlas[i]
         /\ msg'.nlas[Len(msg.nlas) + 1] = NlaHere.val
         /\ pos' = NextNla(wire, pos)
         /\ UNCHANGED << reader, type, wire, spans, ends, buf, k, sent >>
<1>1. /\ pc = "nlas" /\ pc' = "nlas" /\ NlaOk
      /\ msg' = [msg EXCEPT !.nlas = Append(@, NlaHere.val)]
      /\ pos' = NextNla(wire, pos)
      /\ UNCHANGED << reader, type, wire, spans, ends, buf, k, sent >>
  BY DEF ParseNla
<1>2. /\ msg \in Message /\ msg.variant \in Responses
      /\ NlaHere.val \in NlaSet(msg.variant)
  BY <1>1, NlaHereFacts
<1>3. /\ msg.nlas \in Seq(NlaSet(msg.variant))
      /\ msg = [variant |-> msg.variant, header |-> msg.header, nlas |-> msg.nlas]
  BY <1>2, MessageShape
<1>4. /\ msg'.variant = msg.variant /\ msg'.header = msg.header
      /\ msg'.nlas = Append(msg.nlas, NlaHere.val)
  BY <1>1, <1>3
<1>5. /\ Len(Append(msg.nlas, NlaHere.val)) = Len(msg.nlas) + 1
      /\ Append(msg.nlas, NlaHere.val)[Len(msg.nlas) + 1] = NlaHere.val
      /\ \A i \in 1 .. Len(msg.nlas) : Append(msg.nlas, NlaHere.val)[i] = msg.nlas[i]
      /\ Len(msg.nlas) \in Nat
  BY <1>2, <1>3, AppendFacts
<1> QED
  BY <1>1, <1>2, <1>4, <1>5

LEMMA NextDecodes ==
  ASSUME TypeInv, DecodeInv, [Next]_vars
  PROVE  DecodeInv'
<1>1. CASE AcceptHead
  <2>1. /\ msg'.variant = Variant /\ msg'.header = Header.val /\ msg'.nlas = << >>
        /\ Variant = ReadAs(reader', type', wire')
    BY <1>1, AcceptHeadFacts
  <2>2. Len(msg'.nlas) = 0 /\ 1 .. 0 = {}
    BY <2>1
  <2>3. AllSurvive(msg')
    BY <1>1, <2>1, <2>2, AcceptHeadFacts DEF AllSurvive
  <2>4. Decoded'
    BY <1>1, <2>1, <2>3 DEF Decoded
  <2>5. Budget'
    <3>1. /\ HeaderLen(msg'.variant) + 4 * Len(msg'.nlas) <= pos'
          /\ pos' <= Len(wire') + 3
      <4>1. /\ HeaderLen(Variant) \in Nat /\ pos' = HeaderLen(Variant)
            /\ HeaderLen(Variant) <= Len(wire) /\ wire' = wire /\ Len(wire) \in Nat
        BY <1>1, AcceptHeadFacts DEF TypeInv, TypeOK
      <4> QED
        BY <2>1, <2>2, <4>1
    <3> QED
      BY <3>1 DEF Budget, NLA_HEADER_SIZE
  <2> QED
    BY <2>4, <2>5 DEF DecodeInv
<1>2. CASE ParseNla
  <2>1. NlaOk
    BY <1>2 DEF ParseNla
  <2>2. Decoded /\ Budget
    BY DEF DecodeInv
  <2>3. /\ HeaderSurvives(msg'.variant, msg'.header)
        /\ msg'.variant = ReadAs(reader', type', wire')
    BY <1>2, <2>2, ParseNlaFacts DEF Decoded, AllSurvive
  <2>4. ASSUME NEW i \in 1 .. Len(msg'.nlas)
        PROVE  NlaSurvives(msg'.variant, msg'.nlas[i]) /\ Fitting(msg'.variant, msg'.nlas[i])
    <3>1. CASE i \in 1 .. Len(msg.nlas)
      BY <1>2, <2>2, <3>1, ParseNlaFacts DEF Decoded, AllSurvive
    <3>2. CASE i \notin 1 .. Len(msg.nlas)
      <4>1. i = Len(msg.nlas) + 1
        BY <1>2, <3>2, ParseNlaFacts
      <4> QED
        BY <1>2, <2>1, <4>1, ParseNlaFacts, NlaHereFacts
    <3> QED
      BY <3>1, <3>2
  <2>5. Decoded'
    BY <2>3, <2>4 DEF Decoded, AllSurvive
  <2>6. Budget'
    <3>1. /\ pos \in Nat /\ pos' \in Nat /\ pos + 4 <= pos' /\ pos' <= Len(wire') + 3
      BY <1>2, <2>1, ParseNlaFacts, NlaHereFacts DEF TypeInv, TypeOK
    <3>2. HeaderLen(msg.variant) + 4 * Len(msg.nlas) <= pos
      BY <1>2, <2>2, ParseNlaFacts DEF Budget, NLA_HEADER_SIZE
    <3>3. HeaderLen(msg.variant) \in Nat /\ Len(msg.nlas) \in Nat
      BY <1>2, ParseNlaFacts, HeaderLens, VariantSets
    <3>4. HeaderLen(msg'.variant) + 4 * Len(msg'.nlas) <= pos'
      <4>1. HeaderLen(msg'.variant) = HeaderLen(msg.variant) /\ Len(msg'.nlas) = Len(msg.nlas) + 1
        BY <1>2, ParseNlaFacts
      <4> QED
        BY <3>1, <3>2, <3>3, <4>1
    <3> QED
      BY <3>1, <3>4 DEF Budget, NLA_HEADER_SIZE
  <2> QED
    BY <2>5, <2>6 DEF DecodeInv
<1>3. CASE RefuseHead \/ RefuseNla \/ Relay \/ SizeNla \/ SizeEnd \/ Allocate \/ EmitHead
             \/ EmitNla \/ Panic \/ EmitEnd
  <2>1. pc' \notin {"nlas", "parsed", "delivered"}
    BY <1>3 DEF RefuseHead, RefuseNla, Relay, SizeNla, SizeEnd, Allocate, EmitHead, EmitNla,
                Panic, EmitEnd
  <2> QED
    BY <2>1 DEF DecodeInv, Decoded, Budget
<1>4. CASE ParseEnd \/ Deliver
  <2>1. /\ pc \in {"nlas", "parsed"} /\ pc' \in {"parsed", "delivered"}
        /\ UNCHANGED << reader, type, wire, spans, pos, msg, ends, buf, k, sent >>
    BY <1>4 DEF ParseEnd, Deliver
  <2> QED
    BY <2>1 DEF DecodeInv, Decoded, Budget
<1>5. CASE UNCHANGED vars
  BY <1>5 DEF vars, DecodeInv, Decoded, Budget
<1> QED
  BY <1>1, <1>2, <1>3, <1>4, <1>5 DEF Next

LEMMA InitDecodes == Init => DecodeInv
BY DEF Init, Arrive, Build, DecodeInv, Decoded, Budget

LEMMA DecodeHolds == Spec => [](TypeInv /\ DecodeInv)
<1>1. Init => TypeInv /\ DecodeInv
  BY InitTypes, InitDecodes
<1>2. (TypeInv /\ DecodeInv) /\ [Next]_vars => (TypeInv /\ DecodeInv)'
  BY NextTypes, NextDecodes
<1> QED
  BY <1>1, <1>2, PTL DEF Spec

(* The loop over the attributes of a response ends: an attribute costs at  *)
(* least its header, and the cursor stays within the payload.              *)
THEOREM BudgetHolds == Spec => []Budget
<1>1. TypeInv /\ DecodeInv => Budget
  BY DEF DecodeInv
<1> QED
  BY <1>1, DecodeHolds, PTL

LEMMA ReadAsFacts ==
  ASSUME NEW r \in Readers, NEW t, NEW b, ReadAs(r, t, b) # "none"
  PROVE  /\ ReadAs(r, t, b) \in Requests => r = ReadAs(r, t, b)
         /\ ReadAs(r, t, b) \in Responses => r \in MessageTypes /\ t = SOCK_DIAG_BY_FAMILY
<1>1. VariantOf(t, b) \in Responses \cup {"none"}
  BY DEF VariantOf, Responses
<1>2. VariantOf(t, b) # "none" => t = SOCK_DIAG_BY_FAMILY
  BY DEF VariantOf
<1> QED
  BY <1>1, <1>2 DEF ReadAs, Readers, Requests, Responses, MessageTypes

LEMMA FlagsAre ==
  ASSUME NEW m, m.variant \in Variants
  PROVE  FlagsNamed(m) <=>
           /\ m.variant = "InetRequest" => InetStatesNamed(m.header.states)
           /\ m.variant = "UnixRequest" =>
                UnixStatesNamed(m.header.state_flags) /\ ShowNamed(m.header.show_flags)
<1>1. CASE m.variant = "InetRequest"
  BY <1>1 DEF FlagsNamed
<1>2. CASE m.variant = "UnixRequest"
  BY <1>2 DEF FlagsNamed
<1>3. CASE m.variant \in Responses
  BY <1>3 DEF FlagsNamed, Responses
<1> QED
  BY <1>1, <1>2, <1>3 DEF Variants, Requests

(* Whatever was decoded can come back, unless it was read under a message  *)
(* type that the reader does not write.                                    *)
LEMMA DecodedIsFaithful ==
  ASSUME TypeInv, DecodeInv, pc \in {"parsed", "delivered"},
         reader # "SockDiagDestroy" \/ type = MessageType(reader)
  PROVE  Survives(msg)
<1>1. /\ msg \in Message /\ reader \in Readers
      /\ msg.variant = ReadAs(reader, type, wire) /\ AllSurvive(msg)
  BY DEF TypeInv, TypeOK, Phases, DecodeInv, Decoded
<1>2. msg.variant \in Variants /\ msg.nlas \in Seq(NlaSet(msg.variant))
  BY <1>1, MessageShape
<1>3. reader = IF msg.variant \in Requests THEN msg.variant ELSE "SockDiagMessage"
  <2>1. /\ msg.variant \in Requests => reader = msg.variant
        /\ msg.variant \in Responses => reader \in MessageTypes /\ type = SOCK_DIAG_BY_FAMILY
    BY <1>1, <1>2, ReadAsFacts, VariantSets
  <2>2. MessageType("SockDiagDestroy") # SOCK_DIAG_BY_FAMILY
    BY DEF MessageType, SOCK_DIAG_BY_FAMILY, SOCK_DESTROY
  <2> QED
    BY <2>1, <2>2, <1>2, VariantSets DEF MessageTypes
<1>4. DOMAIN msg.nlas = 1 .. Len(msg.nlas)
  BY <1>2
<1> QED
  BY <1>1, <1>2, <1>3, <1>4, FlagsAre DEF Survives, Faithful, AllSurvive, HeaderSurvives

(* What was decoded, whatever the sender had put into the payload, is one  *)
(* of the messages that come back when they are emitted again, and every   *)
(* attribute of it can be emitted, but for a congestion name of 65531      *)
(* bytes without a NUL, which cannot.                                      *)
THEOREM DecodedSurvivesHolds == Spec => []DecodedSurvives
<1>1. ASSUME TypeInv, DecodeInv PROVE DecodedSurvives
  <2> SUFFICES ASSUME pc = "parsed", reader # "SockDiagDestroy"
               PROVE  /\ Survives(msg)
                      /\ \A i \in DOMAIN msg.nlas : Fitting(msg.variant, msg.nlas[i])
    BY DEF DecodedSurvives, Fitting
  <2>1. Survives(msg)
    BY <1>1, DecodedIsFaithful
  <2>2. DOMAIN msg.nlas = 1 .. Len(msg.nlas)
    BY <1>1, MessageShape DEF TypeInv, Phases
  <2>3. \A i \in 1 .. Len(msg.nlas) : Fitting(msg.variant, msg.nlas[i])
    BY <1>1 DEF DecodeInv, Decoded, AllSurvive
  <2> QED
    BY <2>1, <2>2, <2>3
<1> QED
  BY <1>1, DecodeHolds, PTL

-----------------------------------------------------------------------------
(***************************************************************************)
(* No loop goes on for ever.  Decoding gets on because every attribute     *)
(* that is accepted moves the cursor by its own header at least.           *)
(***************************************************************************)
Goes == Stage < Stage' \/ (Stage = Stage' /\ Left' \in Nat /\ Left' < Left)

LEMMA StageFollows ==
  ASSUME sent' = sent,
         \/ pc = "head" /\ pc' \in {"nlas", "parsed", "refused"}
         \/ pc = "nlas" /\ pc' \in {"parsed", "refused"}
         \/ pc = "parsed" /\ pc' \in {"size", "delivered"}
         \/ pc = "size" /\ pc' = "alloc"
         \/ pc = "alloc" /\ pc' = "emitHead"
         \/ pc = "emitHead" /\ pc' \in {"emitNlas", "panicked"}
         \/ pc = "emitNlas" /\ pc' = "panicked"
  PROVE  Stage < Stage'
BY DEF Stage

LEMMA LoopsGetOn ==
  ASSUME TypeInv, DecodeInv, ParseNla \/ SizeNla \/ EmitNla
  PROVE  Stage = Stage' /\ Left' \in Nat /\ Left' < Left
<1>1. CASE ParseNla
  <2>1. /\ pc = "nlas" /\ pc' = "nlas" /\ UNCHANGED << sent, wire >>
        /\ pos' = NextNla(wire, pos)
    BY <1>1, ParseNlaFacts
  <2>2. /\ pos' \in Nat /\ pos + 4 <= pos' /\ pos' <= Len(wire) + 3
    <3>1. NlaOk
      BY <1>1 DEF ParseNla
    <3> QED
      BY <2>1, <3>1, NlaHereFacts
  <2>3. pos \in Nat /\ Len(wire) \in Nat
    BY DEF TypeInv, TypeOK
  <2>4. Stage = Stage' /\ Left = Len(wire) + 4 - pos /\ Left' = Len(wire) + 4 - pos'
    BY <2>1 DEF Stage, Left
  <2> QED
    BY <2>2, <2>3, <2>4
<1>2. CASE SizeNla
  <2>1. /\ pc = "size" /\ pc' = "size" /\ UNCHANGED << sent, msg >>
        /\ Len(ends) <= Len(msg.nlas)
        /\ \E n : ends' = Append(ends, n)
    BY <1>2 DEF SizeNla
  <2>2. msg \in Message /\ ends \in Seq(Nat)
    BY <2>1 DEF TypeInv, TypeOK, Phases, Encoding
  <2>3. Len(msg.nlas) \in Nat /\ Len(ends) \in Nat /\ Len(ends') = Len(ends) + 1
    BY <2>1, <2>2, MessageShape
  <2>4. /\ Stage = Stage' /\ Left = Len(msg.nlas) + 1 - Len(ends)
        /\ Left' = Len(msg.nlas) + 1 - Len(ends')
    BY <2>1 DEF Stage, Left
  <2> DEFINE n == Len(msg.nlas)
             e == Len(ends)
  <2>5. /\ n \in Nat /\ e \in Nat /\ e <= n /\ Left = n + 1 - e /\ Left' = n + 1 - (e + 1)
    BY <2>1, <2>3, <2>4
  <2> HIDE DEF n, e
  <2>6. Left' \in Nat /\ Left' < Left
    BY <2>5
  <2> QED
    BY <2>4, <2>6
<1>3. CASE EmitNla
  <2>1. /\ pc = "emitNlas" /\ pc' = "emitNlas" /\ UNCHANGED << sent, msg >>
        /\ k < Len(msg.nlas) /\ k' = k + 1
    BY <1>3 DEF EmitNla
  <2>2. Len(msg.nlas) \in Nat /\ k \in Nat
    BY <2>1, MessageShape DEF TypeInv, TypeOK, Phases, Encoding
  <2>3. Stage = Stage' /\ Left = Len(msg.nlas) - k /\ Left' = Len(msg.nlas) - k'
    BY <2>1 DEF Stage, Left
  <2> QED
    BY <2>1, <2>2, <2>3
<1> QED
  BY <1>1, <1>2, <1>3

LEMMA NextGoes ==
  ASSUME TypeInv, DecodeInv, Next
  PROVE  Goes
<1>1. CASE ParseNla \/ SizeNla \/ EmitNla
  BY <1>1, LoopsGetOn DEF Goes
<1>2. CASE \/ AcceptHead \/ RefuseHead \/ RefuseNla \/ ParseEnd \/ Relay \/ Deliver
           \/ SizeEnd \/ Allocate \/ EmitHead \/ Panic
  <2>1. Stage < Stage'
    BY <1>2, StageFollows DEF AcceptHead, RefuseHead, RefuseNla, ParseEnd, Relay, Deliver,
                              SizeEnd, Allocate, EmitHead, Panic
  <2> QED
    BY <2>1 DEF Goes
<1>3. CASE EmitEnd
  <2>1. pc = "emitNlas" /\ pc' = "head" /\ sent' = msg
    BY <1>3 DEF EmitEnd
  <2>2. sent = Nothing /\ sent' # Nothing
    BY <2>1, NothingIsNone DEF TypeInv, Phases, Encoding
  <2>3. Stage < Stage'
    BY <2>1, <2>2 DEF Stage
  <2> QED
    BY <2>3 DEF Goes
<1> QED
  BY <1>1, <1>2, <1>3 DEF Next

(* Each loop gets on with every turn and none is entered twice: decoding,  *)
(* sizing and emitting take finitely many steps, whatever arrives.         *)
THEOREM AlwaysGetsOn == Spec => GetsOn
<1>1. (TypeInv /\ DecodeInv) /\ [Next]_vars => [Goes]_vars
  BY NextGoes
<1> QED
  BY <1>1, DecodeHolds, PTL DEF Spec, GetsOn, Goes

-----------------------------------------------------------------------------
(***************************************************************************)
(* Emitting.  The header and the attributes written so far are where the   *)
(* sums of buffer_len() say, without a gap, and what was sent has them all *)
(* there.                                                                  *)
(***************************************************************************)
Carries(m, e, b, n) ==
  /\ Holds(b, 0, EmitHeader(m))
  /\ \A i \in 1 .. n : Holds(b, e[i], NlaAt(m, i))

AllFit(m, n) == \A i \in 1 .. n : NlaFits(ValueLen(m.variant, m.nlas[i]))

Filled(b, n) == \A i \in 1 .. n : b[i] # Stale

Emitting ==
  /\ pc = "emitHead" => k = 0
  /\ pc = "emitNlas" =>
       /\ k <= Len(msg.nlas)
       /\ HeadRoom(msg.variant, buf)
       /\ ends[k + 1] <= Len(buf)
       /\ AllFit(msg, k)
       /\ Carries(msg, ends, buf, k)
       /\ Filled(buf, ends[k + 1])

Sent ==
  sent # Nothing =>
    /\ type = MessageType(reader)
    /\ Len(wire) = Len(buf)
    /\ AllFit(sent, Len(sent.nlas))
    /\ Carries(sent, ends, wire, Len(sent.nlas))

EmitInv == Emitting /\ Sent /\ PanicExactly /\ FullyWritten

LEMMA FilledBy ==
  ASSUME NEW b, NEW off \in Nat, NEW t \in Seq(Byte), Holds(b, off, t), Filled(b, off)
  PROVE  Filled(b, off + Len(t))
<1> SUFFICES ASSUME NEW i \in 1 .. off + Len(t) PROVE b[i] # Stale
  BY DEF Filled
<1>1. CASE i <= off
  BY <1>1 DEF Filled
<1>2. CASE ~(i <= off)
  <2>1. i - off \in 1 .. Len(t) /\ off + (i - off) = i
    BY <1>2
  <2>2. b[i] = t[i - off]
    BY <2>1 DEF Holds
  <2>3. t[i - off] \in Byte
    BY <2>1, ElementOfSeq
  <2> QED
    BY <2>2, <2>3, CellFacts
<1> QED
  BY <1>1, <1>2

LEMMA EmitHeadEmits ==
  ASSUME TypeInv, Emitting, EmitHead
  PROVE  Emitting'
<1>1. /\ pc = "emitHead" /\ pc' = "emitNlas" /\ HeadRoom(msg.variant, buf)
      /\ UNCHANGED << reader, type, wire, spans, pos, msg, ends, k, sent >>
  BY DEF EmitHead
<1>2. k = 0 /\ msg \in Message /\ ends \in Seq(Nat) /\ Sums(msg, ends) /\ buf \in Seq(Cell)
  BY <1>1 DEF Emitting, TypeInv, TypeOK, Phases, Sizing, Encoding, Cell
<1>3. ends[1] = HeaderLen(msg.variant) /\ Len(msg.nlas) \in Nat /\ ends[0 + 1] = ends[1]
  BY <1>2, SumsFacts
<1> DEFINE h == EmitHeader(msg)
           w == Write(buf, 0, h)
<1>4. /\ h \in Seq(Byte) /\ Len(h) = ends[1] /\ 0 + Len(h) <= Len(buf)
      /\ buf' = w /\ Len(buf') = Len(buf)
  BY <1>3, EmitHeadFacts
<1>5. Holds(w, 0, h)
  BY <1>2, <1>4, WriteFacts, 0 \in Nat
<1> HIDE DEF h, w
<1>6. Filled(w, 0)
  BY DEF Filled
<1>7. Filled(w, 0 + Len(h))
  BY <1>4, <1>5, <1>6, FilledBy, 0 \in Nat
<1>8. Len(h) \in Nat /\ 0 + Len(h) = ends[1] /\ ends[1] <= Len(buf')
  BY <1>4
<1>9. HeadRoom(msg.variant, buf')
  BY <1>1, <1>4 DEF HeadRoom
<1>10. /\ AllFit(msg, 0) /\ Carries(msg, ends, buf', 0) /\ Filled(buf', ends[1])
  BY <1>4, <1>5, <1>7, <1>8 DEF AllFit, Carries, h
<1> QED
  BY <1>1, <1>2, <1>3, <1>8, <1>9, <1>10 DEF Emitting

LEMMA EmitNlaEmits ==
  ASSUME TypeInv, Emitting, EmitNla
  PROVE  Emitting'
<1> DEFINE t == NlaAt(msg, k + 1)
           o == ends[k + 1]
           h == EmitHeader(msg)
           w == Write(buf, o, t)
<1>1. /\ pc = "emitNlas" /\ pc' = "emitNlas" /\ k' = k + 1
      /\ UNCHANGED << reader, type, wire, spans, pos, msg, ends, sent >>
  BY DEF EmitNla
<1>2. /\ msg \in Message /\ buf \in Seq(Cell) /\ ends \in Seq(Nat) /\ Sums(msg, ends)
      /\ k \in Nat /\ k + 1 \in 1 .. Len(msg.nlas)
      /\ NlaFits(ValueLen(msg.variant, msg.nlas[k + 1]))
      /\ t \in Seq(Byte) /\ o \in Nat /\ ends[k + 2] \in Nat
      /\ o + Len(t) = ends[k + 2] /\ ends[k + 2] <= Len(buf)
      /\ buf' = w /\ Len(buf') = Len(buf)
  BY EmitNlaFacts
<1>3. /\ HeadRoom(msg.variant, buf) /\ AllFit(msg, k) /\ Carries(msg, ends, buf, k)
      /\ Filled(buf, o)
  BY <1>1 DEF Emitting
<1>4. Len(msg.nlas) \in Nat /\ (k + 1) + 1 = k + 2 /\ o + Len(t) <= Len(buf)
  BY <1>2, SumsFacts
<1>5. Holds(w, o, t) /\ \A i \in 1 .. o : w[i] = buf[i]
  BY <1>2, <1>4, WriteFacts
<1>6. Holds(w, 0, h)
  <2>1. h \in Bytes(HeaderLen(msg.variant))
    BY <1>2, MessageShape, HeaderBytes
  <2>2. h \in Seq(Byte) /\ Len(h) = ends[1]
    BY <2>1, <1>2, SumsFacts DEF Bytes
  <2>3. 0 + Len(h) <= o
    <3>1. 1 \in 1 .. Len(msg.nlas) + 1 /\ k + 1 \in 1 .. Len(msg.nlas) + 1 /\ 1 <= k + 1
      BY <1>2, <1>4
    <3>2. ends[1] <= o /\ ends[1] \in Nat
      BY <3>1, <1>2, SumsFacts
    <3> QED
      BY <2>2, <3>2
  <2>4. Holds(buf, 0, h)
    BY <1>3 DEF Carries
  <2> HIDE DEF h, o, t
  <2>5. Holds(Write(buf, o, t), 0, h)
    BY <1>2, <1>4, <2>2, <2>3, <2>4, HoldsStays, 0 \in Nat
  <2> QED
    BY <2>5
<1>7. ASSUME NEW i \in 1 .. k + 1 PROVE Holds(w, ends[i], NlaAt(msg, i))
  <2>1. CASE i = k + 1
    BY <2>1, <1>5
  <2>2. CASE i # k + 1
    <3>1. i \in 1 .. k /\ i \in 1 .. Len(msg.nlas) /\ i + 1 \in 1 .. Len(msg.nlas) + 1
          /\ k + 1 \in 1 .. Len(msg.nlas) + 1 /\ i + 1 <= k + 1
      <4> DEFINE l == Len(msg.nlas)
      <4>1. k \in Nat /\ l \in Nat /\ k + 1 \in 1 .. l
        BY <1>2, <1>4
      <4> HIDE DEF l
      <4>2. i \in Int /\ 1 <= i /\ i <= k /\ k + 1 <= l
        BY <2>2, <4>1
      <4>3. /\ i \in 1 .. k /\ i \in 1 .. l /\ i + 1 \in 1 .. l + 1
            /\ k + 1 \in 1 .. l + 1 /\ i + 1 <= k + 1
        BY <4>1, <4>2
      <4> QED
        BY <4>3 DEF l
    <3>2. Holds(buf, ends[i], NlaAt(msg, i)) /\ NlaFits(ValueLen(msg.variant, msg.nlas[i]))
      BY <3>1, <1>3 DEF Carries, AllFit
    <3>3. /\ NlaAt(msg, i) \in Seq(Byte)
          /\ Len(NlaAt(msg, i)) = NlaBufferLen(ValueLen(msg.variant, msg.nlas[i]))
      BY <3>1, <3>2, <1>2, NlaAtFacts
    <3>4. /\ ends[i] \in Nat /\ ends[i] + Len(NlaAt(msg, i)) = ends[i + 1]
          /\ ends[i + 1] <= o
      BY <3>1, <3>3, <1>2, SumsFacts
    <3> DEFINE x == ends[i]
               u == NlaAt(msg, i)
    <3>5. x \in Nat /\ u \in Seq(Byte) /\ Holds(buf, x, u) /\ x + Len(u) <= o
      BY <3>2, <3>3, <3>4
    <3> HIDE DEF x, u, o, t
    <3>6. Holds(Write(buf, o, t), x, u)
      BY <3>5, <1>2, <1>4, HoldsStays
    <3> QED
      BY <3>6 DEF x, u
  <2> QED
    BY <2>1, <2>2
<1>8. Filled(w, ends[k + 2])
  <2> HIDE DEF o, t, w
  <2>1. Filled(w, o)
    BY <1>3, <1>5 DEF Filled
  <2> QED
    BY <1>2, <1>5, <2>1, FilledBy
<1>9. ASSUME NEW i \in 1 .. k + 1 PROVE NlaFits(ValueLen(msg.variant, msg.nlas[i]))
  <2>1. i \in 1 .. k \/ i = k + 1
    BY <1>2
  <2> QED
    BY <2>1, <1>2, <1>3 DEF AllFit
<1>10. HeadRoom(msg.variant, buf')
  BY <1>2, <1>3 DEF HeadRoom
<1>11. k + 1 <= Len(msg.nlas)
  BY <1>2
<1> HIDE DEF w, o, t
<1>12. /\ AllFit(msg, k + 1) /\ Carries(msg, ends, buf', k + 1)
       /\ Filled(buf', ends[(k + 1) + 1]) /\ ends[(k + 1) + 1] <= Len(buf')
  BY <1>2, <1>4, <1>6, <1>7, <1>8, <1>9 DEF AllFit, Carries
<1> QED
  BY <1>1, <1>10, <1>11, <1>12 DEF Emitting

(* A message that has been written down to its last attribute was          *)
(* emittable, and the other way round.                                     *)
LEMMA PanicIsRight ==
  ASSUME TypeInv, Emitting, Panic
  PROVE  ~Emittable(msg)
<1>1. pc \in {"emitHead", "emitNlas"}
  BY DEF Panic
<1>2. /\ msg \in Message /\ ends \in Seq(Nat) /\ Sums(msg, ends) /\ k \in Nat
      /\ Len(buf) \in Nat
  BY <1>1 DEF TypeInv, TypeOK, Phases, Sizing, Encoding
<1>3. /\ Len(msg.nlas) \in Nat /\ Total \in Nat /\ ends[1] = HeaderLen(msg.variant)
      /\ \A i \in 1 .. Len(msg.nlas) + 1 : ends[i] \in Nat /\ ends[i] <= Total
  BY <1>2, SumsFacts DEF Total
<1>4. msg.nlas \in Seq(NlaSet(msg.variant)) /\ (msg.variant \in Requests => msg.nlas = << >>)
  BY <1>2, MessageShape
<1>5. CASE pc = "emitHead"
  <2>1. ~HeadRoom(msg.variant, buf)
    BY <1>5 DEF Panic
  <2>2. CASE msg.variant \in Requests
    <3>1. Total = ends[1]
      BY <2>2, <1>2, <1>4 DEF Total, Sums
    <3> QED
      BY <2>1, <2>2, <3>1, <1>3 DEF HeadRoom, Emittable
  <2>3. CASE msg.variant \notin Requests
    <3>1. ~(Len(buf) >= ends[1]) /\ ends[1] <= Total /\ ends[1] \in Nat
      <4>1. 1 \in 1 .. Len(msg.nlas) + 1
        BY <1>3
      <4> QED
        BY <2>1, <2>3, <4>1, <1>3 DEF HeadRoom
    <3>2. ~(Len(buf) >= Total)
      BY <3>1, <1>2, <1>3
    <3> QED
      BY <2>3, <3>2 DEF Emittable
  <2> QED
    BY <2>2, <2>3
<1>6. CASE pc = "emitNlas"
  <2>1. k < Len(msg.nlas) /\ ~NlaEmittable(msg.nlas[k + 1])
    BY <1>6 DEF Panic
  <2>2. k + 1 \in 1 .. Len(msg.nlas) /\ k + 2 \in 1 .. Len(msg.nlas) + 1
    BY <2>1, <1>2, <1>3
  <2>3. msg.variant \notin Requests /\ DOMAIN msg.nlas = 1 .. Len(msg.nlas)
    BY <2>2, <1>4
  <2>4. ~(ends[k + 2] <= Len(buf)) \/ ~NlaFits(ValueLen(msg.variant, msg.nlas[k + 1]))
    <3>1. /\ Len(EmitValue(msg.variant, msg.nlas[k + 1])) = ValueLen(msg.variant, msg.nlas[k + 1])
          /\ ValueLen(msg.variant, msg.nlas[k + 1]) <= ValueLen(msg.variant, msg.nlas[k + 1])
      BY <2>2, <1>2, NlaOf
    <3> QED
      BY <2>1, <3>1 DEF NlaEmittable
  <2>5. CASE ~(ends[k + 2] <= Len(buf))
    <3>1. ~(Len(buf) >= Total)
      BY <2>2, <2>5, <1>2, <1>3
    <3> QED
      BY <2>3, <3>1 DEF Emittable
  <2>6. CASE ~NlaFits(ValueLen(msg.variant, msg.nlas[k + 1]))
    BY <2>2, <2>3, <2>6 DEF Emittable
  <2> QED
    BY <2>4, <2>5, <2>6
<1> QED
  BY <1>1, <1>5, <1>6

LEMMA EmitEndSends ==
  ASSUME TypeInv, Emitting, EmitEnd
  PROVE  /\ sent' \in Message /\ Sent' /\ FullyWritten' /\ PanicExactly' /\ Emitting'
<1>1. /\ pc = "emitNlas" /\ k = Len(msg.nlas) /\ pc' = "head"
      /\ type' = MessageType(reader) /\ sent' = msg
      /\ UNCHANGED << reader, ends, buf, k >>
  BY DEF EmitEnd
<1>2. /\ msg \in Message /\ ends \in Seq(Nat) /\ Sums(msg, ends) /\ buf \in Seq(Cell)
  BY <1>1 DEF TypeInv, TypeOK, Phases, Sizing, Encoding, Cell
<1>3. /\ Len(msg.nlas) \in Nat /\ Len(ends) = Len(msg.nlas) + 1
      /\ ends[1] = HeaderLen(msg.variant)
      /\ \A i \in 1 .. Len(msg.nlas) : ends[i] \in Nat
  BY <1>2, SumsFacts DEF Sums
<1>4. /\ HeadRoom(msg.variant, buf) /\ ends[Len(ends)] <= Len(buf)
      /\ AllFit(msg, Len(msg.nlas))
      /\ Carries(msg, ends, buf, Len(msg.nlas)) /\ Filled(buf, ends[Len(ends)])
  BY <1>1, <1>3 DEF Emitting
<1>5. /\ Len(wire') = Len(buf)
      /\ \A off \in Nat : \A t \in Seq(Byte) : Holds(buf, off, t) => Holds(wire', off, t)
  BY SentFacts
<1>6. Carries(msg, ends, wire', Len(msg.nlas))
  <2>1. EmitHeader(msg) \in Seq(Byte)
    BY <1>2, MessageShape, HeaderBytes DEF Bytes
  <2>2. Holds(wire', 0, EmitHeader(msg))
    BY <2>1, <1>4, <1>5, 0 \in Nat DEF Carries
  <2>3. ASSUME NEW i \in 1 .. Len(msg.nlas) PROVE Holds(wire', ends[i], NlaAt(msg, i))
    <3>1. NlaAt(msg, i) \in Seq(Byte) /\ ends[i] \in Nat
      BY <1>2, <1>3, <1>4, NlaAtFacts DEF AllFit
    <3>2. Holds(buf, ends[i], NlaAt(msg, i))
      BY <1>4 DEF Carries
    <3> QED
      BY <3>1, <3>2, <1>5
  <2> QED
    BY <2>2, <2>3 DEF Carries
<1>7. Sent'
  BY <1>1, <1>4, <1>5, <1>6 DEF Sent
<1>8. FullyWritten'
  BY <1>1, <1>4 DEF FullyWritten, Total, Filled
<1>9. PanicExactly'
  <2>1. Len(buf) \in Nat /\ Len(buf) >= ends[Len(ends)] /\ ends[Len(ends)] \in Nat
    BY <1>2, <1>4, SumsFacts
  <2>2. msg.variant \in Requests => Len(buf) = ends[Len(ends)]
    <3> SUFFICES ASSUME msg.variant \in Requests PROVE Len(buf) = ends[Len(ends)]
      OBVIOUS
    <3>1. Len(ends) = 1
      BY <1>2, <1>3, MessageShape
    <3> QED
      BY <3>1, <1>3, <1>4 DEF HeadRoom
  <2>3. DOMAIN msg.nlas = 1 .. Len(msg.nlas)
    BY <1>2, MessageShape
  <2> QED
    BY <1>1, <1>4, <2>1, <2>2, <2>3 DEF PanicExactly, Emittable, Total, AllFit
<1> QED
  BY <1>1, <1>2, <1>7, <1>8, <1>9 DEF Emitting

LEMMA NextEmits ==
  ASSUME TypeInv, EmitInv, [Next]_vars
  PROVE  EmitInv'
<1> USE DEF EmitInv
<1>1. CASE AcceptHead \/ RefuseHead \/ ParseNla \/ RefuseNla \/ ParseEnd \/ Deliver
  <2>1. /\ pc' \notin {"panicked", "emitHead", "emitNlas"}
        /\ UNCHANGED << reader, type, wire, ends, buf, sent >>
    BY <1>1 DEF AcceptHead, RefuseHead, ParseNla, RefuseNla, ParseEnd, Deliver
  <2> QED
    BY <2>1 DEF Emitting, Sent, PanicExactly, Emittable, FullyWritten, Total
<1>2. CASE Relay \/ SizeNla \/ SizeEnd \/ Allocate
  <2>1. /\ pc' \notin {"panicked", "emitNlas"} /\ (pc' = "emitHead" => k' = 0)
        /\ sent' = sent
    BY <1>2 DEF Relay, SizeNla, SizeEnd, Allocate
  <2>2. sent = Nothing
    BY <1>2 DEF Relay, SizeNla, SizeEnd, Allocate, TypeInv, Phases, Encoding
  <2> QED
    BY <2>1, <2>2 DEF Emitting, Sent, PanicExactly, FullyWritten
<1>3. CASE EmitHead
  <2>1. Emitting'
    BY <1>3, EmitHeadEmits
  <2>2. sent' = Nothing /\ pc' = "emitNlas"
    BY <1>3 DEF EmitHead, TypeInv, Phases, Encoding
  <2> QED
    BY <2>1, <2>2 DEF Sent, PanicExactly, FullyWritten
<1>4. CASE EmitNla
  <2>1. Emitting'
    BY <1>4, EmitNlaEmits
  <2>2. sent' = Nothing /\ pc' = "emitNlas"
    BY <1>4 DEF EmitNla, TypeInv, Phases, Encoding
  <2> QED
    BY <2>1, <2>2 DEF Sent, PanicExactly, FullyWritten
<1>5. CASE Panic
  <2>1. ~Emittable(msg)
    BY <1>5, PanicIsRight
  <2>2. /\ pc' = "panicked" /\ UNCHANGED << reader, type, wire, msg, ends, buf, k, sent >>
    BY <1>5 DEF Panic
  <2> QED
    BY <2>1, <2>2 DEF Emitting, Sent, PanicExactly, Emittable, FullyWritten, Total
<1>6. CASE EmitEnd
  BY <1>6, EmitEndSends
<1>7. CASE UNCHANGED vars
  BY <1>7 DEF vars, Emitting, Sent, PanicExactly, Emittable, FullyWritten, Total
<1> QED
  BY <1>1, <1>2, <1>3, <1>4, <1>5, <1>6, <1>7 DEF Next

LEMMA InitEmits == Init => EmitInv
BY DEF Init, Arrive, Build, EmitInv, Emitting, Sent, PanicExactly, FullyWritten

LEMMA EmitHolds == Spec => [](TypeInv /\ EmitInv)
<1>1. Init => TypeInv /\ EmitInv
  BY InitTypes, InitEmits
<1>2. (TypeInv /\ EmitInv) /\ [Next]_vars => (TypeInv /\ EmitInv)'
  BY NextTypes, NextEmits
<1> QED
  BY <1>1, <1>2, PTL DEF Spec

(* emit panics when and only when the buffer is not the one buffer_len()   *)
(* asked for, or an attribute outgrows its 16-bit length.                  *)
THEOREM PanicExactlyHolds == Spec => []PanicExactly
<1>1. TypeInv /\ EmitInv => PanicExactly
  BY DEF EmitInv
<1> QED
  BY <1>1, EmitHolds, PTL

(* No byte of what the buffer held before is sent.                         *)
THEOREM FullyWrittenHolds == Spec => []FullyWritten
<1>1. TypeInv /\ EmitInv => FullyWritten
  BY DEF EmitInv
<1> QED
  BY <1>1, EmitHolds, PTL
-----------------------------------------------------------------------------
(***************************************************************************)
(* The round trip.  The peer reads the header back, then one attribute     *)
(* after the other where the sums of buffer_len() say it was written, and  *)
(* is at the end of the payload when, and only when, it has the last.      *)
(***************************************************************************)
ReadSoFar ==
  /\ msg.variant = sent.variant /\ msg.header = sent.header
  /\ Len(msg.nlas) <= Len(sent.nlas)
  /\ \A i \in 1 .. Len(msg.nlas) : msg.nlas[i] = sent.nlas[i]
  /\ pos = ends[Len(msg.nlas) + 1]

Readable == sent # Nothing /\ Survives(sent)

ComesBack == Readable /\ Len(buf) = Total

Returning ==
  ComesBack =>
    /\ pc # "refused"
    /\ pc = "nlas" => ReadSoFar
    /\ pc \in {"parsed", "delivered"} => msg = sent

LEMMA SentFactsHold ==
  ASSUME TypeInv, EmitInv, Readable
  PROVE  /\ sent \in Message /\ ends \in Seq(Nat) /\ Sums(sent, ends)
         /\ wire \in Seq(Byte) /\ Len(wire) = Len(buf) /\ Total = ends[Len(sent.nlas) + 1]
         /\ Total \in Nat /\ Total <= Len(wire)
         /\ Len(buf) # Total => sent.variant \in Responses
         /\ pc \notin Encoding
         /\ AllFit(sent, Len(sent.nlas)) /\ Carries(sent, ends, wire, Len(sent.nlas))
<1>1. sent # Nothing
  BY DEF Readable
<1>2. /\ sent \in Message /\ ends \in Seq(Nat) /\ Sums(sent, ends) /\ wire \in Seq(Byte)
      /\ pc \notin Encoding
  BY <1>1 DEF TypeInv, TypeOK, Phases, Sizing
<1>3. /\ Len(wire) = Len(buf) /\ AllFit(sent, Len(sent.nlas))
      /\ Carries(sent, ends, wire, Len(sent.nlas))
  BY <1>1 DEF EmitInv, Sent
<1>4. Len(ends) = Len(sent.nlas) + 1
  BY <1>2 DEF Sums
<1>5. Total \in Nat
  BY <1>2, SumsFacts DEF Total
<1>6. Emittable(sent)
  BY <1>1 DEF EmitInv, PanicExactly
<1>7. Total <= Len(buf) /\ (Len(buf) # Total => sent.variant \in Responses)
  <2>1. sent.variant \in Variants /\ Len(buf) \in Nat
    BY <1>2, <1>3, MessageShape
  <2> QED
    BY <2>1, <1>5, <1>6, VariantSets DEF Emittable
<1> QED
  BY <1>1, <1>2, <1>3, <1>4, <1>5, <1>7 DEF Total

LEMMA HeadComesBack ==
  ASSUME TypeInv, EmitInv, Readable
  PROVE  /\ HeadOk /\ Variant = sent.variant /\ Header.val = sent.header
<1>1. /\ sent \in Message /\ wire \in Seq(Byte) /\ Holds(wire, 0, EmitHeader(sent))
  BY SentFactsHold DEF Carries
<1>2. sent.variant \in Variants /\ sent.header \in HeaderSet(sent.variant)
  BY <1>1, MessageShape
<1>3. HeaderSurvives(sent.variant, sent.header)
  BY <1>2, FlagsAre DEF Readable, Survives, Faithful, HeaderSurvives
<1>4. /\ ParseHeader(sent.variant, wire) = Ok(sent.header)
      /\ sent.variant \in Responses => VariantOf(SOCK_DIAG_BY_FAMILY, wire) = sent.variant
  BY <1>1, <1>2, <1>3, HeaderBack
<1>5. /\ reader = IF sent.variant \in Requests THEN sent.variant ELSE "SockDiagMessage"
      /\ type = MessageType(reader)
  BY DEF Readable, Survives, Faithful, EmitInv, Sent
<1>6. Variant = sent.variant
  <2>1. CASE sent.variant \in Requests
    BY <2>1, <1>5 DEF Variant, ReadAs
  <2>2. CASE sent.variant \notin Requests
    <3>1. reader = "SockDiagMessage" /\ reader \notin Requests
      BY <2>2, <1>5 DEF Requests
    <3>2. type = SOCK_DIAG_BY_FAMILY
      BY <3>1, <1>5 DEF MessageType
    <3> QED
      BY <2>2, <3>1, <3>2, <1>2, <1>4, VariantSets DEF Variant, ReadAs
  <2> QED
    BY <2>1, <2>2
<1>7. Variant # "none"
  BY <1>2, <1>6, VariantSets
<1>8. Header = Ok(sent.header)
  BY <1>4, <1>6 DEF Header
<1> QED
  BY <1>6, <1>7, <1>8 DEF HeadOk, Ok

(* The next attribute is there and is the one that was written.            *)
LEMMA NlaComesBack ==
  ASSUME TypeInv, EmitInv, Readable, pc = "nlas", ReadSoFar,
         Len(msg.nlas) # Len(sent.nlas)
  PROVE  /\ NlaOk /\ ~AtEnd(wire, pos)
         /\ Len(msg.nlas) + 1 <= Len(sent.nlas)
         /\ NlaHere.val = sent.nlas[Len(msg.nlas) + 1]
         /\ NextNla(wire, pos) = ends[Len(msg.nlas) + 2]
<1> DEFINE i     == Len(msg.nlas) + 1
           a     == sent.nlas[i]
           value == EmitValue(sent.variant, a)
<1>1. /\ sent \in Message /\ ends \in Seq(Nat) /\ Sums(sent, ends) /\ wire \in Seq(Byte)
      /\ Total = ends[Len(sent.nlas) + 1] /\ Total \in Nat /\ Total <= Len(wire)
      /\ AllFit(sent, Len(sent.nlas)) /\ Carries(sent, ends, wire, Len(sent.nlas))
  BY SentFactsHold
<1>2. Len(msg.nlas) \in Nat /\ Len(sent.nlas) \in Nat
  <2>1. msg \in Message
    BY DEF TypeInv, Phases
  <2> QED
    BY <2>1, <1>1, MessageShape
<1>3. /\ i \in 1 .. Len(sent.nlas) /\ i + 1 = Len(msg.nlas) + 2
      /\ i + 1 \in 1 .. Len(sent.nlas) + 1
      /\ pos = ends[i] /\ msg.variant = sent.variant
  BY <1>2 DEF ReadSoFar
<1> HIDE DEF i
<1>4. /\ sent.variant \in Responses /\ a \in NlaSet(sent.variant)
      /\ Kind(sent.variant, a) \in Word16
      /\ value \in Seq(Byte) /\ Len(value) = ValueLen(sent.variant, a)
  BY <1>1, <1>3, NlaOf
<1>5. NlaSurvives(sent.variant, a)
  <2>1. DOMAIN sent.nlas = 1 .. Len(sent.nlas)
    BY <1>1, MessageShape
  <2> QED
    BY <2>1, <1>3 DEF Readable, Survives, Faithful
<1>6. NlaFits(Len(value)) /\ Holds(wire, pos, NlaBytes(Kind(sent.variant, a), value))
  BY <1>1, <1>3, <1>4 DEF AllFit, Carries, NlaAt
<1>7. ParseNlaValue(sent.variant, Kind(sent.variant, a), value) = Ok(a)
  BY <1>4, <1>5, NlaBack
<1>8. ends[i] \in Nat /\ ends[i + 1] = ends[i] + NlaBufferLen(Len(value))
  BY <1>1, <1>3, <1>4, SumsFacts
<1>9. ends[i] + 4 <= ends[i + 1] /\ ends[i + 1] <= Len(wire) /\ ends[i + 1] \in Nat
  <2>1. Len(ends) = Len(sent.nlas) + 1
    BY <1>1 DEF Sums
  <2>2. ends[i] + 4 <= ends[i + 1] /\ ends[i + 1] <= Total /\ ends[i + 1] \in Nat
    BY <2>1, <1>1, <1>3, SumsFacts
  <2> QED
    BY <2>2, <1>1
<1> HIDE DEF a, value
<1>10. /\ NlaChecked(wire, pos) /\ NlaLength(wire, pos) = NLA_HEADER_SIZE + Len(value)
       /\ NlaType(wire, pos) = Kind(sent.variant, a) /\ NlaValue(wire, pos) = value
  BY <1>1, <1>3, <1>4, <1>6, <1>8, NlaReadBack
<1>11. NlaHere = Ok(a)
  BY <1>3, <1>7, <1>10 DEF NlaHere
<1>12. NlaOk /\ NlaHere.val = a
  BY <1>10, <1>11 DEF NlaOk, Ok
<1>13. NextNla(wire, pos) = ends[i + 1]
  <2>1. AlignTo4(NLA_HEADER_SIZE + Len(value)) = NLA_HEADER_SIZE + AlignTo4(Len(value))
    BY <1>4, AlignFacts
  <2> QED
    BY <2>1, <1>3, <1>8, <1>10 DEF NextNla, NlaBufferLen
<1>14. ~AtEnd(wire, pos)
  <2> DEFINE x == ends[i]
             y == ends[i + 1]
             n == Len(wire)
  <2>1. x \in Nat /\ y \in Nat /\ n \in Nat /\ x + 4 <= y /\ y <= n /\ pos = x
    BY <1>1, <1>3, <1>8, <1>9
  <2> HIDE DEF x, y, n
  <2>2. ~(x >= n)
    BY <2>1
  <2> QED
    BY <2>1, <2>2 DEF AtEnd, n
<1> QED
  BY <1>2, <1>3, <1>12, <1>13, <1>14 DEF i, a

(* Behind the last one there is nothing.                                   *)
LEMMA EndComesBack ==
  ASSUME TypeInv, EmitInv, ComesBack, pc = "nlas", ReadSoFar,
         Len(msg.nlas) = Len(sent.nlas)
  PROVE  AtEnd(wire, pos) /\ msg = sent
<1>1. sent \in Message /\ Len(wire) = ends[Len(sent.nlas) + 1] /\ msg \in Message
  BY SentFactsHold DEF TypeInv, Phases, ComesBack
<1>2. AtEnd(wire, pos)
  <2>1. pos = Len(wire) /\ pos \in Nat
    BY <1>1 DEF ReadSoFar, TypeInv, TypeOK
  <2> QED
    BY <2>1 DEF AtEnd
<1>3. /\ msg.nlas \in Seq(NlaSet(sent.variant)) /\ sent.nlas \in Seq(NlaSet(sent.variant))
      /\ msg = [variant |-> msg.variant, header |-> msg.header, nlas |-> msg.nlas]
      /\ sent = [variant |-> sent.variant, header |-> sent.header, nlas |-> sent.nlas]
      /\ msg.variant = sent.variant /\ msg.header = sent.header
      /\ \A i \in 1 .. Len(msg.nlas) : msg.nlas[i] = sent.nlas[i]
  BY <1>1, MessageShape DEF ReadSoFar
<1>4. msg.nlas = sent.nlas
  BY <1>3, SeqEqual
<1> QED
  BY <1>2, <1>3, <1>4

(* What the peer does leaves what was sent alone.                          *)
LEMMA PeerSteps ==
  ASSUME TypeInv, [Next]_vars, sent # Nothing
  PROVE  /\ UNCHANGED << reader, ends, buf, sent >>
         /\ \/ AcceptHead \/ RefuseHead \/ ParseNla \/ RefuseNla \/ ParseEnd \/ Deliver
            \/ UNCHANGED vars
<1>1. pc \notin Encoding
  BY DEF TypeInv, Phases
<1>2. ~(Relay \/ SizeNla \/ SizeEnd \/ Allocate \/ EmitHead \/ EmitNla \/ Panic \/ EmitEnd)
  BY <1>1 DEF Relay, SizeNla, SizeEnd, Allocate, EmitHead, EmitNla, Panic, EmitEnd, Encoding
<1>3. \/ AcceptHead \/ RefuseHead \/ ParseNla \/ RefuseNla \/ ParseEnd \/ Deliver
      \/ UNCHANGED vars
  BY <1>2 DEF Next
<1>4. UNCHANGED << reader, ends, buf, sent >>
  BY <1>3 DEF AcceptHead, RefuseHead, ParseNla, RefuseNla, ParseEnd, Deliver, vars
<1> QED
  BY <1>3, <1>4

LEMMA SentOnce ==
  ASSUME TypeInv, [Next]_vars, sent = Nothing, sent' # Nothing
  PROVE  EmitEnd
BY DEF Next, AcceptHead, RefuseHead, ParseNla, RefuseNla, ParseEnd, Relay, Deliver,
       SizeNla, SizeEnd, Allocate, EmitHead, EmitNla, Panic, vars

LEMMA HeadReads ==
  ASSUME TypeInv, EmitInv, Readable, AcceptHead
  PROVE  /\ sent.variant \in Responses => pc' = "nlas" /\ ReadSoFar'
         /\ sent.variant \notin Responses => pc' = "parsed" /\ msg' = sent'
<1>1. /\ sent \in Message /\ ends \in Seq(Nat) /\ Sums(sent, ends)
  BY SentFactsHold
<1>2. /\ msg'.variant = sent.variant /\ msg'.header = sent.header /\ msg'.nlas = << >>
      /\ msg' = [variant |-> sent.variant, header |-> sent.header, nlas |-> << >>]
      /\ pos' = HeaderLen(sent.variant)
      /\ pc' \in {"nlas", "parsed"} /\ (pc' = "nlas" <=> sent.variant \in Responses)
      /\ UNCHANGED << ends, sent >>
  BY HeadComesBack, AcceptHeadFacts
<1>3. CASE sent.variant \in Responses
  <2>1. Len(msg'.nlas) = 0 /\ 1 .. 0 = {} /\ ends[0 + 1] = HeaderLen(sent.variant)
        /\ 0 <= Len(sent.nlas)
    BY <1>1, <1>2, SumsFacts
  <2>2. ReadSoFar'
    BY <1>2, <2>1 DEF ReadSoFar
  <2> QED
    BY <1>2, <1>3, <2>2
<1>4. CASE sent.variant \notin Responses
  <2>1. /\ sent.nlas = << >>
        /\ sent = [variant |-> sent.variant, header |-> sent.header, nlas |-> sent.nlas]
    BY <1>1, <1>4, MessageShape, VariantSets
  <2> QED
    BY <1>2, <1>4, <2>1
<1> QED
  BY <1>3, <1>4

LEMMA NlaReads ==
  ASSUME TypeInv, EmitInv, Readable, ReadSoFar, Len(msg.nlas) # Len(sent.nlas),
         ParseNla \/ RefuseNla \/ ParseEnd
  PROVE  pc' = "nlas" /\ ReadSoFar'
<1>1. pc = "nlas"
  BY DEF ParseNla, RefuseNla, ParseEnd
<1>2. /\ NlaOk /\ ~AtEnd(wire, pos)
      /\ Len(msg.nlas) + 1 <= Len(sent.nlas)
      /\ NlaHere.val = sent.nlas[Len(msg.nlas) + 1]
      /\ NextNla(wire, pos) = ends[Len(msg.nlas) + 2]
  BY <1>1, NlaComesBack
<1>3. ParseNla
  BY <1>2 DEF RefuseNla, ParseEnd
<1>4. /\ pc' = "nlas"
      /\ msg'.variant = msg.variant /\ msg'.header = msg.header
      /\ Len(msg.nlas) \in Nat /\ Len(msg'.nlas) = Len(msg.nlas) + 1
      /\ \A i \in 1 .. Len(msg.nlas) : msg'.nlas[i] = msg.nlas[i]
      /\ msg'.nlas[Len(msg.nlas) + 1] = NlaHere.val
      /\ pos' = NextNla(wire, pos)
      /\ UNCHANGED << ends, sent >>
  BY <1>3, ParseNlaFacts
<1>5. ASSUME NEW i \in 1 .. Len(msg'.nlas) PROVE msg'.nlas[i] = sent.nlas[i]
  <2>1. i \in 1 .. Len(msg.nlas) \/ i = Len(msg.nlas) + 1
    BY <1>4
  <2> QED
    BY <2>1, <1>2, <1>4 DEF ReadSoFar
<1>6. Len(msg'.nlas) <= Len(sent.nlas) /\ Len(msg'.nlas) + 1 = Len(msg.nlas) + 2
  BY <1>2, <1>4
<1>7. ReadSoFar'
  BY <1>2, <1>4, <1>5, <1>6 DEF ReadSoFar
<1> QED
  BY <1>4, <1>7

LEMMA NextReturns ==
  ASSUME TypeInv, EmitInv, Returning, [Next]_vars
  PROVE  Returning'
<1>1. CASE sent = Nothing
  <2>1. sent' # Nothing => pc' = "head"
    BY <1>1, SentOnce DEF EmitEnd
  <2> QED
    BY <2>1 DEF Returning, ComesBack, Readable
<1>2. CASE sent # Nothing
  <2> SUFFICES ASSUME ComesBack'
               PROVE  /\ pc' # "refused"
                      /\ pc' = "nlas" => ReadSoFar'
                      /\ pc' \in {"parsed", "delivered"} => msg' = sent'
    BY DEF Returning
  <2>1. /\ UNCHANGED << reader, ends, buf, sent >>
        /\ \/ AcceptHead \/ RefuseHead \/ ParseNla \/ RefuseNla \/ ParseEnd \/ Deliver
           \/ UNCHANGED vars
    BY <1>2, PeerSteps
  <2>2. ComesBack /\ Readable
    BY <2>1 DEF ComesBack, Readable, Survives, Faithful, Total
  <2>3. CASE AcceptHead
    BY <2>2, <2>3, HeadReads
  <2>4. CASE RefuseHead
    BY <2>2, <2>4, HeadComesBack DEF RefuseHead
  <2>5. CASE ParseNla \/ RefuseNla \/ ParseEnd
    <3>1. pc = "nlas" /\ ReadSoFar
      BY <2>2, <2>5 DEF ParseNla, RefuseNla, ParseEnd, Returning
    <3>2. CASE Len(msg.nlas) = Len(sent.nlas)
      <4>1. AtEnd(wire, pos) /\ msg = sent
        BY <2>2, <3>1, <3>2, EndComesBack
      <4>2. pc' = "parsed" /\ msg' = msg
        BY <2>5, <4>1 DEF ParseNla, RefuseNla, ParseEnd
      <4> QED
        BY <2>1, <4>1, <4>2
    <3>3. CASE Len(msg.nlas) # Len(sent.nlas)
      BY <2>2, <2>5, <3>1, <3>3, NlaReads
    <3> QED
      BY <3>2, <3>3
  <2>6. CASE Deliver
    BY <2>1, <2>2, <2>6 DEF Deliver, Returning
  <2>7. CASE UNCHANGED vars
    BY <2>1, <2>2, <2>7 DEF vars, Returning, ReadSoFar
  <2> QED
    BY <2>1, <2>3, <2>4, <2>5, <2>6, <2>7
<1> QED
  BY <1>1, <1>2

LEMMA ReturnHolds == Spec => [](TypeInv /\ DecodeInv /\ EmitInv /\ Returning)
<1> DEFINE Inv == TypeInv /\ DecodeInv /\ EmitInv /\ Returning
<1>1. Init => Inv
  BY InitTypes, InitDecodes, InitEmits DEF Init, Returning, ComesBack, Readable
<1>2. Inv /\ [Next]_vars => Inv'
  BY NextTypes, NextDecodes, NextEmits, NextReturns
<1> QED
  BY <1>1, <1>2, PTL DEF Spec

(* What was emitted into a buffer of buffer_len() bytes comes back         *)
(* unchanged exactly if it Survives, whatever else the program built.      *)
THEOREM RoundTripHolds == Spec => []RoundTrip
<1>1. ASSUME TypeInv, DecodeInv, EmitInv, Returning PROVE RoundTrip
  <2> SUFFICES ASSUME pc \in {"delivered", "refused"}, sent # Nothing, Len(buf) = Total
               PROVE  (pc = "delivered" /\ msg = sent) <=> Survives(sent)
    BY DEF RoundTrip
  <2>1. ASSUME Survives(sent) PROVE pc = "delivered" /\ msg = sent
    BY <1>1, <2>1 DEF Returning, ComesBack, Readable
  <2>2. ASSUME pc = "delivered", msg = sent PROVE Survives(sent)
    BY <1>1, <2>2, DecodedIsFaithful DEF EmitInv, Sent
  <2> QED
    BY <2>1, <2>2
<1> QED
  BY <1>1, ReturnHolds, PTL

-----------------------------------------------------------------------------
(***************************************************************************)
(* A longer buffer.  What was sent comes before anything that is left over *)
(* in it: the peer has read it all before it gets there, and what it reads *)
(* then is appended.                                                       *)
(***************************************************************************)
SentFirst ==
  /\ msg.variant = sent.variant /\ msg.header = sent.header
  /\ \A i \in 1 .. Len(sent.nlas) : i <= Len(msg.nlas) /\ msg.nlas[i] = sent.nlas[i]

Coming ==
  /\ pc = "delivered" => sent # Nothing
  /\ Readable =>
       /\ pc = "nlas" => ReadSoFar \/ SentFirst
       /\ pc \in {"parsed", "delivered"} => SentFirst

LEMMA AllRead ==
  ASSUME ReadSoFar, Len(msg.nlas) = Len(sent.nlas)
  PROVE  SentFirst
<1> DEFINE n == Len(sent.nlas)
<1>1. \A i \in 1 .. n : i <= n
  OBVIOUS
<1> QED
  BY <1>1 DEF ReadSoFar, SentFirst

LEMMA MoreRead ==
  ASSUME TypeInv, EmitInv, Readable, ParseNla, SentFirst
  PROVE  SentFirst'
<1>1. /\ msg'.variant = msg.variant /\ msg'.header = msg.header /\ sent' = sent
      /\ Len(msg.nlas) \in Nat /\ Len(msg'.nlas) = Len(msg.nlas) + 1
      /\ \A i \in 1 .. Len(msg.nlas) : msg'.nlas[i] = msg.nlas[i]
  BY ParseNlaFacts
<1>2. ASSUME NEW i \in 1 .. Len(sent.nlas)
      PROVE  i <= Len(msg'.nlas) /\ msg'.nlas[i] = sent.nlas[i]
  <2> DEFINE n == Len(msg.nlas)
  <2>1. n \in Nat /\ i <= n /\ msg.nlas[i] = sent.nlas[i] /\ i \in Int /\ 1 <= i
    BY <1>1 DEF SentFirst
  <2> HIDE DEF n
  <2>2. i \in 1 .. n /\ i <= n + 1
    BY <2>1
  <2> QED
    BY <2>1, <2>2, <1>1 DEF n
<1> QED
  BY <1>1, <1>2 DEF SentFirst

LEMMA NextComes ==
  ASSUME TypeInv, EmitInv, Coming, [Next]_vars
  PROVE  Coming'
<1>1. CASE sent = Nothing
  <2>1. sent' # Nothing => pc' = "head"
    BY <1>1, SentOnce DEF EmitEnd
  <2>2. sent' = Nothing => pc' # "delivered"
    <3> SUFFICES ASSUME pc' = "delivered" PROVE sent' # Nothing
      OBVIOUS
    <3>1. Deliver \/ UNCHANGED vars
      BY DEF Next, AcceptHead, RefuseHead, ParseNla, RefuseNla, ParseEnd, Relay,
             SizeNla, SizeEnd, Allocate, EmitHead, EmitNla, Panic, EmitEnd
    <3> QED
      BY <1>1, <3>1 DEF Deliver, Coming, vars
  <2> QED
    BY <2>1, <2>2 DEF Coming, Readable
<1>2. CASE sent # Nothing
  <2>1. /\ UNCHANGED << reader, ends, buf, sent >>
        /\ \/ AcceptHead \/ RefuseHead \/ ParseNla \/ RefuseNla \/ ParseEnd \/ Deliver
           \/ UNCHANGED vars
    BY <1>2, PeerSteps
  <2> SUFFICES ASSUME Readable'
               PROVE  /\ pc' = "nlas" => ReadSoFar' \/ SentFirst'
                      /\ pc' \in {"parsed", "delivered"} => SentFirst'
    BY <1>2, <2>1 DEF Coming
  <2>2. Readable
    BY <2>1 DEF Readable, Survives, Faithful
  <2>3. CASE AcceptHead
    <3>1. \/ pc' = "nlas" /\ ReadSoFar'
          \/ pc' = "parsed" /\ msg' = sent'
      BY <2>2, <2>3, HeadReads
    <3>2. msg' = sent' => SentFirst'
      <4> SUFFICES ASSUME msg' = sent' PROVE SentFirst'
        OBVIOUS
      <4> DEFINE n == Len(sent'.nlas)
      <4>1. \A i \in 1 .. n : i <= n
        OBVIOUS
      <4> QED
        BY <4>1 DEF SentFirst
    <3> QED
      BY <3>1, <3>2
  <2>4. CASE RefuseHead \/ RefuseNla
    BY <2>4 DEF RefuseHead, RefuseNla
  <2>5. CASE ParseNla \/ ParseEnd
    <3>1. pc = "nlas" /\ (ReadSoFar \/ SentFirst)
      BY <2>2, <2>5 DEF ParseNla, ParseEnd, Coming
    <3>2. CASE ReadSoFar /\ Len(msg.nlas) # Len(sent.nlas)
      <4>1. pc' = "nlas" /\ ReadSoFar'
        BY <2>2, <2>5, <3>2, NlaReads
      <4> QED
        BY <4>1
    <3>3. CASE SentFirst \/ (ReadSoFar /\ Len(msg.nlas) = Len(sent.nlas))
      <4>1. SentFirst
        BY <3>3, AllRead
      <4>2. CASE ParseNla
        BY <2>2, <4>1, <4>2, MoreRead
      <4>3. CASE ParseEnd
        BY <4>1, <4>3 DEF ParseEnd, SentFirst
      <4> QED
        BY <2>5, <4>2, <4>3
    <3> QED
      BY <3>1, <3>2, <3>3
  <2>6. CASE Deliver
    BY <2>2, <2>6 DEF Deliver, Coming, SentFirst
  <2>7. CASE UNCHANGED vars
    BY <2>2, <2>7 DEF vars, Coming, SentFirst, ReadSoFar
  <2> QED
    BY <2>1, <2>3, <2>4, <2>5, <2>6, <2>7
<1> QED
  BY <1>1, <1>2

(* Whatever is left over in a longer buffer, a peer that accepts it has    *)
(* the message that was emitted, its attributes unchanged and in front.    *)
THEOREM SentComesFirstHolds == Spec => []SentComesFirst
<1> DEFINE Inv == TypeInv /\ EmitInv /\ Coming
<1>1. Init => Inv
  BY InitTypes, InitEmits DEF Init, Arrive, Build, Coming, Readable
<1>2. Inv /\ [Next]_vars => Inv'
  BY NextTypes, NextEmits, NextComes
<1>3. ASSUME Inv PROVE SentComesFirst
  <2> SUFFICES ASSUME pc = "delivered", Survives(sent)
               PROVE  /\ msg.variant = sent.variant /\ msg.header = sent.header
                      /\ \A i \in DOMAIN sent.nlas : i \in DOMAIN msg.nlas
                                                     /\ msg.nlas[i] = sent.nlas[i]
    BY DEF SentComesFirst
  <2>1. Readable /\ SentFirst
    BY <1>3 DEF Coming, Readable
  <2>2. msg \in Message /\ sent \in Message
    BY <1>3, <2>1, SentFactsHold DEF TypeInv, Phases
  <2>3. /\ DOMAIN sent.nlas = 1 .. Len(sent.nlas) /\ DOMAIN msg.nlas = 1 .. Len(msg.nlas)
        /\ Len(sent.nlas) \in Nat /\ Len(msg.nlas) \in Nat
    BY <2>2, MessageShape
  <2>4. ASSUME NEW i \in 1 .. Len(sent.nlas)
        PROVE  i \in 1 .. Len(msg.nlas) /\ msg.nlas[i] = sent.nlas[i]
    <3> DEFINE n == Len(msg.nlas)
    <3>1. n \in Nat /\ i <= n /\ i \in Int /\ 1 <= i /\ msg.nlas[i] = sent.nlas[i]
      BY <2>1, <2>3 DEF SentFirst
    <3> HIDE DEF n
    <3>2. i \in 1 .. n
      BY <3>1
    <3> QED
      BY <3>1, <3>2 DEF n
  <2> QED
    BY <2>1, <2>3, <2>4 DEF SentFirst
<1> QED
  BY <1>1, <1>2, <1>3, PTL DEF Spec
=============================================================================
