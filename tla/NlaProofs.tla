------------------------------ MODULE NlaProofs ------------------------------
(***************************************************************************)
(* The attributes: every value fills exactly the slice value_len() asks    *)
(* for, what is parsed is an attribute, and an attribute that survives is  *)
(* parsed back from the value it emits.                                    *)
(***************************************************************************)
EXTENDS SockDiagCodec, WireProofs

(* The value parsers, on values of the right length.                       *)
LEMMA ExactlyOk ==
  ASSUME NEW tag, NEW n \in Nat, NEW v \in Bytes(n)
  PROVE  Exactly(tag, n, v) = Ok(Attr(tag, v))
BY DEF Exactly, Bytes

LEMMA AtLeastOk ==
  ASSUME NEW tag, NEW n \in Nat, NEW v \in Bytes(n)
  PROVE  AtLeast(tag, n, v) = Ok(Attr(tag, v))
<1>1. v \in Seq(Byte) /\ Len(v) = n
  BY DEF Bytes
<1>2. Slice(v, 0, Len(v)) = v
  BY <1>1, HoldsItself, HoldsSlice
<1> QED
  BY <1>1, <1>2 DEF AtLeast

(* The value parsers, on any value.                                        *)
LEMMA ExactlyTyped ==
  ASSUME NEW tag, NEW n \in Nat, NEW v \in Seq(Byte), Exactly(tag, n, v).ok
  PROVE  v \in Bytes(n) /\ Exactly(tag, n, v).val = Attr(tag, v)
BY DEF Exactly, Bytes, Err, Ok

LEMMA AtLeastTyped ==
  ASSUME NEW tag, NEW n \in Nat, NEW v \in Seq(Byte), AtLeast(tag, n, v).ok
  PROVE  Slice(v, 0, n) \in Bytes(n) /\ AtLeast(tag, n, v).val = Attr(tag, Slice(v, 0, n))
<1>1. Len(v) >= n /\ AtLeast(tag, n, v).val = Attr(tag, Slice(v, 0, n))
  BY DEF AtLeast, Err, Ok
<1>2. Slice(v, 0, n) \in Bytes(n)
  BY <1>1, SliceBytes
<1> QED
  BY <1>1, <1>2

LEMMA AppendFacts ==
  ASSUME NEW S, NEW s \in Seq(S), NEW e \in S
  PROVE  /\ Append(s, e) \in Seq(S)
         /\ Len(Append(s, e)) = Len(s) + 1
         /\ Append(s, e)[Len(s) + 1] = e
         /\ \A i \in 1 .. Len(s) : Append(s, e)[i] = s[i]
OBVIOUS

(* A string comes back from its bytes and a NUL.                           *)
LEMMA StringOk ==
  ASSUME NEW tag, NEW s \in String
  PROVE  ParseString(tag, Append(s, 0)) = Ok(Attr(tag, s))
<1> DEFINE v == Append(s, 0)
<1>1. s \in Seq(Byte) /\ IsUtf8(s) /\ 0 \in Byte
  BY ByteIs DEF String
<1>2. /\ v \in Seq(Byte) /\ Len(v) = Len(s) + 1 /\ v[Len(s) + 1] = 0
      /\ \A i \in 1 .. Len(s) : v[i] = s[i]
      /\ Len(s) \in Nat
  BY <1>1, AppendFacts
<1> HIDE DEF v
<1>3. Holds(v, 0, s)
  BY <1>2 DEF Holds
<1>4. Slice(v, 0, Len(s)) = s
  BY <1>1, <1>2, <1>3, HoldsSlice
<1>5. Len(v) > 0 /\ v[Len(v)] = 0 /\ Len(v) - 1 = Len(s)
  BY <1>2
<1>6. WithoutNul(v) = s
  BY <1>4, <1>5 DEF WithoutNul
<1>7. ParseString(tag, v) = Ok(Attr(tag, s))
  BY <1>1, <1>6 DEF ParseString
<1> QED
  BY <1>7 DEF v

LEMMA StringTyped ==
  ASSUME NEW tag, NEW v \in Seq(Byte), ParseString(tag, v).ok
  PROVE  /\ ParseString(tag, v).val \in [tag : {tag}, val : String]
         /\ Len(ParseString(tag, v).val.val) <= Len(v)
<1> DEFINE s == WithoutNul(v)
<1>1. IsUtf8(s) /\ ParseString(tag, v).val = Attr(tag, s)
  BY DEF ParseString, Err, Ok
<1>2. s \in Seq(Byte) /\ Len(s) <= Len(v)
  <2>1. CASE Len(v) > 0 /\ v[Len(v)] = 0
    <3>1. Len(v) - 1 \in Nat /\ 0 + (Len(v) - 1) <= Len(v)
      BY <2>1
    <3>2. Slice(v, 0, Len(v) - 1) \in Bytes(Len(v) - 1)
      BY <3>1, SliceBytes
    <3> QED
      BY <2>1, <3>2 DEF Bytes, WithoutNul
  <2>2. CASE ~(Len(v) > 0 /\ v[Len(v)] = 0)
    BY <2>2 DEF WithoutNul
  <2> QED
    BY <2>1, <2>2
<1> HIDE DEF s
<1> QED
  BY <1>1, <1>2 DEF String, Attr

-----------------------------------------------------------------------------
(***************************************************************************)
(* src/inet/nlas.rs.                                                       *)
(***************************************************************************)
LEMMA InetLengths ==
  LegacyMemInfoLen \in Nat /\ MemInfoLen \in Nat /\ TcpInfoLen \in Nat
BY DEF LegacyMemInfoLen, MemInfoLen, TcpInfoLen

(* A known kind has no flag bits, and its parser is the one of its tag.    *)
LEMMA InetDispatch ==
  ASSUME NEW v
  PROVE  /\ InetParseNla(INET_DIAG_MEMINFO, v)   = ParseLegacyMemInfo(v)
         /\ InetParseNla(INET_DIAG_INFO, v)      = ParseInfo(v)
         /\ InetParseNla(INET_DIAG_CONG, v)      = ParseString("Congestion", v)
         /\ InetParseNla(INET_DIAG_TOS, v)       = Exactly("Tos", 1, v)
         /\ InetParseNla(INET_DIAG_TCLASS, v)    = Exactly("Tc", 1, v)
         /\ InetParseNla(INET_DIAG_SKMEMINFO, v) = ParseMemInfo(v)
         /\ InetParseNla(INET_DIAG_SHUTDOWN, v)  = Exactly("Shutdown", 1, v)
         /\ InetParseNla(INET_DIAG_PROTOCOL, v)  = Exactly("Protocol", 1, v)
         /\ InetParseNla(INET_DIAG_SKV6ONLY, v)  = ParseSkV6Only(v)
         /\ InetParseNla(INET_DIAG_MARK, v)      = Exactly("Mark", 4, v)
         /\ InetParseNla(INET_DIAG_CLASS_ID, v)  = Exactly("ClassId", 4, v)
BY DEF InetParseNla, NlaKind, INET_DIAG_MEMINFO, INET_DIAG_INFO, INET_DIAG_CONG,
       INET_DIAG_TOS, INET_DIAG_TCLASS, INET_DIAG_SKMEMINFO, INET_DIAG_SHUTDOWN,
       INET_DIAG_PROTOCOL, INET_DIAG_SKV6ONLY, INET_DIAG_MARK, INET_DIAG_CLASS_ID

(* The parser of every kind.                                               *)
LEMMA InetDispatchOf ==
  ASSUME NEW ntype, NEW v
  PROVE  LET kind == NlaKind(ntype)
             r    == InetParseNla(ntype, v)
         IN  /\ kind = INET_DIAG_MEMINFO => r = ParseLegacyMemInfo(v)
             /\ kind = INET_DIAG_INFO => r = ParseInfo(v)
             /\ kind = INET_DIAG_CONG => r = ParseString("Congestion", v)
             /\ kind = INET_DIAG_TOS => r = Exactly("Tos", 1, v)
             /\ kind = INET_DIAG_TCLASS => r = Exactly("Tc", 1, v)
             /\ kind = INET_DIAG_SKMEMINFO => r = ParseMemInfo(v)
             /\ kind = INET_DIAG_SHUTDOWN => r = Exactly("Shutdown", 1, v)
             /\ kind = INET_DIAG_PROTOCOL => r = Exactly("Protocol", 1, v)
             /\ kind = INET_DIAG_SKV6ONLY => r = ParseSkV6Only(v)
             /\ kind = INET_DIAG_MARK => r = Exactly("Mark", 4, v)
             /\ kind = INET_DIAG_CLASS_ID => r = Exactly("ClassId", 4, v)
BY DEF InetParseNla, INET_DIAG_MEMINFO, INET_DIAG_INFO, INET_DIAG_CONG,
       INET_DIAG_TOS, INET_DIAG_TCLASS, INET_DIAG_SKMEMINFO, INET_DIAG_SHUTDOWN,
       INET_DIAG_PROTOCOL, INET_DIAG_SKV6ONLY, INET_DIAG_MARK, INET_DIAG_CLASS_ID

(* The shapes an attribute may have.                                       *)
LEMMA InetCases ==
  ASSUME NEW a \in InetNla
  PROVE  \/ a.tag = "LegacyMemInfo" /\ a.val \in Bytes(LegacyMemInfoLen) /\ a = Attr(a.tag, a.val)
         \/ a.tag = "TcpInfo" /\ a.val \in TcpInfo /\ a = Attr(a.tag, a.val)
         \/ a.tag = "Congestion" /\ a.val \in String /\ a = Attr(a.tag, a.val)
         \/ a.tag = "MemInfo" /\ a.val \in Bytes(MemInfoLen) /\ a = Attr(a.tag, a.val)
         \/ a.tag \in {"Tos", "Tc", "Shutdown", "Protocol"} /\ a.val \in Bytes(1)
              /\ a = Attr(a.tag, a.val)
         \/ a.tag = "SkV6Only" /\ a.val \in {<< 0 >>, << 1 >>} /\ a = Attr(a.tag, a.val)
         \/ a.tag \in {"Mark", "ClassId"} /\ a.val \in Bytes(4) /\ a = Attr(a.tag, a.val)
         \/ a.tag = "Other" /\ a.kind \in Word16 /\ a.val \in Seq(Byte) /\ a = Other(a.kind, a.val)
BY DEF InetNla, LegacyMemInfo, MemInfo, DefaultNla, Attr, Other

(* The kinds of the known attributes.                                      *)
LEMMA InetKinds ==
  /\ InetKindOf["LegacyMemInfo"] = INET_DIAG_MEMINFO /\ INET_DIAG_MEMINFO \in Word16
  /\ InetKindOf["TcpInfo"] = INET_DIAG_INFO /\ INET_DIAG_INFO \in Word16
  /\ InetKindOf["Congestion"] = INET_DIAG_CONG /\ INET_DIAG_CONG \in Word16
  /\ InetKindOf["Tos"] = INET_DIAG_TOS /\ INET_DIAG_TOS \in Word16
  /\ InetKindOf["Tc"] = INET_DIAG_TCLASS /\ INET_DIAG_TCLASS \in Word16
  /\ InetKindOf["MemInfo"] = INET_DIAG_SKMEMINFO /\ INET_DIAG_SKMEMINFO \in Word16
  /\ InetKindOf["Shutdown"] = INET_DIAG_SHUTDOWN /\ INET_DIAG_SHUTDOWN \in Word16
  /\ InetKindOf["Protocol"] = INET_DIAG_PROTOCOL /\ INET_DIAG_PROTOCOL \in Word16
  /\ InetKindOf["SkV6Only"] = INET_DIAG_SKV6ONLY /\ INET_DIAG_SKV6ONLY \in Word16
  /\ InetKindOf["Mark"] = INET_DIAG_MARK /\ INET_DIAG_MARK \in Word16
  /\ InetKindOf["ClassId"] = INET_DIAG_CLASS_ID /\ INET_DIAG_CLASS_ID \in Word16
BY DEF InetKindOf, Word16, INET_DIAG_MEMINFO, INET_DIAG_INFO, INET_DIAG_CONG,
       INET_DIAG_TOS, INET_DIAG_TCLASS, INET_DIAG_SKMEMINFO, INET_DIAG_SHUTDOWN,
       INET_DIAG_PROTOCOL, INET_DIAG_SKV6ONLY, INET_DIAG_MARK, INET_DIAG_CLASS_ID

LEMMA FlagByte ==
  ASSUME NEW v \in {<< 0 >>, << 1 >>}
  PROVE  v \in Bytes(1) /\ v \in Seq(Byte) /\ Len(v) = 1
<1>1. 0 \in Byte /\ 1 \in Byte
  BY ByteIs
<1>2. << 0 >> \in Seq(Byte) /\ << 1 >> \in Seq(Byte)
  BY <1>1
<1>3. Len(<< 0 >>) = 1 /\ Len(<< 1 >>) = 1
  OBVIOUS
<1>4. v \in Seq(Byte) /\ Len(v) = 1
  BY <1>2, <1>3
<1> QED
  BY <1>4 DEF Bytes

(* value_len() is the length of what emit_value() writes.                  *)
LEMMA InetNlaFacts ==
  ASSUME NEW a \in InetNla
  PROVE  /\ InetKind(a) \in Word16
         /\ InetValueLen(a) \in Nat
         /\ InetEmitValue(a) \in Seq(Byte)
         /\ Len(InetEmitValue(a)) = InetValueLen(a)
<1>1. CASE a.tag = "LegacyMemInfo" /\ a.val \in Bytes(LegacyMemInfoLen)
  BY <1>1, InetLengths, InetKinds DEF InetKind, InetValueLen, InetEmitValue, Bytes
<1>2. CASE a.tag = "TcpInfo" /\ a.val \in TcpInfo
  <2>1. a.val \in Seq(Byte) /\ Len(a.val) = InetValueLen(a)
    BY <1>2, RichNlasAssumption DEF InetValueLen, TcpInfo, Bytes
  <2> QED
    BY <1>2, <2>1, InetKinds DEF InetKind, InetEmitValue
<1>3. CASE a.tag = "Congestion" /\ a.val \in String
  <2>1. a.val \in Seq(Byte) /\ 0 \in Byte
    BY <1>3, ByteIs DEF String
  <2>2. /\ Append(a.val, 0) \in Seq(Byte) /\ Len(Append(a.val, 0)) = Len(a.val) + 1
        /\ Len(a.val) + 1 \in Nat
    BY <2>1, AppendFacts
  <2>3. InetEmitValue(a) = Append(a.val, 0) /\ InetValueLen(a) = Len(a.val) + 1
    BY <1>3 DEF InetValueLen, InetEmitValue
  <2>4. InetKind(a) \in Word16
    BY <1>3, InetKinds DEF InetKind
  <2> QED
    BY <2>2, <2>3, <2>4
<1>4. CASE a.tag = "MemInfo" /\ a.val \in Bytes(MemInfoLen)
  BY <1>4, InetLengths, InetKinds DEF InetKind, InetValueLen, InetEmitValue, Bytes
<1>5. CASE a.tag \in {"Tos", "Tc", "Shutdown", "Protocol"} /\ a.val \in Bytes(1)
  <2>1. InetKind(a) \in Word16
    BY <1>5, InetKinds DEF InetKind
  <2>2. InetValueLen(a) = 1 /\ InetEmitValue(a) = a.val
    BY <1>5 DEF InetValueLen, InetEmitValue
  <2> QED
    BY <1>5, <2>1, <2>2 DEF Bytes
<1>6. CASE a.tag = "SkV6Only" /\ a.val \in {<< 0 >>, << 1 >>}
  <2>1. a.val \in Seq(Byte) /\ Len(a.val) = 1
    BY <1>6, FlagByte
  <2>2. InetKind(a) \in Word16 /\ InetValueLen(a) = 1 /\ InetEmitValue(a) = a.val
    BY <1>6, InetKinds DEF InetKind, InetValueLen, InetEmitValue
  <2> QED
    BY <2>1, <2>2
<1>7. CASE a.tag \in {"Mark", "ClassId"} /\ a.val \in Bytes(4)
  <2>1. InetKind(a) \in Word16 /\ InetValueLen(a) = 4 /\ InetEmitValue(a) = a.val
    BY <1>7, InetKinds DEF InetKind, InetValueLen, InetEmitValue
  <2> QED
    BY <1>7, <2>1 DEF Bytes
<1>8. CASE a.tag = "Other" /\ a.kind \in Word16 /\ a.val \in Seq(Byte)
  BY <1>8 DEF InetKind, InetValueLen, InetEmitValue
<1> QED
  BY <1>1, <1>2, <1>3, <1>4, <1>5, <1>6, <1>7, <1>8, InetCases

(* An attribute is parsed back from its kind and value, unless it is an    *)
(* unknown one under the kind of a known one.                              *)
LEMMA InetNlaBack ==
  ASSUME NEW a \in InetNla, NlaSurvives("InetResponse", a)
  PROVE  InetParseNla(InetKind(a), InetEmitValue(a)) = Ok(a)
<1>1. CASE a.tag = "LegacyMemInfo" /\ a.val \in Bytes(LegacyMemInfoLen) /\ a = Attr(a.tag, a.val)
  BY <1>1, InetLengths, InetKinds, InetDispatch, AtLeastOk
     DEF InetKind, InetEmitValue, ParseLegacyMemInfo
<1>2. CASE a.tag = "TcpInfo" /\ a.val \in TcpInfo /\ a = Attr(a.tag, a.val)
  <2>1. InetParseNla(InetKind(a), InetEmitValue(a)) = ParseInfo(a.val)
    BY <1>2, InetDispatch, InetKinds DEF InetKind, InetEmitValue
  <2>2. ParseInfo(a.val) = Ok(Attr("TcpInfo", a.val))
    BY <1>2, InetLengths, AtLeastOk DEF ParseInfo, ParseTcpInfo, TcpInfo
  <2> QED
    BY <1>2, <2>1, <2>2
<1>3. CASE a.tag = "Congestion" /\ a.val \in String /\ a = Attr(a.tag, a.val)
  <2>1. InetKind(a) = INET_DIAG_CONG /\ InetEmitValue(a) = Append(a.val, 0)
    BY <1>3, InetKinds DEF InetKind, InetEmitValue
  <2> QED
    BY <1>3, <2>1, InetDispatch, StringOk
<1>4. CASE a.tag = "MemInfo" /\ a.val \in Bytes(MemInfoLen) /\ a = Attr(a.tag, a.val)
  BY <1>4, InetLengths, InetKinds, InetDispatch, AtLeastOk
     DEF InetKind, InetEmitValue, ParseMemInfo
<1>5. CASE /\ a.tag \in {"Tos", "Tc", "Shutdown", "Protocol"} /\ a.val \in Bytes(1)
           /\ a = Attr(a.tag, a.val)
  <2>1. InetParseNla(InetKind(a), InetEmitValue(a)) = Exactly(a.tag, 1, a.val)
    BY <1>5, InetDispatch, InetKinds DEF InetKind, InetEmitValue
  <2> QED
    BY <1>5, <2>1, ExactlyOk
<1>6. CASE a.tag = "SkV6Only" /\ a.val \in {<< 0 >>, << 1 >>} /\ a = Attr(a.tag, a.val)
  <2>1. InetParseNla(InetKind(a), InetEmitValue(a)) = ParseSkV6Only(a.val)
    BY <1>6, InetDispatch, InetKinds DEF InetKind, InetEmitValue
  <2>2. ParseSkV6Only(a.val) = Ok(Attr("SkV6Only", a.val))
    BY <1>6 DEF ParseSkV6Only
  <2> QED
    BY <1>6, <2>1, <2>2
<1>7. CASE a.tag \in {"Mark", "ClassId"} /\ a.val \in Bytes(4) /\ a = Attr(a.tag, a.val)
  <2>1. InetParseNla(InetKind(a), InetEmitValue(a)) = Exactly(a.tag, 4, a.val)
    BY <1>7, InetDispatch, InetKinds DEF InetKind, InetEmitValue
  <2> QED
    BY <1>7, <2>1, ExactlyOk
<1>8. CASE /\ a.tag = "Other" /\ a.kind \in Word16 /\ a.val \in Seq(Byte)
           /\ a = Other(a.kind, a.val)
  <2>1. NlaKind(a.kind) \notin {InetKindOf[tag] : tag \in DOMAIN InetKindOf}
    BY <1>8 DEF NlaSurvives, KnownKinds, InetVariants
  <2>2. NlaKind(a.kind) \notin
          {INET_DIAG_MEMINFO, INET_DIAG_INFO, INET_DIAG_CONG, INET_DIAG_TOS, INET_DIAG_TCLASS,
           INET_DIAG_SKMEMINFO, INET_DIAG_SHUTDOWN, INET_DIAG_PROTOCOL, INET_DIAG_SKV6ONLY,
           INET_DIAG_MARK, INET_DIAG_CLASS_ID}
    BY <2>1 DEF InetKindOf
  <2>3. InetParseNla(a.kind, a.val) = Ok(Other(a.kind, a.val))
    BY <2>2 DEF InetParseNla
  <2> QED
    BY <1>8, <2>3 DEF InetKind, InetEmitValue
<1> QED
  BY <1>1, <1>2, <1>3, <1>4, <1>5, <1>6, <1>7, <1>8, InetCases

(* What is parsed is an attribute, and one that survives.                  *)
LEMMA InetParseTyped ==
  ASSUME NEW ntype \in Word16, NEW v \in Seq(Byte), InetParseNla(ntype, v).ok
  PROVE  /\ InetParseNla(ntype, v).val \in InetNla
         /\ NlaSurvives("InetResponse", InetParseNla(ntype, v).val)
<1> DEFINE kind == NlaKind(ntype)
           r    == InetParseNla(ntype, v)
<1> SUFFICES r.val \in InetNla /\ NlaSurvives("InetResponse", r.val)
  OBVIOUS
<1>1. CASE kind = INET_DIAG_MEMINFO
  <2>1. r = AtLeast("LegacyMemInfo", LegacyMemInfoLen, v)
    BY <1>1, InetDispatchOf DEF ParseLegacyMemInfo
  <2>2. r.val = Attr("LegacyMemInfo", Slice(v, 0, LegacyMemInfoLen)) /\ Slice(v, 0, LegacyMemInfoLen) \in LegacyMemInfo
    BY <2>1, AtLeastTyped, InetLengths DEF LegacyMemInfo
  <2>3. r.val \in [tag : {"LegacyMemInfo"}, val : LegacyMemInfo]
    BY <2>2 DEF Attr
  <2> QED
    BY <2>3 DEF InetNla, NlaSurvives
<1>2. CASE kind = INET_DIAG_INFO
  <2>1. r = ParseInfo(v)
    BY <1>2, InetDispatchOf
  <2>2. r.val = Attr("TcpInfo", r.val.val) /\ r.val.val \in TcpInfo
    <3>1. CASE RichNlas
      <4>1. r = AtLeast("TcpInfo", TcpInfoLen, v)
        BY <2>1, <3>1 DEF ParseInfo, ParseTcpInfo
      <4>2. /\ Slice(v, 0, TcpInfoLen) \in Bytes(TcpInfoLen)
            /\ r.val = Attr("TcpInfo", Slice(v, 0, TcpInfoLen))
        BY <4>1, AtLeastTyped, InetLengths
      <4> QED
        BY <4>2, <3>1 DEF TcpInfo, Attr
    <3>2. CASE ~RichNlas
      BY <2>1, <3>2 DEF ParseInfo, TcpInfo, Attr, Ok
    <3> QED
      BY <3>1, <3>2
  <2>3. r.val \in [tag : {"TcpInfo"}, val : TcpInfo] /\ r.val.tag = "TcpInfo"
    BY <2>2 DEF Attr
  <2> QED
    BY <2>3 DEF InetNla, NlaSurvives
<1>3. CASE kind = INET_DIAG_CONG
  <2>1. r = ParseString("Congestion", v)
    BY <1>3, InetDispatchOf
  <2>2. r.val \in [tag : {"Congestion"}, val : String]
    BY <2>1, StringTyped
  <2> QED
    BY <2>2 DEF InetNla, NlaSurvives
<1>4. CASE kind \in {INET_DIAG_TOS, INET_DIAG_TCLASS, INET_DIAG_SHUTDOWN, INET_DIAG_PROTOCOL}
  <2>1. PICK tag \in {"Tos", "Tc", "Shutdown", "Protocol"} : r = Exactly(tag, 1, v)
    BY <1>4, InetDispatchOf
  <2>2. r.val = Attr(tag, v) /\ v \in Bytes(1)
    BY <2>1, ExactlyTyped
  <2>3. r.val \in [tag : {"Tos", "Tc", "Shutdown", "Protocol"}, val : Bytes(1)]
    BY <2>2 DEF Attr
  <2> QED
    BY <2>3 DEF InetNla, NlaSurvives
<1>5. CASE kind = INET_DIAG_SKMEMINFO
  <2>1. r = AtLeast("MemInfo", MemInfoLen, v)
    BY <1>5, InetDispatchOf DEF ParseMemInfo
  <2>2. r.val = Attr("MemInfo", Slice(v, 0, MemInfoLen)) /\ Slice(v, 0, MemInfoLen) \in MemInfo
    BY <2>1, AtLeastTyped, InetLengths DEF MemInfo
  <2>3. r.val \in [tag : {"MemInfo"}, val : MemInfo]
    BY <2>2 DEF Attr
  <2> QED
    BY <2>3 DEF InetNla, NlaSurvives
<1>6. CASE kind = INET_DIAG_SKV6ONLY
  <2>1. r = ParseSkV6Only(v)
    BY <1>6, InetDispatchOf
  <2>2. r.val \in [tag : {"SkV6Only"}, val : {<< 0 >>, << 1 >>}]
    BY <2>1 DEF ParseSkV6Only, Attr, Ok, Err
  <2> QED
    BY <2>2 DEF InetNla, NlaSurvives
<1>7. CASE kind \in {INET_DIAG_MARK, INET_DIAG_CLASS_ID}
  <2>1. PICK tag \in {"Mark", "ClassId"} : r = Exactly(tag, 4, v)
    BY <1>7, InetDispatchOf
  <2>2. r.val = Attr(tag, v) /\ v \in Bytes(4)
    BY <2>1, ExactlyTyped
  <2>3. r.val \in [tag : {"Mark", "ClassId"}, val : Bytes(4)]
    BY <2>2 DEF Attr
  <2> QED
    BY <2>3 DEF InetNla, NlaSurvives
<1>8. CASE kind \notin
          {INET_DIAG_MEMINFO, INET_DIAG_INFO, INET_DIAG_CONG, INET_DIAG_TOS, INET_DIAG_TCLASS,
           INET_DIAG_SKMEMINFO, INET_DIAG_SHUTDOWN, INET_DIAG_PROTOCOL, INET_DIAG_SKV6ONLY,
           INET_DIAG_MARK, INET_DIAG_CLASS_ID}
  <2>1. r.val = Other(ntype, v)
    BY <1>8 DEF InetParseNla, Ok
  <2>2. r.val \in DefaultNla /\ r.val.tag = "Other" /\ r.val.kind = ntype
    BY <2>1 DEF DefaultNla, Other
  <2>3. kind \notin {InetKindOf[tag] : tag \in DOMAIN InetKindOf}
    BY <1>8 DEF InetKindOf
  <2> QED
    BY <2>2, <2>3 DEF InetNla, NlaSurvives, KnownKinds, InetVariants
<1> QED
  BY <1>1, <1>2, <1>3, <1>4, <1>5, <1>6, <1>7, <1>8

(* An attribute is parsed exactly if its value is acceptable for its kind. *)
LEMMA ParsersOk ==
  ASSUME NEW tag, NEW n, NEW v
  PROVE  /\ Exactly(tag, n, v).ok <=> Len(v) = n
         /\ AtLeast(tag, n, v).ok <=> Len(v) >= n
         /\ ParseString(tag, v).ok <=> IsUtf8(WithoutNul(v))
         /\ ParseSkV6Only(v).ok <=> Len(v) = 1
<1>1. \A x : Ok(x).ok /\ ~Err.ok
  BY DEF Ok, Err
<1> QED
  BY <1>1 DEF Exactly, AtLeast, ParseString, ParseSkV6Only

LEMMA IntegersOk ==
  ASSUME NEW tag, NEW v
  PROVE  /\ Exactly(tag, 1, v).ok <=> Len(v) = 1
         /\ Exactly(tag, 4, v).ok <=> Len(v) = 4
         /\ Exactly(tag, 8, v).ok <=> Len(v) = 8
BY DEF Exactly, Ok, Err

LEMMA InetAcceptableOk ==
  ASSUME NEW ntype, NEW v
  PROVE  InetParseNla(ntype, v).ok <=> InetAcceptable(NlaKind(ntype), v)
<1> DEFINE kind == NlaKind(ntype)
           r    == InetParseNla(ntype, v)
<1> SUFFICES r.ok <=> InetAcceptable(kind, v)
  OBVIOUS
<1>1. CASE kind = INET_DIAG_MEMINFO
  <2>1. r.ok <=> Len(v) >= LegacyMemInfoLen
    BY <1>1, InetDispatchOf, ParsersOk DEF ParseLegacyMemInfo
  <2> HIDE DEF r
  <2> QED
    BY <1>1, <2>1 DEF InetAcceptable, INET_DIAG_MEMINFO, INET_DIAG_INFO, INET_DIAG_CONG,
       INET_DIAG_TOS, INET_DIAG_TCLASS, INET_DIAG_SKMEMINFO, INET_DIAG_SHUTDOWN,
       INET_DIAG_PROTOCOL, INET_DIAG_SKV6ONLY, INET_DIAG_MARK, INET_DIAG_CLASS_ID
<1>2. CASE kind = INET_DIAG_INFO
  <2>1. r.ok <=> (RichNlas => Len(v) >= TcpInfoLen)
    <3>1. r = ParseInfo(v)
      BY <1>2, InetDispatchOf
    <3>2. CASE RichNlas
      BY <3>1, <3>2, ParsersOk DEF ParseInfo, ParseTcpInfo
    <3>3. CASE ~RichNlas
      BY <3>1, <3>3 DEF ParseInfo, Ok
    <3> QED
      BY <3>2, <3>3
  <2> HIDE DEF r
  <2> QED
    BY <1>2, <2>1, RichNlasAssumption
    DEF InetAcceptable, INET_DIAG_MEMINFO, INET_DIAG_INFO, INET_DIAG_CONG,
       INET_DIAG_TOS, INET_DIAG_TCLASS, INET_DIAG_SKMEMINFO, INET_DIAG_SHUTDOWN,
       INET_DIAG_PROTOCOL, INET_DIAG_SKV6ONLY, INET_DIAG_MARK, INET_DIAG_CLASS_ID
<1>3. CASE kind = INET_DIAG_CONG
  <2>1. r.ok <=> IsUtf8(WithoutNul(v))
    BY <1>3, InetDispatchOf, ParsersOk
  <2> HIDE DEF r
  <2> QED
    BY <1>3, <2>1 DEF InetAcceptable, INET_DIAG_MEMINFO, INET_DIAG_INFO, INET_DIAG_CONG,
       INET_DIAG_TOS, INET_DIAG_TCLASS, INET_DIAG_SKMEMINFO, INET_DIAG_SHUTDOWN,
       INET_DIAG_PROTOCOL, INET_DIAG_SKV6ONLY, INET_DIAG_MARK, INET_DIAG_CLASS_ID
<1>4. CASE kind = INET_DIAG_SKMEMINFO
  <2>1. r.ok <=> Len(v) >= MemInfoLen
    BY <1>4, InetDispatchOf, ParsersOk DEF ParseMemInfo
  <2> HIDE DEF r
  <2> QED
    BY <1>4, <2>1 DEF InetAcceptable, INET_DIAG_MEMINFO, INET_DIAG_INFO, INET_DIAG_CONG,
       INET_DIAG_TOS, INET_DIAG_TCLASS, INET_DIAG_SKMEMINFO, INET_DIAG_SHUTDOWN,
       INET_DIAG_PROTOCOL, INET_DIAG_SKV6ONLY, INET_DIAG_MARK, INET_DIAG_CLASS_ID
<1>5. CASE kind \in {INET_DIAG_TOS, INET_DIAG_TCLASS, INET_DIAG_SHUTDOWN, INET_DIAG_PROTOCOL,
                     INET_DIAG_SKV6ONLY}
  <2>1. r.ok <=> Len(v) = 1
    <3>1. CASE kind = INET_DIAG_SKV6ONLY
      BY <3>1, InetDispatchOf, ParsersOk
    <3>2. CASE kind # INET_DIAG_SKV6ONLY
      <4>1. PICK tag \in {"Tos", "Tc", "Shutdown", "Protocol"} : r = Exactly(tag, 1, v)
        BY <1>5, <3>2, InetDispatchOf
      <4> QED
        BY <4>1, IntegersOk
    <3> QED
      BY <3>1, <3>2
  <2> HIDE DEF r
  <2> QED
    BY <1>5, <2>1 DEF InetAcceptable, INET_DIAG_MEMINFO, INET_DIAG_INFO, INET_DIAG_CONG,
       INET_DIAG_TOS, INET_DIAG_TCLASS, INET_DIAG_SKMEMINFO, INET_DIAG_SHUTDOWN,
       INET_DIAG_PROTOCOL, INET_DIAG_SKV6ONLY, INET_DIAG_MARK, INET_DIAG_CLASS_ID
<1>6. CASE kind \in {INET_DIAG_MARK, INET_DIAG_CLASS_ID}
  <2>1. r.ok <=> Len(v) = 4
    <3>1. PICK tag \in {"Mark", "ClassId"} : r = Exactly(tag, 4, v)
      BY <1>6, InetDispatchOf
    <3> QED
      BY <3>1, IntegersOk
  <2> HIDE DEF r
  <2> QED
    BY <1>6, <2>1 DEF InetAcceptable, INET_DIAG_MEMINFO, INET_DIAG_INFO, INET_DIAG_CONG,
       INET_DIAG_TOS, INET_DIAG_TCLASS, INET_DIAG_SKMEMINFO, INET_DIAG_SHUTDOWN,
       INET_DIAG_PROTOCOL, INET_DIAG_SKV6ONLY, INET_DIAG_MARK, INET_DIAG_CLASS_ID
<1>7. CASE kind \notin
          {INET_DIAG_MEMINFO, INET_DIAG_INFO, INET_DIAG_CONG, INET_DIAG_TOS, INET_DIAG_TCLASS,
           INET_DIAG_SKMEMINFO, INET_DIAG_SHUTDOWN, INET_DIAG_PROTOCOL, INET_DIAG_SKV6ONLY,
           INET_DIAG_MARK, INET_DIAG_CLASS_ID}
  <2>1. r.ok
    BY <1>7 DEF InetParseNla, Ok
  <2>2. InetAcceptable(kind, v)
    BY <1>7 DEF InetAcceptable
  <2> QED
    BY <2>1, <2>2
<1> QED
  BY <1>1, <1>2, <1>3, <1>4, <1>5, <1>6, <1>7

(* How long the value of an attribute is, and that of a parsed one.        *)
LEMMA InetValueLens ==
  ASSUME NEW a \in InetNla
  PROVE  \/ a.tag # "Congestion" /\ InetValueLen(a) <= 232
         \/ a.tag \in {"TcpInfo", "Other"} /\ InetValueLen(a) = Len(a.val)
         \/ a.tag = "Congestion" /\ InetValueLen(a) = Len(a.val) + 1
<1>1. LegacyMemInfoLen <= 232 /\ MemInfoLen <= 232 /\ TcpInfoLen <= 232
  BY DEF LegacyMemInfoLen, MemInfoLen, TcpInfoLen
<1> QED
  BY <1>1, InetCases, RichNlasAssumption DEF InetValueLen

LEMMA InetValNotLonger ==
  ASSUME NEW ntype \in Word16, NEW v \in Seq(Byte), InetParseNla(ntype, v).ok,
         InetParseNla(ntype, v).val.tag \in {"TcpInfo", "Congestion", "Other"}
  PROVE  /\ InetParseNla(ntype, v).val.val \in Seq(Byte)
         /\ Len(InetParseNla(ntype, v).val.val) <= Len(v)
<1> DEFINE kind == NlaKind(ntype)
           r    == InetParseNla(ntype, v)
<1>1. CASE kind = INET_DIAG_INFO
  <2>1. r = ParseInfo(v)
    BY <1>1, InetDispatchOf
  <2>2. CASE RichNlas
    <3>1. r = AtLeast("TcpInfo", TcpInfoLen, v)
      BY <2>1, <2>2 DEF ParseInfo, ParseTcpInfo
    <3>2. /\ Slice(v, 0, TcpInfoLen) \in Bytes(TcpInfoLen) /\ Len(v) >= TcpInfoLen
          /\ r.val = Attr("TcpInfo", Slice(v, 0, TcpInfoLen))
      BY <3>1, AtLeastTyped, ParsersOk, InetLengths
    <3> QED
      BY <3>2 DEF Bytes, Attr
  <2>3. CASE ~RichNlas
    BY <2>1, <2>3 DEF ParseInfo, Attr, Ok
  <2> QED
    BY <2>2, <2>3
<1>2. CASE kind = INET_DIAG_CONG
  BY <1>2, InetDispatchOf, StringTyped DEF String
<1>3. CASE kind \in {INET_DIAG_MEMINFO, INET_DIAG_TOS, INET_DIAG_TCLASS, INET_DIAG_SKMEMINFO,
                     INET_DIAG_SHUTDOWN, INET_DIAG_PROTOCOL, INET_DIAG_SKV6ONLY,
                     INET_DIAG_MARK, INET_DIAG_CLASS_ID}
  <2>1. r.val.tag \notin {"TcpInfo", "Congestion", "Other"}
    BY <1>3, InetDispatchOf
    DEF ParseLegacyMemInfo, ParseMemInfo, ParseSkV6Only, AtLeast, Exactly, Attr, Ok, Err
  <2> QED
    BY <2>1
<1>4. CASE kind \notin
          {INET_DIAG_MEMINFO, INET_DIAG_INFO, INET_DIAG_CONG, INET_DIAG_TOS, INET_DIAG_TCLASS,
           INET_DIAG_SKMEMINFO, INET_DIAG_SHUTDOWN, INET_DIAG_PROTOCOL, INET_DIAG_SKV6ONLY,
           INET_DIAG_MARK, INET_DIAG_CLASS_ID}
  <2>1. r.val = Other(ntype, v)
    BY <1>4 DEF InetParseNla, Ok
  <2>2. r.val.val = v
    BY <2>1 DEF Other
  <2>3. Len(v) <= Len(v)
    OBVIOUS
  <2> QED
    BY <2>2, <2>3
<1> QED
  BY <1>1, <1>2, <1>3, <1>4

(* A parsed attribute fits its 16-bit length again, but for the name that  *)
(* the NUL makes too long.                                                 *)
LEMMA InetParsedFits ==
  ASSUME NEW ntype \in Word16, NEW v \in Seq(Byte), InetParseNla(ntype, v).ok,
         Len(v) <= U16_MAX - NLA_HEADER_SIZE
  PROVE  LET a == InetParseNla(ntype, v).val
         IN  NlaFits(InetValueLen(a)) <=> ~FullName(a)
<1> DEFINE a == InetParseNla(ntype, v).val
           n == InetValueLen(a)
           most == U16_MAX - NLA_HEADER_SIZE
<1>1. a \in InetNla /\ n \in Nat
  BY InetParseTyped, InetNlaFacts
<1>2. a.tag \in {"TcpInfo", "Congestion", "Other"} =>
        a.val \in Seq(Byte) /\ Len(a.val) <= Len(v)
  BY InetValNotLonger
<1>3. \/ a.tag # "Congestion" /\ n <= 232
      \/ a.tag \in {"TcpInfo", "Other"} /\ n = Len(a.val)
      \/ a.tag = "Congestion" /\ n = Len(a.val) + 1
  BY <1>1, InetValueLens
<1>4. most = 65531 /\ Len(v) \in Nat /\ Len(v) <= most
  BY DEF U16_MAX, NLA_HEADER_SIZE
<1>5. NlaFits(n) = (n <= most)
  BY <1>1 DEF NlaFits, U16_MAX, NLA_HEADER_SIZE
<1>6. FullName(a) = (a.tag = "Congestion" /\ Len(a.val) = most)
  BY DEF FullName
<1> HIDE DEF a, n, most
<1>7. (n <= most) = ~(a.tag = "Congestion" /\ Len(a.val) = most)
  <2>1. CASE a.tag = "Congestion"
    <3>1. Len(a.val) \in Nat /\ Len(a.val) <= most /\ n = Len(a.val) + 1
      BY <1>2, <1>3, <1>4, <2>1
    <3> DEFINE m == Len(a.val)
    <3>2. m \in Nat /\ m <= most /\ n = m + 1
      BY <3>1
    <3> HIDE DEF m
    <3>3. (n <= most) = ~(m = most)
      BY <1>4, <3>2
    <3> QED
      BY <2>1, <3>3 DEF m
  <2>2. CASE a.tag # "Congestion"
    <3>1. n <= most
      BY <1>1, <1>2, <1>3, <1>4, <2>2
    <3> QED
      BY <2>2, <3>1
  <2> QED
    BY <2>1, <2>2
<1>8. NlaFits(n) <=> ~FullName(a)
  <2> DEFINE fits == n <= most
             full == a.tag = "Congestion" /\ Len(a.val) = most
  <2>1. NlaFits(n) = fits /\ FullName(a) = full /\ fits = ~full
    BY <1>5, <1>6, <1>7
  <2> HIDE DEF fits, full
  <2> QED
    BY <2>1
<1> QED
  BY <1>8 DEF a, n

-----------------------------------------------------------------------------
(***************************************************************************)
(* src/unix/nlas.rs.                                                       *)
(***************************************************************************)
LEMMA UnixLengths ==
  VfsLen \in Nat /\ UnixMemInfoLen = 36
BY DEF VfsLen, UnixMemInfoLen

LEMMA UnixKinds ==
  /\ UnixKindOf["Pathname"] = UNIX_DIAG_NAME /\ UNIX_DIAG_NAME \in Word16
  /\ UnixKindOf["Abstract"] = UNIX_DIAG_NAME
  /\ UnixKindOf["Vfs"] = UNIX_DIAG_VFS /\ UNIX_DIAG_VFS \in Word16
  /\ UnixKindOf["Peer"] = UNIX_DIAG_PEER /\ UNIX_DIAG_PEER \in Word16
  /\ UnixKindOf["PendingConnections"] = UNIX_DIAG_ICONS /\ UNIX_DIAG_ICONS \in Word16
  /\ UnixKindOf["ReceiveQueueLength"] = UNIX_DIAG_RQLEN /\ UNIX_DIAG_RQLEN \in Word16
  /\ UnixKindOf["MemInfo"] = UNIX_DIAG_MEMINFO /\ UNIX_DIAG_MEMINFO \in Word16
  /\ UnixKindOf["Shutdown"] = UNIX_DIAG_SHUTDOWN /\ UNIX_DIAG_SHUTDOWN \in Word16
BY DEF UnixKindOf, Word16, UNIX_DIAG_NAME, UNIX_DIAG_VFS, UNIX_DIAG_PEER, UNIX_DIAG_ICONS,
       UNIX_DIAG_RQLEN, UNIX_DIAG_MEMINFO, UNIX_DIAG_SHUTDOWN

LEMMA UnixDispatch ==
  ASSUME NEW v
  PROVE  /\ UnixParseNla(UNIX_DIAG_NAME, v)     = ParseName(v)
         /\ UnixParseNla(UNIX_DIAG_VFS, v)      = ParseVfs(v)
         /\ UnixParseNla(UNIX_DIAG_PEER, v)     = Exactly("Peer", 4, v)
         /\ UnixParseNla(UNIX_DIAG_ICONS, v)    = ParsePendingConnections(v)
         /\ UnixParseNla(UNIX_DIAG_RQLEN, v)    = Exactly("ReceiveQueueLength", 8, v)
         /\ UnixParseNla(UNIX_DIAG_MEMINFO, v)  = ParseUnixMemInfo(v)
         /\ UnixParseNla(UNIX_DIAG_SHUTDOWN, v) = Exactly("Shutdown", 1, v)
BY DEF UnixParseNla, NlaKind, UNIX_DIAG_NAME, UNIX_DIAG_VFS, UNIX_DIAG_PEER, UNIX_DIAG_ICONS,
       UNIX_DIAG_RQLEN, UNIX_DIAG_MEMINFO, UNIX_DIAG_SHUTDOWN

LEMMA UnixDispatchOf ==
  ASSUME NEW ntype, NEW v
  PROVE  LET kind == NlaKind(ntype)
             r    == UnixParseNla(ntype, v)
         IN  /\ kind = UNIX_DIAG_NAME => r = ParseName(v)
             /\ kind = UNIX_DIAG_VFS => r = ParseVfs(v)
             /\ kind = UNIX_DIAG_PEER => r = Exactly("Peer", 4, v)
             /\ kind = UNIX_DIAG_ICONS => r = ParsePendingConnections(v)
             /\ kind = UNIX_DIAG_RQLEN => r = Exactly("ReceiveQueueLength", 8, v)
             /\ kind = UNIX_DIAG_MEMINFO => r = ParseUnixMemInfo(v)
             /\ kind = UNIX_DIAG_SHUTDOWN => r = Exactly("Shutdown", 1, v)
BY DEF UnixParseNla, UNIX_DIAG_NAME, UNIX_DIAG_VFS, UNIX_DIAG_PEER, UNIX_DIAG_ICONS,
       UNIX_DIAG_RQLEN, UNIX_DIAG_MEMINFO, UNIX_DIAG_SHUTDOWN

LEMMA UnixCases ==
  ASSUME NEW a \in UnixNla
  PROVE  \/ a.tag \in {"Pathname", "Abstract"} /\ a.val \in Seq(Byte) /\ a = Attr(a.tag, a.val)
         \/ a.tag = "Vfs" /\ a.val \in Bytes(VfsLen) /\ a = Attr(a.tag, a.val)
         \/ a.tag = "Peer" /\ a.val \in Bytes(4) /\ a = Attr(a.tag, a.val)
         \/ /\ a.tag = "PendingConnections" /\ a.val \in Seq(Byte) /\ Len(a.val) % 4 = 0
            /\ a = Attr(a.tag, a.val)
         \/ a.tag = "ReceiveQueueLength" /\ a.val \in Bytes(8) /\ a = Attr(a.tag, a.val)
         \/ a.tag = "MemInfo" /\ a.val \in Bytes(12) /\ a = Attr(a.tag, a.val)
         \/ a.tag = "Shutdown" /\ a.val \in Bytes(1) /\ a = Attr(a.tag, a.val)
         \/ a.tag = "Other" /\ a.kind \in Word16 /\ a.val \in Seq(Byte) /\ a = Other(a.kind, a.val)
<1>1. 3 * 4 = 12
  OBVIOUS
<1> QED
  BY <1>1 DEF UnixNla, UnixDiagName, Vfs, UnixMemInfo, DefaultNla, Attr, Other

(* The three words that are kept come back from among the nine.            *)
LEMMA UnixMemInfoFacts ==
  ASSUME NEW val \in Bytes(12)
  PROVE  /\ EmitUnixMemInfo(val) \in Bytes(36)
         /\ ParseUnixMemInfo(EmitUnixMemInfo(val)) = Ok(Attr("MemInfo", val))
<1> DEFINE z  == Zeros(4)
           zz == Zeros(12)
           x1 == Slice(val, 0, 4)
           x2 == Slice(val, 4, 4)
           x3 == Slice(val, 8, 4)
           e  == EmitUnixMemInfo(val)
<1>1. val \in Seq(Byte) /\ Len(val) = 12
  BY DEF Bytes
<1>2. x1 \in Bytes(4) /\ x2 \in Bytes(4) /\ x3 \in Bytes(4)
  BY <1>1, SliceBytes, 4 \in Nat, 8 \in Nat, 0 \in Nat, 0 + 4 <= 12, 4 + 4 <= 12, 8 + 4 <= 12
<1>3. z \in Bytes(4) /\ zz \in Bytes(12)
  BY ZerosBytes
<1>4. e = z \o x1 \o z \o x2 \o z \o x3 \o zz
  BY DEF EmitUnixMemInfo
<1> HIDE DEF z, zz, x1, x2, x3, e
<1>5. z \o x1 \in Bytes(8)
  BY <1>2, <1>3, BytesConcat, 4 + 4 = 8, 4 \in Nat
<1>6. z \o x1 \o z \in Bytes(12)
  BY <1>5, <1>3, BytesConcat, 8 + 4 = 12, 4 \in Nat, 8 \in Nat
<1>7. z \o x1 \o z \o x2 \in Bytes(16)
  BY <1>6, <1>2, BytesConcat, 12 + 4 = 16, 4 \in Nat, 12 \in Nat
<1>8. z \o x1 \o z \o x2 \o z \in Bytes(20)
  BY <1>7, <1>3, BytesConcat, 16 + 4 = 20, 4 \in Nat, 16 \in Nat
<1>9. z \o x1 \o z \o x2 \o z \o x3 \in Bytes(24)
  BY <1>8, <1>2, BytesConcat, 20 + 4 = 24, 4 \in Nat, 20 \in Nat
<1>10. e \in Bytes(36)
  BY <1>4, <1>9, <1>3, BytesConcat, 24 + 12 = 36, 12 \in Nat, 24 \in Nat
<1>11. e \in Seq(Byte) /\ Len(e) = 36
  BY <1>10 DEF Bytes
<1>12. Holds(e, 0, z \o x1 \o z \o x2 \o z \o x3 \o zz)
  BY <1>4, <1>11, HoldsItself
<1>13. Holds(e, 0, z \o x1 \o z \o x2 \o z \o x3)
  BY <1>12, <1>11, <1>9, <1>3, HoldsParts, 0 \in Nat, 24 \in Nat, 12 \in Nat
<1>14. Holds(e, 0, z \o x1 \o z \o x2 \o z) /\ Holds(e, 20, x3)
  BY <1>13, <1>11, <1>8, <1>2, HoldsParts, 0 \in Nat, 20 \in Nat, 4 \in Nat, 0 + 20 = 20
<1>15. Holds(e, 0, z \o x1 \o z \o x2)
  BY <1>14, <1>11, <1>7, <1>3, HoldsParts, 0 \in Nat, 16 \in Nat, 4 \in Nat
<1>16. Holds(e, 0, z \o x1 \o z) /\ Holds(e, 12, x2)
  BY <1>15, <1>11, <1>6, <1>2, HoldsParts, 0 \in Nat, 12 \in Nat, 4 \in Nat, 0 + 12 = 12
<1>17. Holds(e, 0, z \o x1)
  BY <1>16, <1>11, <1>5, <1>3, HoldsParts, 0 \in Nat, 8 \in Nat, 4 \in Nat
<1>18. Holds(e, 4, x1)
  BY <1>17, <1>11, <1>2, <1>3, HoldsParts, 0 \in Nat, 4 \in Nat, 0 + 4 = 4
<1>19. Slice(e, 4, 4) = x1 /\ Slice(e, 12, 4) = x2 /\ Slice(e, 20, 4) = x3
  BY <1>2, <1>11, <1>14, <1>16, <1>18, HoldsBytes, 4 \in Nat, 12 \in Nat, 20 \in Nat
<1>20. x1 \o x2 \o x3 = val
  <2>1. x1 \o x2 = Slice(val, 0, 8)
    BY <1>1, SliceJoin, 0 \in Nat, 4 \in Nat, 0 + 4 = 4, 4 + 4 = 8, 0 + 8 <= 12 DEF x1, x2
  <2>2. Slice(val, 0, 8) \o x3 = Slice(val, 0, 12)
    <3>1. Slice(val, 0, 8) \o Slice(val, 0 + 8, 4) = Slice(val, 0, 8 + 4)
      BY <1>1, SliceJoin, 0 \in Nat, 4 \in Nat, 8 \in Nat, 0 + (8 + 4) <= 12
    <3> QED
      BY <3>1, 0 + 8 = 8, 8 + 4 = 12 DEF x3
  <2>3. Slice(val, 0, 12) = val
    BY <1>1, HoldsItself, HoldsBytes, 0 \in Nat, 12 \in Nat
  <2> QED
    BY <2>1, <2>2, <2>3
<1>21. ParseUnixMemInfo(e) = Ok(Attr("MemInfo", val))
  BY <1>11, <1>19, <1>20, UnixLengths, 36 >= 36 DEF ParseUnixMemInfo
<1> QED
  BY <1>10, <1>21 DEF e

(* The emitted names.                                                      *)
LEMMA PathnameFacts ==
  ASSUME NEW s \in Seq(Byte)
  PROVE  /\ Append(s, 0) \in Seq(Byte)
         /\ Len(Append(s, 0)) = Len(s) + 1
         /\ (s # << >> /\ \A i \in DOMAIN s : s[i] # 0)
              => ParseName(Append(s, 0)) = Ok(Attr("Pathname", s))
<1> DEFINE v == Append(s, 0)
<1>1. 0 \in Byte /\ Len(s) \in Nat
  BY ByteIs
<1>2. /\ v \in Seq(Byte) /\ Len(v) = Len(s) + 1 /\ v[Len(s) + 1] = 0
      /\ \A i \in 1 .. Len(s) : v[i] = s[i]
  BY <1>1, AppendFacts
<1> HIDE DEF v
<1>3. ASSUME s # << >>, \A i \in DOMAIN s : s[i] # 0
      PROVE  ParseName(v) = Ok(Attr("Pathname", s))
  <2>1. Len(s) > 0 /\ DOMAIN s = 1 .. Len(s)
    BY <1>3
  <2>2. Len(v) > 0 /\ v[1] # 0 /\ v[Len(v)] = 0 /\ Len(v) - 1 = Len(s)
    BY <1>1, <1>2, <1>3, <2>1
  <2>3. \A i \in 1 .. Len(s) : v[i] # 0
    BY <1>2, <1>3, <2>1
  <2>4. Holds(v, 0, s)
    BY <1>1, <1>2 DEF Holds
  <2>5. Slice(v, 0, Len(s)) = s
    BY <1>2, <2>4, HoldsSlice
  <2> QED
    BY <2>2, <2>3, <2>5 DEF ParseName
<1> QED
  BY <1>2, <1>3 DEF v

LEMMA AbstractFacts ==
  ASSUME NEW s \in Seq(Byte)
  PROVE  /\ << 0 >> \o s \in Seq(Byte)
         /\ Len(<< 0 >> \o s) = Len(s) + 1
         /\ ParseName(<< 0 >> \o s) = Ok(Attr("Abstract", s))
<1> DEFINE v == << 0 >> \o s
<1>1. << 0 >> \in Seq(Byte) /\ Len(<< 0 >>) = 1 /\ << 0 >>[1] = 0 /\ Len(s) \in Nat
  BY FlagByte
<1>2. /\ v \in Seq(Byte) /\ Len(v) = 1 + Len(s)
      /\ \A i \in 1 .. 1 + Len(s) : v[i] = IF i <= 1 THEN << 0 >>[i] ELSE s[i - 1]
  BY <1>1, ConcatProperties
<1>3. v = << 0 >> \o s /\ Len(v) \in Nat
  BY <1>2
<1> HIDE DEF v
<1>4. Holds(v, 1, s)
  <2>1. Holds(v, 0, << 0 >> \o s)
    BY <1>2, <1>3, HoldsItself
  <2> QED
    <3> DEFINE z == << 0 >>
    <3>1. z \in Seq(Byte) /\ Len(z) = 1 /\ Holds(v, 0, z \o s)
      BY <1>1, <2>1
    <3> HIDE DEF z
    <3>2. Holds(v, 0 + Len(z), s)
      BY <1>3, <3>1, HoldsConcat, 0 \in Nat
    <3> QED
      BY <3>1, <3>2, 0 + 1 = 1
<1>5. Slice(v, 1, Len(s)) = s
  BY <1>2, <1>4, HoldsSlice
<1>6. Len(v) > 0 /\ v[1] = 0 /\ Len(v) - 1 = Len(s) /\ Len(v) = Len(s) + 1
  BY <1>1, <1>2
<1>7. ParseName(v) = Ok(Attr("Abstract", s))
  BY <1>5, <1>6 DEF ParseName
<1> QED
  BY <1>2, <1>6, <1>7 DEF v

LEMMA UnixNlaFacts ==
  ASSUME NEW a \in UnixNla
  PROVE  /\ UnixKind(a) \in Word16
         /\ UnixValueLen(a) \in Nat
         /\ UnixEmitValue(a) \in Seq(Byte)
         /\ Len(UnixEmitValue(a)) = UnixValueLen(a)
<1>1. CASE a.tag = "Pathname" /\ a.val \in Seq(Byte)
  <2>1. UnixKind(a) \in Word16
    BY <1>1, UnixKinds DEF UnixKind
  <2>2. UnixValueLen(a) = Len(a.val) + 1 /\ UnixEmitValue(a) = Append(a.val, 0)
    BY <1>1 DEF UnixValueLen, UnixEmitValue
  <2>3. Len(a.val) + 1 \in Nat
    BY <1>1
  <2> QED
    BY <1>1, <2>1, <2>2, <2>3, PathnameFacts
<1>2. CASE a.tag = "Abstract" /\ a.val \in Seq(Byte)
  <2>1. UnixKind(a) \in Word16
    BY <1>2, UnixKinds DEF UnixKind
  <2>2. UnixValueLen(a) = Len(a.val) + 1 /\ UnixEmitValue(a) = << 0 >> \o a.val
    BY <1>2 DEF UnixValueLen, UnixEmitValue
  <2>3. Len(a.val) + 1 \in Nat
    BY <1>2
  <2> QED
    BY <1>2, <2>1, <2>2, <2>3, AbstractFacts
<1>3. CASE a.tag = "Vfs" /\ a.val \in Bytes(VfsLen)
  <2>1. UnixKind(a) \in Word16 /\ UnixValueLen(a) = VfsLen /\ UnixEmitValue(a) = a.val
    BY <1>3, UnixKinds DEF UnixKind, UnixValueLen, UnixEmitValue
  <2> QED
    BY <1>3, <2>1, UnixLengths DEF Bytes
<1>4. CASE a.tag = "Peer" /\ a.val \in Bytes(4)
  <2>1. UnixKind(a) \in Word16 /\ UnixValueLen(a) = 4 /\ UnixEmitValue(a) = a.val
    BY <1>4, UnixKinds DEF UnixKind, UnixValueLen, UnixEmitValue
  <2> QED
    BY <1>4, <2>1 DEF Bytes
<1>5. CASE a.tag = "PendingConnections" /\ a.val \in Seq(Byte) /\ Len(a.val) % 4 = 0
  <2>1. /\ UnixKind(a) \in Word16 /\ UnixEmitValue(a) = a.val
        /\ UnixValueLen(a) = 4 * (Len(a.val) \div 4)
    BY <1>5, UnixKinds DEF UnixKind, UnixValueLen, UnixEmitValue
  <2>2. Len(a.val) \in Nat
    BY <1>5
  <2>3. \A n \in Nat : n % 4 = 0 => 4 * (n \div 4) = n
    OBVIOUS
  <2> QED
    BY <1>5, <2>1, <2>2, <2>3
<1>6. CASE a.tag = "ReceiveQueueLength" /\ a.val \in Bytes(8)
  <2>1. UnixKind(a) \in Word16 /\ UnixValueLen(a) = 8 /\ UnixEmitValue(a) = a.val
    BY <1>6, UnixKinds DEF UnixKind, UnixValueLen, UnixEmitValue
  <2> QED
    BY <1>6, <2>1 DEF Bytes
<1>7. CASE a.tag = "MemInfo" /\ a.val \in Bytes(12)
  <2>1. /\ UnixKind(a) \in Word16 /\ UnixValueLen(a) = 36
        /\ UnixEmitValue(a) = EmitUnixMemInfo(a.val)
    BY <1>7, UnixKinds, UnixLengths DEF UnixKind, UnixValueLen, UnixEmitValue
  <2> QED
    BY <1>7, <2>1, UnixMemInfoFacts DEF Bytes
<1>8. CASE a.tag = "Shutdown" /\ a.val \in Bytes(1)
  <2>1. UnixKind(a) \in Word16 /\ UnixValueLen(a) = 1 /\ UnixEmitValue(a) = a.val
    BY <1>8, UnixKinds DEF UnixKind, UnixValueLen, UnixEmitValue
  <2> QED
    BY <1>8, <2>1 DEF Bytes
<1>9. CASE a.tag = "Other" /\ a.kind \in Word16 /\ a.val \in Seq(Byte)
  BY <1>9 DEF UnixKind, UnixValueLen, UnixEmitValue
<1> QED
  BY <1>1, <1>2, <1>3, <1>4, <1>5, <1>6, <1>7, <1>8, <1>9, UnixCases

LEMMA UnixNlaBack ==
  ASSUME NEW a \in UnixNla, NlaSurvives("UnixResponse", a)
  PROVE  UnixParseNla(UnixKind(a), UnixEmitValue(a)) = Ok(a)
<1>1. CASE a.tag = "Pathname" /\ a.val \in Seq(Byte) /\ a = Attr(a.tag, a.val)
  <2>1. UnixParseNla(UnixKind(a), UnixEmitValue(a)) = ParseName(Append(a.val, 0))
    BY <1>1, UnixDispatch, UnixKinds DEF UnixKind, UnixEmitValue
  <2>2. a.val # << >> /\ \A i \in DOMAIN a.val : a.val[i] # 0
    BY <1>1 DEF NlaSurvives
  <2> QED
    BY <1>1, <2>1, <2>2, PathnameFacts
<1>2. CASE a.tag = "Abstract" /\ a.val \in Seq(Byte) /\ a = Attr(a.tag, a.val)
  <2>1. UnixParseNla(UnixKind(a), UnixEmitValue(a)) = ParseName(<< 0 >> \o a.val)
    BY <1>2, UnixDispatch, UnixKinds DEF UnixKind, UnixEmitValue
  <2> QED
    BY <1>2, <2>1, AbstractFacts
<1>3. CASE a.tag = "Vfs" /\ a.val \in Bytes(VfsLen) /\ a = Attr(a.tag, a.val)
  <2>1. UnixParseNla(UnixKind(a), UnixEmitValue(a)) = AtLeast("Vfs", VfsLen, a.val)
    BY <1>3, UnixDispatch, UnixKinds DEF UnixKind, UnixEmitValue, ParseVfs
  <2> QED
    BY <1>3, <2>1, UnixLengths, AtLeastOk
<1>4. CASE a.tag = "Peer" /\ a.val \in Bytes(4) /\ a = Attr(a.tag, a.val)
  <2>1. UnixParseNla(UnixKind(a), UnixEmitValue(a)) = Exactly("Peer", 4, a.val)
    BY <1>4, UnixDispatch, UnixKinds DEF UnixKind, UnixEmitValue
  <2> QED
    BY <1>4, <2>1, ExactlyOk
<1>5. CASE /\ a.tag = "PendingConnections" /\ a.val \in Seq(Byte) /\ Len(a.val) % 4 = 0
           /\ a = Attr(a.tag, a.val)
  <2>1. UnixParseNla(UnixKind(a), UnixEmitValue(a)) = ParsePendingConnections(a.val)
    BY <1>5, UnixDispatch, UnixKinds DEF UnixKind, UnixEmitValue
  <2> QED
    BY <1>5, <2>1 DEF ParsePendingConnections
<1>6. CASE a.tag = "ReceiveQueueLength" /\ a.val \in Bytes(8) /\ a = Attr(a.tag, a.val)
  <2>1. UnixParseNla(UnixKind(a), UnixEmitValue(a)) = Exactly("ReceiveQueueLength", 8, a.val)
    BY <1>6, UnixDispatch, UnixKinds DEF UnixKind, UnixEmitValue
  <2> QED
    BY <1>6, <2>1, ExactlyOk
<1>7. CASE a.tag = "MemInfo" /\ a.val \in Bytes(12) /\ a = Attr(a.tag, a.val)
  <2>1. UnixParseNla(UnixKind(a), UnixEmitValue(a)) = ParseUnixMemInfo(EmitUnixMemInfo(a.val))
    BY <1>7, UnixDispatch, UnixKinds DEF UnixKind, UnixEmitValue
  <2> QED
    BY <1>7, <2>1, UnixMemInfoFacts
<1>8. CASE a.tag = "Shutdown" /\ a.val \in Bytes(1) /\ a = Attr(a.tag, a.val)
  <2>1. UnixParseNla(UnixKind(a), UnixEmitValue(a)) = Exactly("Shutdown", 1, a.val)
    BY <1>8, UnixDispatch, UnixKinds DEF UnixKind, UnixEmitValue
  <2> QED
    BY <1>8, <2>1, ExactlyOk
<1>9. CASE /\ a.tag = "Other" /\ a.kind \in Word16 /\ a.val \in Seq(Byte)
           /\ a = Other(a.kind, a.val)
  <2>1. NlaKind(a.kind) \notin {UnixKindOf[tag] : tag \in DOMAIN UnixKindOf}
    BY <1>9 DEF NlaSurvives, KnownKinds, InetVariants
  <2>2. NlaKind(a.kind) \notin
          {UNIX_DIAG_NAME, UNIX_DIAG_VFS, UNIX_DIAG_PEER, UNIX_DIAG_ICONS, UNIX_DIAG_RQLEN,
           UNIX_DIAG_MEMINFO, UNIX_DIAG_SHUTDOWN}
    BY <2>1 DEF UnixKindOf
  <2>3. UnixParseNla(a.kind, a.val) = Ok(Other(a.kind, a.val))
    BY <2>2 DEF UnixParseNla
  <2> QED
    BY <1>9, <2>3 DEF UnixKind, UnixEmitValue
<1> QED
  BY <1>1, <1>2, <1>3, <1>4, <1>5, <1>6, <1>7, <1>8, <1>9, UnixCases

LEMMA NameTyped ==
  ASSUME NEW v \in Seq(Byte), ParseName(v).ok
  PROVE  /\ ParseName(v).val \in UnixDiagName
         /\ NlaSurvives("UnixResponse", ParseName(v).val)
<1> DEFINE n == Len(v)
<1>1. n \in Nat
  OBVIOUS
<1>2. CASE n > 0 /\ v[1] = 0
  <2>1. ParseName(v).val = Attr("Abstract", Slice(v, 1, n - 1))
    BY <1>2 DEF ParseName, Ok
  <2>2. n - 1 \in Nat /\ 1 + (n - 1) <= n /\ 1 \in Nat
    BY <1>1, <1>2
  <2>3. Slice(v, 1, n - 1) \in Seq(Byte)
    BY <2>2, SliceBytes DEF Bytes
  <2>4. ParseName(v).val \in UnixDiagName /\ ParseName(v).val.tag = "Abstract"
    BY <2>1, <2>3 DEF UnixDiagName, Attr
  <2> QED
    BY <2>4 DEF NlaSurvives
<1>3. CASE ~(n > 0 /\ v[1] = 0)
  <2>1. /\ n > 0 /\ v[n] = 0 /\ \A i \in 1 .. n - 1 : v[i] # 0
        /\ ParseName(v).val = Attr("Pathname", Slice(v, 0, n - 1))
    BY <1>3 DEF ParseName, Ok, Err
  <2>2. n - 1 \in Nat /\ 0 + (n - 1) <= n /\ 0 \in Nat /\ n - 1 > 0
    BY <1>1, <1>3, <2>1
  <2> DEFINE s == Slice(v, 0, n - 1)
  <2>3. s \in Seq(Byte) /\ Len(s) = n - 1 /\ \A i \in 1 .. n - 1 : s[i] = v[0 + i]
    BY <2>2, SliceFacts
  <2> HIDE DEF s
  <2>4. s # << >> /\ \A i \in DOMAIN s : s[i] # 0
    <3>1. s # << >>
      BY <2>2, <2>3
    <3>2. ASSUME NEW i \in DOMAIN s PROVE s[i] # 0
      <4>1. i \in 1 .. n - 1 /\ 0 + i = i
        BY <2>3
      <4> QED
        BY <4>1, <2>1, <2>3
    <3> QED
      BY <3>1, <3>2
  <2>5. /\ ParseName(v).val \in UnixDiagName
        /\ ParseName(v).val.tag = "Pathname" /\ ParseName(v).val.val = s
    BY <2>1, <2>3 DEF UnixDiagName, Attr, s
  <2> QED
    BY <2>4, <2>5 DEF NlaSurvives
<1> QED
  BY <1>2, <1>3

LEMMA UnixParseTyped ==
  ASSUME NEW ntype \in Word16, NEW v \in Seq(Byte), UnixParseNla(ntype, v).ok
  PROVE  /\ UnixParseNla(ntype, v).val \in UnixNla
         /\ NlaSurvives("UnixResponse", UnixParseNla(ntype, v).val)
<1> DEFINE kind == NlaKind(ntype)
           r    == UnixParseNla(ntype, v)
<1> SUFFICES r.val \in UnixNla /\ NlaSurvives("UnixResponse", r.val)
  OBVIOUS
<1>1. CASE kind = UNIX_DIAG_NAME
  <2>1. r = ParseName(v)
    BY <1>1, UnixDispatchOf
  <2>2. r.val \in UnixDiagName /\ NlaSurvives("UnixResponse", r.val)
    BY <2>1, NameTyped
  <2> QED
    BY <2>2 DEF UnixNla
<1>2. CASE kind = UNIX_DIAG_VFS
  <2>1. r = AtLeast("Vfs", VfsLen, v)
    BY <1>2, UnixDispatchOf DEF ParseVfs
  <2>2. r.val = Attr("Vfs", Slice(v, 0, VfsLen)) /\ Slice(v, 0, VfsLen) \in Vfs
    BY <2>1, AtLeastTyped, UnixLengths DEF Vfs
  <2>3. r.val \in [tag : {"Vfs"}, val : Vfs]
    BY <2>2 DEF Attr
  <2> QED
    BY <2>3 DEF UnixNla, NlaSurvives
<1>3. CASE kind = UNIX_DIAG_PEER
  <2>1. r.val = Attr("Peer", v) /\ v \in Bytes(4)
    BY <1>3, UnixDispatchOf, ExactlyTyped
  <2>2. r.val \in [tag : {"Peer"}, val : Bytes(4)]
    BY <2>1 DEF Attr
  <2> QED
    BY <2>2 DEF UnixNla, NlaSurvives
<1>4. CASE kind = UNIX_DIAG_ICONS
  <2>1. r = ParsePendingConnections(v)
    BY <1>4, UnixDispatchOf
  <2>2. r.val = Attr("PendingConnections", v) /\ Len(v) % 4 = 0
    BY <2>1 DEF ParsePendingConnections, Ok, Err
  <2>3. r.val \in [tag : {"PendingConnections"}, val : {s \in Seq(Byte) : Len(s) % 4 = 0}]
    BY <2>2 DEF Attr
  <2> QED
    BY <2>3 DEF UnixNla, NlaSurvives
<1>5. CASE kind = UNIX_DIAG_RQLEN
  <2>1. r.val = Attr("ReceiveQueueLength", v) /\ v \in Bytes(8)
    BY <1>5, UnixDispatchOf, ExactlyTyped
  <2>2. r.val \in [tag : {"ReceiveQueueLength"}, val : Bytes(8)]
    BY <2>1 DEF Attr
  <2> QED
    BY <2>2 DEF UnixNla, NlaSurvives
<1>6. CASE kind = UNIX_DIAG_MEMINFO
  <2> DEFINE s == Slice(v, 4, 4) \o Slice(v, 12, 4) \o Slice(v, 20, 4)
  <2>1. r = ParseUnixMemInfo(v)
    BY <1>6, UnixDispatchOf
  <2>2. r.val = Attr("MemInfo", s) /\ Len(v) >= 36
    BY <2>1, UnixLengths DEF ParseUnixMemInfo, Ok, Err
  <2>3. /\ Slice(v, 4, 4) \in Bytes(4) /\ Slice(v, 12, 4) \in Bytes(4)
        /\ Slice(v, 20, 4) \in Bytes(4)
    <3>1. 4 + 4 <= Len(v) /\ 12 + 4 <= Len(v) /\ 20 + 4 <= Len(v)
      BY <2>2
    <3> QED
      BY <3>1, SliceBytes, 4 \in Nat, 12 \in Nat, 20 \in Nat
  <2>4. Slice(v, 4, 4) \o Slice(v, 12, 4) \in Bytes(4 + 4)
    BY <2>3, BytesConcat, 4 \in Nat
  <2>5. s \in Bytes((4 + 4) + 4)
    BY <2>3, <2>4, BytesConcat, 4 \in Nat, 4 + 4 \in Nat
  <2>6. s \in UnixMemInfo
    BY <2>5, (4 + 4) + 4 = 3 * 4 DEF UnixMemInfo
  <2>7. r.val \in [tag : {"MemInfo"}, val : UnixMemInfo]
    BY <2>2, <2>6 DEF Attr
  <2> QED
    BY <2>7 DEF UnixNla, NlaSurvives
<1>7. CASE kind = UNIX_DIAG_SHUTDOWN
  <2>1. r.val = Attr("Shutdown", v) /\ v \in Bytes(1)
    BY <1>7, UnixDispatchOf, ExactlyTyped
  <2>2. r.val \in [tag : {"Shutdown"}, val : Bytes(1)]
    BY <2>1 DEF Attr
  <2> QED
    BY <2>2 DEF UnixNla, NlaSurvives
<1>8. CASE kind \notin
          {UNIX_DIAG_NAME, UNIX_DIAG_VFS, UNIX_DIAG_PEER, UNIX_DIAG_ICONS, UNIX_DIAG_RQLEN,
           UNIX_DIAG_MEMINFO, UNIX_DIAG_SHUTDOWN}
  <2>1. r.val = Other(ntype, v)
    BY <1>8 DEF UnixParseNla, Ok
  <2>2. r.val \in DefaultNla /\ r.val.tag = "Other" /\ r.val.kind = ntype
    BY <2>1 DEF DefaultNla, Other
  <2>3. kind \notin {UnixKindOf[tag] : tag \in DOMAIN UnixKindOf}
    BY <1>8 DEF UnixKindOf
  <2> QED
    BY <2>2, <2>3 DEF UnixNla, NlaSurvives, KnownKinds, InetVariants
<1> QED
  BY <1>1, <1>2, <1>3, <1>4, <1>5, <1>6, <1>7, <1>8

(* An attribute is parsed exactly if its value is acceptable for its kind. *)
LEMMA NameOk ==
  ASSUME NEW v \in Seq(Byte)
  PROVE  ParseName(v).ok <=> /\ v # << >>
                             /\ v[1] = 0 \/ {i \in DOMAIN v : v[i] = 0} = {Len(v)}
<1> DEFINE n     == Len(v)
           zeros == {i \in DOMAIN v : v[i] = 0}
<1>1. n \in Nat /\ DOMAIN v = 1 .. n /\ (v # << >> <=> n > 0)
  OBVIOUS
<1>2. ParseName(v).ok <=> \/ n > 0 /\ v[1] = 0
                          \/ n > 0 /\ v[n] = 0 /\ \A i \in 1 .. n - 1 : v[i] # 0
  BY DEF ParseName, Ok, Err
<1>0. zeros = {i \in 1 .. n : v[i] = 0}
  BY <1>1
<1>4. \A m \in Nat : \A i : i \in 1 .. m - 1 <=> i \in 1 .. m /\ i # m
  OBVIOUS
<1>5. \A i : i \in 1 .. n - 1 <=> i \in 1 .. n /\ i # n
  BY <1>1, <1>4
<1>6. n > 0 => n \in 1 .. n
  BY <1>1
<1> HIDE DEF n, zeros
<1>3. n > 0 => ((v[n] = 0 /\ \A i \in 1 .. n - 1 : v[i] # 0) <=> zeros = {n})
  <2>1. ASSUME n > 0, v[n] = 0, \A i \in 1 .. n - 1 : v[i] # 0 PROVE zeros = {n}
    BY <1>0, <1>5, <1>6, <2>1
  <2>2. ASSUME n > 0, zeros = {n} PROVE v[n] = 0 /\ \A i \in 1 .. n - 1 : v[i] # 0
    BY <1>0, <1>5, <1>6, <2>2
  <2> QED
    BY <2>1, <2>2
<1>7. ParseName(v).ok <=> v # << >> /\ (v[1] = 0 \/ zeros = {n})
  BY <1>1, <1>2, <1>3
<1> QED
  BY <1>7 DEF n, zeros

LEMMA UnixAcceptableOk ==
  ASSUME NEW ntype, NEW v \in Seq(Byte)
  PROVE  UnixParseNla(ntype, v).ok <=> UnixAcceptable(NlaKind(ntype), v)
<1> DEFINE kind == NlaKind(ntype)
           r    == UnixParseNla(ntype, v)
<1> SUFFICES r.ok <=> UnixAcceptable(kind, v)
  OBVIOUS
<1>1. CASE kind = UNIX_DIAG_NAME
  <2>1. r.ok <=> /\ v # << >>
                 /\ v[1] = 0 \/ {i \in DOMAIN v : v[i] = 0} = {Len(v)}
    BY <1>1, UnixDispatchOf, NameOk
  <2> HIDE DEF r
  <2> QED
    BY <1>1, <2>1
    DEF UnixAcceptable, UNIX_DIAG_NAME, UNIX_DIAG_VFS, UNIX_DIAG_PEER, UNIX_DIAG_ICONS,
        UNIX_DIAG_RQLEN, UNIX_DIAG_MEMINFO, UNIX_DIAG_SHUTDOWN
<1>2. CASE kind \in {UNIX_DIAG_VFS, UNIX_DIAG_PEER, UNIX_DIAG_ICONS, UNIX_DIAG_RQLEN,
                     UNIX_DIAG_MEMINFO, UNIX_DIAG_SHUTDOWN}
  <2>1. /\ kind = UNIX_DIAG_VFS => (r.ok <=> Len(v) >= VfsLen)
        /\ kind = UNIX_DIAG_PEER => (r.ok <=> Len(v) = 4)
        /\ kind = UNIX_DIAG_RQLEN => (r.ok <=> Len(v) = 8)
        /\ kind = UNIX_DIAG_SHUTDOWN => (r.ok <=> Len(v) = 1)
    <3>1. kind = UNIX_DIAG_VFS => r = AtLeast("Vfs", VfsLen, v)
      BY UnixDispatchOf DEF ParseVfs
    <3>2. /\ kind = UNIX_DIAG_PEER => r = Exactly("Peer", 4, v)
          /\ kind = UNIX_DIAG_RQLEN => r = Exactly("ReceiveQueueLength", 8, v)
          /\ kind = UNIX_DIAG_SHUTDOWN => r = Exactly("Shutdown", 1, v)
      BY UnixDispatchOf
    <3> HIDE DEF kind, r
    <3> QED
      BY <3>1, <3>2, ParsersOk, IntegersOk
  <2>2. /\ kind = UNIX_DIAG_ICONS => (r.ok <=> Len(v) % 4 = 0)
        /\ kind = UNIX_DIAG_MEMINFO => (r.ok <=> Len(v) >= UnixMemInfoLen)
    BY UnixDispatchOf DEF ParsePendingConnections, ParseUnixMemInfo, Ok, Err
  <2> HIDE DEF r
  <2> QED
    BY <1>2, <2>1, <2>2
    DEF UnixAcceptable, UNIX_DIAG_NAME, UNIX_DIAG_VFS, UNIX_DIAG_PEER, UNIX_DIAG_ICONS,
        UNIX_DIAG_RQLEN, UNIX_DIAG_MEMINFO, UNIX_DIAG_SHUTDOWN
<1>3. CASE kind \notin
          {UNIX_DIAG_NAME, UNIX_DIAG_VFS, UNIX_DIAG_PEER, UNIX_DIAG_ICONS, UNIX_DIAG_RQLEN,
           UNIX_DIAG_MEMINFO, UNIX_DIAG_SHUTDOWN}
  <2>1. r.ok
    BY <1>3 DEF UnixParseNla, Ok
  <2>2. UnixAcceptable(kind, v)
    BY <1>3 DEF UnixAcceptable
  <2> QED
    BY <2>1, <2>2
<1> QED
  BY <1>1, <1>2, <1>3

LEMMA UnixSmall ==
  ASSUME NEW a, a.tag \in {"Vfs", "Peer", "ReceiveQueueLength", "MemInfo", "Shutdown"}
  PROVE  UnixValueLen(a) <= 36
<1>1. VfsLen <= 36 /\ UnixMemInfoLen <= 36
  BY DEF VfsLen, UnixMemInfoLen
<1>2. CASE a.tag = "Vfs"
  BY <1>1, <1>2 DEF UnixValueLen
<1>3. CASE a.tag = "Peer"
  BY <1>3 DEF UnixValueLen
<1>4. CASE a.tag = "ReceiveQueueLength"
  BY <1>4 DEF UnixValueLen
<1>5. CASE a.tag = "MemInfo"
  BY <1>1, <1>5 DEF UnixValueLen
<1>6. CASE a.tag = "Shutdown"
  BY <1>6 DEF UnixValueLen
<1> QED
  BY <1>2, <1>3, <1>4, <1>5, <1>6

(* A parsed attribute is never too long for the 16-bit length.             *)
LEMMA UnixParsedFits ==
  ASSUME NEW ntype \in Word16, NEW v \in Seq(Byte), UnixParseNla(ntype, v).ok,
         Len(v) <= 65531
  PROVE  LET a == UnixParseNla(ntype, v).val
         IN  NlaFits(UnixValueLen(a)) /\ ~FullName(a)
<1> DEFINE kind == NlaKind(ntype)
           r    == UnixParseNla(ntype, v)
           n    == UnixValueLen(r.val)
<1>0. r.val \in UnixNla /\ n \in Nat /\ Len(v) \in Nat
  BY UnixParseTyped, UnixNlaFacts
<1>1. ASSUME kind = UNIX_DIAG_NAME PROVE n <= 65531 /\ r.val.tag # "Congestion"
  <2>1. r = ParseName(v) /\ ParseName(v).ok
    BY <1>1, UnixDispatchOf
  <2>2. /\ Len(v) > 0
        /\ \/ r.val = Attr("Abstract", Slice(v, 1, Len(v) - 1))
           \/ r.val = Attr("Pathname", Slice(v, 0, Len(v) - 1))
    BY <2>1 DEF ParseName, Ok, Err
  <2>3. /\ Len(v) - 1 \in Nat /\ 1 + (Len(v) - 1) <= Len(v) /\ 0 + (Len(v) - 1) <= Len(v)
    BY <1>0, <2>2
  <2>4. /\ Len(Slice(v, 1, Len(v) - 1)) = Len(v) - 1
        /\ Len(Slice(v, 0, Len(v) - 1)) = Len(v) - 1
    <3>1. Slice(v, 1, Len(v) - 1) \in Bytes(Len(v) - 1)
      BY <2>3, SliceBytes, 1 \in Nat
    <3>2. Slice(v, 0, Len(v) - 1) \in Bytes(Len(v) - 1)
      BY <2>3, SliceBytes, 0 \in Nat
    <3> QED
      BY <3>1, <3>2 DEF Bytes
  <2>5. r.val.tag \in {"Abstract", "Pathname"} /\ Len(r.val.val) = Len(v) - 1
    BY <2>2, <2>4 DEF Attr
  <2>6. n = (Len(v) - 1) + 1
    BY <2>5 DEF UnixValueLen
  <2> QED
    BY <1>0, <2>5, <2>6
<1>2. ASSUME kind \in {UNIX_DIAG_VFS, UNIX_DIAG_PEER, UNIX_DIAG_RQLEN, UNIX_DIAG_MEMINFO,
                       UNIX_DIAG_SHUTDOWN}
      PROVE  n <= 65531 /\ r.val.tag # "Congestion"
  <2>1. r.val.tag \in {"Vfs", "Peer", "ReceiveQueueLength", "MemInfo", "Shutdown"}
    BY <1>2, UnixDispatchOf
    DEF ParseVfs, AtLeast, Exactly, ParseUnixMemInfo, Ok, Err, Attr
  <2>2. n <= 36
    BY <2>1, UnixSmall
  <2> QED
    BY <1>0, <2>1, <2>2
<1>3. ASSUME kind = UNIX_DIAG_ICONS PROVE n <= 65531 /\ r.val.tag # "Congestion"
  <2>1. r.val.tag = "PendingConnections" /\ r.val.val = v
    BY <1>3, UnixDispatchOf DEF ParsePendingConnections, Ok, Err, Attr
  <2>2. n = 4 * (Len(v) \div 4)
    BY <2>1 DEF UnixValueLen
  <2>3. \A k0 \in Nat : 4 * (k0 \div 4) <= k0
    OBVIOUS
  <2> QED
    BY <1>0, <2>1, <2>2, <2>3
<1>4. ASSUME kind \notin
               {UNIX_DIAG_NAME, UNIX_DIAG_VFS, UNIX_DIAG_PEER, UNIX_DIAG_ICONS, UNIX_DIAG_RQLEN,
                UNIX_DIAG_MEMINFO, UNIX_DIAG_SHUTDOWN}
      PROVE  n <= 65531 /\ r.val.tag # "Congestion"
  <2>1. r.val.tag = "Other" /\ r.val.val = v
    BY <1>4 DEF UnixParseNla, Ok, Other
  <2>2. n = Len(v)
    BY <2>1 DEF UnixValueLen
  <2> QED
    BY <1>0, <2>1, <2>2
<1>5. n <= 65531 /\ r.val.tag # "Congestion"
  BY <1>1, <1>2, <1>3, <1>4
<1> HIDE DEF n, r
<1>6. NlaFits(n)
  BY <1>0, <1>5 DEF NlaFits, U16_MAX, NLA_HEADER_SIZE
<1>7. ~FullName(r.val)
  BY <1>5 DEF FullName
<1> QED
  BY <1>6, <1>7 DEF n, r

-----------------------------------------------------------------------------
(***************************************************************************)
(* Both families under the names of SockDiagMessage.                       *)
(***************************************************************************)
NlaSet(variant) == IF variant \in InetVariants THEN InetNla ELSE UnixNla

LEMMA NlaFacts ==
  ASSUME NEW variant \in Responses, NEW a \in NlaSet(variant)
  PROVE  /\ Kind(variant, a) \in Word16
         /\ ValueLen(variant, a) \in Nat
         /\ EmitValue(variant, a) \in Seq(Byte)
         /\ Len(EmitValue(variant, a)) = ValueLen(variant, a)
<1>1. CASE variant = "InetResponse"
  BY <1>1, InetNlaFacts DEF NlaSet, InetVariants, Kind, ValueLen, EmitValue
<1>2. CASE variant = "UnixResponse"
  BY <1>2, UnixNlaFacts DEF NlaSet, InetVariants, Kind, ValueLen, EmitValue
<1> QED
  BY <1>1, <1>2 DEF Responses

LEMMA NlaBack ==
  ASSUME NEW variant \in Responses, NEW a \in NlaSet(variant), NlaSurvives(variant, a)
  PROVE  ParseNlaValue(variant, Kind(variant, a), EmitValue(variant, a)) = Ok(a)
<1>1. CASE variant = "InetResponse"
  BY <1>1, InetNlaBack DEF NlaSet, InetVariants, Kind, EmitValue, ParseNlaValue
<1>2. CASE variant = "UnixResponse"
  BY <1>2, UnixNlaBack DEF NlaSet, InetVariants, Kind, EmitValue, ParseNlaValue
<1> QED
  BY <1>1, <1>2 DEF Responses

LEMMA NlaTyped ==
  ASSUME NEW variant \in Responses, NEW ntype \in Word16, NEW v \in Seq(Byte),
         ParseNlaValue(variant, ntype, v).ok
  PROVE  /\ ParseNlaValue(variant, ntype, v).val \in NlaSet(variant)
         /\ NlaSurvives(variant, ParseNlaValue(variant, ntype, v).val)
<1>1. CASE variant = "InetResponse"
  BY <1>1, InetParseTyped DEF NlaSet, InetVariants, ParseNlaValue
<1>2. CASE variant = "UnixResponse"
  BY <1>2, UnixParseTyped DEF NlaSet, InetVariants, ParseNlaValue
<1> QED
  BY <1>1, <1>2 DEF Responses

LEMMA NlaAcceptable ==
  ASSUME NEW variant \in Responses, NEW ntype, NEW v \in Seq(Byte)
  PROVE  ParseNlaValue(variant, ntype, v).ok <=> Acceptable(variant, ntype, v)
<1>1. CASE variant = "InetResponse"
  BY <1>1, InetAcceptableOk DEF InetVariants, ParseNlaValue, Acceptable
<1>2. CASE variant = "UnixResponse"
  BY <1>2, UnixAcceptableOk DEF InetVariants, ParseNlaValue, Acceptable
<1> QED
  BY <1>1, <1>2 DEF Responses

LEMMA ParsedFits ==
  ASSUME NEW variant \in Responses, NEW ntype \in Word16, NEW v \in Seq(Byte),
         ParseNlaValue(variant, ntype, v).ok, Len(v) <= 65531
  PROVE  LET a == ParseNlaValue(variant, ntype, v).val
         IN  NlaFits(ValueLen(variant, a)) <=> ~FullName(a)
<1>3. Len(v) <= U16_MAX - NLA_HEADER_SIZE
  BY DEF U16_MAX, NLA_HEADER_SIZE
<1>1. CASE variant = "InetResponse"
  BY <1>1, <1>3, InetParsedFits DEF InetVariants, ParseNlaValue, ValueLen
<1>2. CASE variant = "UnixResponse"
  BY <1>2, UnixParsedFits DEF InetVariants, ParseNlaValue, ValueLen
<1> QED
  BY <1>1, <1>2 DEF Responses
=============================================================================
