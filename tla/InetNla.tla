------------------------------- MODULE InetNla -------------------------------
(***************************************************************************)
(* src/inet/nlas.rs: the attributes of an AF_INET / AF_INET6 response.     *)
(***************************************************************************)
EXTENDS NetlinkCore

CONSTANT RichNlas   \* the cargo feature "rich_nlas"

ASSUME RichNlasAssumption == RichNlas \in BOOLEAN

(* The packed structures: so many u8, u32 and u64 fields.                  *)
LegacyMemInfoLen == 4 * 4
MemInfoLen       == 9 * 4
TcpInfoLen       == 8 * 1 + 36 * 4 + 10 * 8

(***************************************************************************)
(* The attributes there are.  The fields of a structure are only copied:   *)
(* LegacyMemInfo, MemInfo and TcpInfo are the bytes of their fields in the *)
(* order of the buffer structure, an integer the bytes it is stored in, a  *)
(* boolean the byte it is emitted as.                                      *)
(***************************************************************************)
LegacyMemInfo == Bytes(LegacyMemInfoLen)
MemInfo       == Bytes(MemInfoLen)
TcpInfo       == IF RichNlas THEN Bytes(TcpInfoLen) ELSE Seq(Byte)

InetNla ==
  [tag : {"LegacyMemInfo"}, val : LegacyMemInfo]
    \cup [tag : {"TcpInfo"}, val : TcpInfo]
    \cup [tag : {"Congestion"}, val : String]
    \cup [tag : {"MemInfo"}, val : MemInfo]
    \cup [tag : {"Tos", "Tc", "Shutdown", "Protocol"}, val : Bytes(1)]
    \cup [tag : {"SkV6Only"}, val : {<< 0 >>, << 1 >>}]
    \cup [tag : {"Mark", "ClassId"}, val : Bytes(4)]
    \cup DefaultNla

(* LegacyMemInfo::parse, MemInfo::parse, TcpInfo::parse: every field of    *)
(* the buffer structure goes to the field of the same name, and back.      *)
ParseLegacyMemInfo(v) == AtLeast("LegacyMemInfo", LegacyMemInfoLen, v)
ParseMemInfo(v)       == AtLeast("MemInfo", MemInfoLen, v)
ParseTcpInfo(v)       == AtLeast("TcpInfo", TcpInfoLen, v)

(* INET_DIAG_INFO is a structure or, without the feature, any bytes.       *)
ParseInfoAlwaysRich(v) == ParseTcpInfo(v)
ParseInfo(v) == IF RichNlas THEN ParseTcpInfo(v) ELSE Ok(Attr("TcpInfo", v))

ParseSkV6Only(v) ==
  IF Len(v) = 1 THEN Ok(Attr("SkV6Only", << IF v[1] # 0 THEN 1 ELSE 0 >>)) ELSE Err

InetParseNla(type, v) ==
  LET kind == NlaKind(type)
  IN  CASE kind = INET_DIAG_MEMINFO    -> ParseLegacyMemInfo(v)
        [] kind = INET_DIAG_INFO       -> ParseInfo(v)
        [] kind = INET_DIAG_CONG       -> ParseString("Congestion", v)
        [] kind = INET_DIAG_TOS        -> Exactly("Tos", 1, v)
        [] kind = INET_DIAG_TCLASS     -> Exactly("Tc", 1, v)
        [] kind = INET_DIAG_SKMEMINFO  -> ParseMemInfo(v)
        [] kind = INET_DIAG_SHUTDOWN   -> Exactly("Shutdown", 1, v)
        [] kind = INET_DIAG_PROTOCOL   -> Exactly("Protocol", 1, v)
        [] kind = INET_DIAG_SKV6ONLY   -> ParseSkV6Only(v)
        [] kind = INET_DIAG_MARK       -> Exactly("Mark", 4, v)
        [] kind = INET_DIAG_CLASS_ID   -> Exactly("ClassId", 4, v)
        [] OTHER                       -> Ok(Other(type, v))

InetKindOf ==
  [LegacyMemInfo |-> INET_DIAG_MEMINFO,   TcpInfo  |-> INET_DIAG_INFO,
   Congestion    |-> INET_DIAG_CONG,      Tos      |-> INET_DIAG_TOS,
   Tc            |-> INET_DIAG_TCLASS,    MemInfo  |-> INET_DIAG_SKMEMINFO,
   Shutdown      |-> INET_DIAG_SHUTDOWN,  Protocol |-> INET_DIAG_PROTOCOL,
   SkV6Only      |-> INET_DIAG_SKV6ONLY,  Mark     |-> INET_DIAG_MARK,
   ClassId       |-> INET_DIAG_CLASS_ID]

InetKind(a) == IF a.tag = "Other" THEN a.kind ELSE InetKindOf[a.tag]

(* A value_len() that forgets the NUL of a string, and one that counts     *)
(* every integer as a u32.                                                 *)
InetValueLenNoNul(a) ==
  CASE a.tag = "LegacyMemInfo"         -> LegacyMemInfoLen
    [] a.tag = "TcpInfo" /\ RichNlas   -> TcpInfoLen
    [] a.tag = "MemInfo"               -> MemInfoLen
    [] OTHER                           -> Len(a.val)

InetValueLenWide(a) ==
  CASE a.tag = "LegacyMemInfo"         -> LegacyMemInfoLen
    [] a.tag = "TcpInfo" /\ RichNlas   -> TcpInfoLen
    [] a.tag = "Congestion"            -> Len(a.val) + 1
    [] a.tag = "MemInfo"               -> MemInfoLen
    [] a.tag \in {"Other", "TcpInfo"}  -> Len(a.val)
    [] OTHER                           -> 4

InetValueLen(a) ==
  CASE a.tag = "LegacyMemInfo"         -> LegacyMemInfoLen
    [] a.tag = "TcpInfo" /\ RichNlas   -> TcpInfoLen
    [] a.tag = "TcpInfo" /\ ~RichNlas  -> Len(a.val)
    [] a.tag = "Congestion"            -> Len(a.val) + 1
    [] a.tag \in {"Tos", "Tc", "Shutdown", "Protocol", "SkV6Only"} -> 1
    [] a.tag = "MemInfo"               -> MemInfoLen
    [] a.tag \in {"Mark", "ClassId"}   -> 4
    [] a.tag = "Other"                 -> Len(a.val)

(* emit_value: a string gets a NUL back, every other variant is its bytes. *)
InetEmitValue(a) == IF a.tag = "Congestion" THEN Append(a.val, 0) ELSE a.val

(* Those written by copy_from_slice to the whole slice, which panics unless *)
(* the lengths are equal; the others write a prefix of it.                 *)
InetFillsSlice(a) ==
  a.tag \in {"LegacyMemInfo", "MemInfo", "Other"} \/ (a.tag = "TcpInfo" /\ RichNlas)
=============================================================================
