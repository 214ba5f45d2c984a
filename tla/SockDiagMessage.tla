--------------------------- MODULE SockDiagMessage ---------------------------
(***************************************************************************)
(* src/message.rs: which structure a payload is read as, and the           *)
(* operations of the four variants under one name each.                    *)
(*                                                                         *)
(* A message is [variant, header, nlas]; a request has no attributes.  A   *)
(* program reads a payload through one of four types: SockDiagMessage and  *)
(* SockDiagDestroy, which look at the message type and at the family byte, *)
(* or InetRequest and UnixRequest, whose parse() looks at neither.         *)
(***************************************************************************)
EXTENDS InetNla, UnixNla, InetPacket, UnixPacket

InetVariants  == {"InetRequest", "InetResponse"}
UnixVariants  == {"UnixRequest", "UnixResponse"}
Requests      == {"InetRequest", "UnixRequest"}
Responses     == {"InetResponse", "UnixResponse"}
Variants      == Requests \cup Responses
MessageTypes  == {"SockDiagMessage", "SockDiagDestroy"}
Readers       == MessageTypes \cup Requests

Message ==
  [variant : {"InetRequest"}, header : InetRequest, nlas : {<< >>}]
    \cup [variant : {"InetResponse"}, header : InetResponseHeader, nlas : Seq(InetNla)]
    \cup [variant : {"UnixRequest"}, header : UnixRequest, nlas : {<< >>}]
    \cup [variant : {"UnixResponse"}, header : UnixResponseHeader, nlas : Seq(UnixNla)]

(* NetlinkSerializable::message_type.  The bytes of a bare request carry   *)
(* no netlink header: 0 stands for that.                                   *)
MessageType(reader) ==
  CASE reader = "SockDiagMessage" -> SOCK_DIAG_BY_FAMILY
    [] reader = "SockDiagDestroy" -> SOCK_DESTROY
    [] OTHER                      -> 0

(* SockDiagMessage::parse_with_param up to the choice of a variant;        *)
(* SockDiagDestroy::deserialize calls it with the type of the header.      *)
VariantOf(type, b) ==
  IF Len(b) < 2 \/ type # SOCK_DIAG_BY_FAMILY
  THEN "none"
  ELSE CASE b[1] \in {AF_INET, AF_INET6} -> "InetResponse"
         [] b[1] = AF_UNIX               -> "UnixResponse"
         [] OTHER                        -> "none"

ReadAs(reader, type, b) ==
  IF reader \in Requests THEN reader ELSE VariantOf(type, b)

HeaderLen(variant) ==
  CASE variant = "InetRequest"  -> InetRequestLen
    [] variant = "InetResponse" -> InetResponseHeaderLen
    [] variant = "UnixRequest"  -> UnixRequestLen
    [] variant = "UnixResponse" -> UnixResponseHeaderLen

(* The length is checked before the fields are read.                       *)
ParseHeader(variant, b) ==
  IF Len(b) < HeaderLen(variant)
  THEN Err
  ELSE CASE variant = "InetRequest"  -> ParseInetRequest(b)
         [] variant = "InetResponse" -> ParseInetHeader(b)
         [] variant = "UnixRequest"  -> ParseUnixRequest(b)
         [] variant = "UnixResponse" -> ParseUnixHeader(b)

EmitHeader(m) ==
  CASE m.variant = "InetRequest"  -> EmitInetRequest(m.header)
    [] m.variant = "InetResponse" -> EmitInetHeader(m.header)
    [] m.variant = "UnixRequest"  -> EmitUnixRequest(m.header)
    [] m.variant = "UnixResponse" -> EmitUnixHeader(m.header)

ParseNlaValue(variant, ntype, v) ==
  IF variant \in InetVariants THEN InetParseNla(ntype, v) ELSE UnixParseNla(ntype, v)

Kind(variant, a) ==
  IF variant \in InetVariants THEN InetKind(a) ELSE UnixKind(a)

ValueLen(variant, a) ==
  IF variant \in InetVariants THEN InetValueLen(a) ELSE UnixValueLen(a)

EmitValue(variant, a) ==
  IF variant \in InetVariants THEN InetEmitValue(a) ELSE UnixEmitValue(a)

FillsSlice(variant, a) ==
  IF variant \in InetVariants THEN InetFillsSlice(a) ELSE UnixFillsSlice(a)
=============================================================================
