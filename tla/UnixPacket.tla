------------------------------ MODULE UnixPacket ------------------------------
(***************************************************************************)
(* src/unix/request.rs and the header of src/unix/response.rs: the fixed   *)
(* structures of the UNIX family.                                          *)
(***************************************************************************)
EXTENDS NetlinkCore

UnixRequestLen        == 24
UnixResponseHeaderLen == 16

(* The StateFlags name two single bits, the ShowFlags one for each of the  *)
(* attributes that can be asked for.  As in InetPacket, parse() drops the  *)
(* other bits and a program may set them.                                  *)
TruncateUnixStates(s) ==
  U16Bytes(KeepBits(U16(s, 0), TCP_ESTABLISHED, TCP_ESTABLISHED)
             + KeepBits(U16(s, 0), TCP_LISTEN, TCP_LISTEN)) \o Zeros(2)

TruncateShow(s) ==
  U16Bytes(KeepBits(U16(s, 0), UNIX_DIAG_NAME, UNIX_DIAG_MEMINFO)) \o Zeros(2)

UnixRequest ==
  [state_flags : Bytes(4),
   inode       : Bytes(4),
   show_flags  : Bytes(4),
   cookie      : Bytes(8)]

UnixResponseHeader ==
  [kind : Byte, state : Byte, inode : Bytes(4), cookie : Bytes(8)]

(* The family and protocol bytes are not looked at.                        *)
ParseUnixRequest(b) ==
  IF Len(b) < UnixRequestLen
  THEN Err
  ELSE Ok([state_flags |-> TruncateUnixStates(Slice(b, 4, 4)),
           inode       |-> Slice(b, 8, 4),
           show_flags  |-> TruncateShow(Slice(b, 12, 4)),
           cookie      |-> Slice(b, 16, 8)])

EmitUnixRequest(r) ==
  << AF_UNIX, 0, 0, 0 >> \o r.state_flags \o r.inode \o r.show_flags \o r.cookie

(* The padding byte is dropped by the parser and written back as zero.     *)
ParseUnixHeader(b) ==
  IF Len(b) < UnixResponseHeaderLen
  THEN Err
  ELSE Ok([kind   |-> b[2],
           state  |-> b[3],
           inode  |-> Slice(b, 4, 4),
           cookie |-> Slice(b, 8, 8)])

EmitUnixHeader(h) ==
  << AF_UNIX, h.kind, h.state, 0 >> \o h.inode \o h.cookie
=============================================================================
