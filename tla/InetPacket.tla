------------------------------ MODULE InetPacket ------------------------------
(***************************************************************************)
(* src/inet/socket_id.rs, src/inet/request.rs and the header of            *)
(* src/inet/response.rs: the fixed structures of the INET family.          *)
(*                                                                         *)
(* An IP address is its octets: 4 of them make an IpAddr::V4, 16 a V6.     *)
(* Integers nothing is computed from stay the bytes they are stored in.    *)
(***************************************************************************)
EXTENDS NetlinkCore

SocketIdLen           == 48
InetRequestLen        == 56
InetResponseHeaderLen == 72

(***************************************************************************)
(* SocketId.  Ports travel in network byte order; the family of the        *)
(* enclosing packet decides how much of the 16 address bytes is read, the  *)
(* kind of the address how many are written.                               *)
(***************************************************************************)
PortAsStored(p)    == U16Bytes(p)                \* the to_be() forgotten
PortFromBe(b, off) == 256 * b[off + 1] + b[off + 2]
PortToBe(p)        == << p \div 256, p % 256 >>
Octets(address)    == address \o Zeros(16 - Len(address))

IpAddr == Bytes(4) \cup Bytes(16)

SocketId ==
  [source_port : Word16, destination_port : Word16,
   source_address : IpAddr, destination_address : IpAddr,
   interface_id : Bytes(4), cookie : Bytes(8)]

ParseSocketId(raw, af) ==
  LET addressLen == IF af = AF_INET THEN 4 ELSE 16
  IN  IF af \in {AF_INET, AF_INET6}
      THEN Ok([source_port         |-> PortFromBe(raw, 0),
               destination_port    |-> PortFromBe(raw, 2),
               source_address      |-> Slice(raw, 4, addressLen),
               destination_address |-> Slice(raw, 20, addressLen),
               interface_id        |-> Slice(raw, 36, 4),
               cookie              |-> Slice(raw, 40, 8)])
      ELSE Err

EmitSocketId(id) ==
  PortToBe(id.source_port) \o PortToBe(id.destination_port)
    \o Octets(id.source_address) \o Octets(id.destination_address)
    \o id.interface_id \o id.cookie

(* SocketId::new_v4 and new_v6: everything zero.                           *)
NewSocketId(octets) ==
  [source_port |-> 0, destination_port |-> 0,
   source_address |-> Zeros(octets), destination_address |-> Zeros(octets),
   interface_id |-> Zeros(4), cookie |-> Zeros(8)]

(***************************************************************************)
(* InetRequest.  "states" holds the four bytes of the 32-bit StateFlags,   *)
(* which name a bit for every TCP state; the ExtensionFlags are a byte,    *)
(* and every bit of it has a name.  parse() drops bits without a name      *)
(* (from_bits_truncate), a program may set them (from_bits_retain), and    *)
(* emit() writes what is there.                                            *)
(***************************************************************************)
StatesRetained(s) == s

TruncateStates(s) ==
  U16Bytes(KeepBits(U16(s, 0), TCP_ESTABLISHED, TCP_CLOSING)) \o Zeros(2)

TruncateExtensions(e) ==
  KeepBits(e, INET_DIAG_MEMINFO - 1, INET_DIAG_SHUTDOWN - 1)

InetRequest ==
  [family : Byte, protocol : Byte,
   extensions : Byte,
   states     : Bytes(4),
   socket_id  : SocketId]

ParseInetRequest(b) ==
  LET id == ParseSocketId(Slice(b, 8, SocketIdLen), b[1])
  IN  IF Len(b) < InetRequestLen \/ ~id.ok
      THEN Err
      ELSE Ok([family     |-> b[1],
               protocol   |-> b[2],
               extensions |-> TruncateExtensions(b[3]),
               states     |-> TruncateStates(Slice(b, 4, 4)),
               socket_id  |-> id.val])

EmitInetRequest(r) ==
  << r.family, r.protocol, r.extensions, 0 >> \o r.states
    \o EmitSocketId(r.socket_id)

(***************************************************************************)
(* The timer of a response.  A Duration is "expires", the low 32 bits of   *)
(* its milliseconds, and "beyond", what as_millis() & 0xffff_ffff drops.   *)
(***************************************************************************)
Duration(expires) == [expires |-> expires, beyond |-> 0]

TimerCode == [None |-> 0, Retransmit |-> 1, KeepAlive |-> 2, TimeWait |-> 3, Probe |-> 4]

TimerOf(kind, duration, retransmits) ==
  [kind |-> kind, duration |-> duration, retransmits |-> retransmits]

NoDuration == Duration(Zeros(4))
Durations  == [expires : Bytes(4), beyond : Nat]

(* Option<Timer>: only some variants have a duration and a count.          *)
Timer ==
  [kind : {"None", "TimeWait"}, duration : {NoDuration}, retransmits : {0}]
    \cup [kind : {"KeepAlive", "Probe"}, duration : Durations, retransmits : {0}]
    \cup [kind : {"Retransmit"}, duration : Durations, retransmits : Byte]

InetResponseHeader ==
  [family : Byte, state : Byte, timer : Timer, socket_id : SocketId, words : Bytes(16)]

ParseTimer(code, expires, retransmits) ==
  CASE code = 1 -> TimerOf("Retransmit", Duration(expires), retransmits)
    [] code = 2 -> TimerOf("KeepAlive", Duration(expires), 0)
    [] code = 3 -> TimerOf("TimeWait", NoDuration, 0)
    [] code = 4 -> TimerOf("Probe", Duration(expires), 0)
    [] OTHER    -> TimerOf("None", NoDuration, 0)

(* The four 32-bit words after the expiry, recv_queue, send_queue, uid and *)
(* inode, are only copied: one field here.                                 *)
ParseInetHeader(b) ==
  LET id == ParseSocketId(Slice(b, 4, SocketIdLen), b[1])
  IN  IF Len(b) < InetResponseHeaderLen \/ ~id.ok
      THEN Err
      ELSE Ok([family    |-> b[1],
               state     |-> b[2],
               timer     |-> ParseTimer(b[3], Slice(b, 52, 4), b[4]),
               socket_id |-> id.val,
               words     |-> Slice(b, 56, 16)])

EmitInetHeader(h) ==
  << h.family, h.state, TimerCode[h.timer.kind], h.timer.retransmits >>
    \o EmitSocketId(h.socket_id) \o h.timer.duration.expires \o h.words
=============================================================================
