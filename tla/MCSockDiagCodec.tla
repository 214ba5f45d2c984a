--------------------------- MODULE MCSockDiagCodec ---------------------------
(***************************************************************************)
(* The messages SockDiagCodec is checked on: payloads as the kernel sends  *)
(* them, whole or cut, with well-formed and malformed attributes, and      *)
(* messages as a program can build them, canonical or not.                 *)
(***************************************************************************)
EXTENDS SockDiagCodec, SequencesExt

Ramp(n) == [i \in 1 .. n |-> 1 + (i % 100)]
A(kind, value) == [kind |-> kind, value |-> value]

(***************************************************************************)
(* Payloads.                                                               *)
(***************************************************************************)
InetHead(family, timer) ==
  << family, 1, timer, 3 >> \o Ramp(SocketIdLen) \o << 9, 8, 7, 6 >> \o Ramp(16)

UnixHead == << AF_UNIX, 1, 10, 77 >> \o Ramp(12)

InetAttrs ==
  {A(INET_DIAG_MEMINFO, Ramp(n)) : n \in {15, 16, 20}} \cup
  {A(INET_DIAG_INFO, Ramp(n)) : n \in {0, 231, 232, 240}} \cup
  {A(INET_DIAG_CONG, v) : v \in {<< >>, << 0 >>, << 99, 117 >>, << 99, 117, 0 >>, << 99, 0, 0 >>, << 200 >>, << 195, 169, 0 >>,
                                     << 226, 130, 172 >>, << 237, 160, 128 >>, << 240, 159, 166, 128 >>,
                                     << 169 >>, << 195, 0 >>, << 195, 169, 169 >>}} \cup
  {A(kind, v) : kind \in {INET_DIAG_TOS, INET_DIAG_TCLASS, INET_DIAG_SHUTDOWN,
                          INET_DIAG_PROTOCOL, INET_DIAG_SKV6ONLY},
                v \in {<< >>, << 0 >>, << 5 >>, << 5, 6 >>}} \cup
  {A(INET_DIAG_SKMEMINFO, Ramp(n)) : n \in {28, 36, 37}} \cup
  {A(kind, Ramp(n)) : kind \in {INET_DIAG_MARK, INET_DIAG_CLASS_ID}, n \in {3, 4}} \cup
  {A(0, << >>), A(18, << 1, 2, 3 >>), A(32768 + 18, << 1 >>), A(16384 + INET_DIAG_TOS, << 5 >>)}

UnixAttrs ==
  {A(UNIX_DIAG_NAME, v) : v \in {<< >>, << 0 >>, << 0, 7 >>, << 0, 7, 0 >>, << 47, 7, 0 >>, << 47 >>, << 47, 0, 7, 0 >>}} \cup
  {A(UNIX_DIAG_VFS, Ramp(n)) : n \in {7, 8, 9}} \cup
  {A(UNIX_DIAG_PEER, Ramp(n)) : n \in {3, 4, 5}} \cup
  {A(UNIX_DIAG_ICONS, Ramp(n)) : n \in {0, 4, 6, 8}} \cup
  {A(UNIX_DIAG_RQLEN, Ramp(n)) : n \in {4, 8}} \cup
  {A(UNIX_DIAG_MEMINFO, Ramp(n)) : n \in {35, 36, 37}} \cup
  {A(UNIX_DIAG_SHUTDOWN, Ramp(n)) : n \in {0, 1, 2}} \cup
  {A(7, << >>), A(9, << 1, 2, 3 >>)}

NlaWire(a) == NlaBytes(a.kind, a.value)

(* A whole payload, where its attributes are, and what is left of a cut.   *)
Begin(head, attrs, i) ==
  Len(head) + Len(FlattenSeq([j \in 1 .. i - 1 |-> NlaWire(attrs[j])]))

Payload(as, ntype, head, attrs) ==
  [reader |-> as, type |-> ntype,
   bytes  |-> head \o FlattenSeq([i \in DOMAIN attrs |-> NlaWire(attrs[i])]),
   spans  |-> [i \in DOMAIN attrs |->
                 [from |-> Begin(head, attrs, i),
                  to   |-> Begin(head, attrs, i) + NLA_HEADER_SIZE + Len(attrs[i].value)]]]

Cuts(p) == {[p EXCEPT !.bytes = SubSeq(@, 1, n)] : n \in 0 .. Len(p.bytes)}

Received(head, attrs) == Payload("SockDiagMessage", SOCK_DIAG_BY_FAMILY, head, attrs)

InetPayloads ==
  {Received(InetHead(AF_INET, 1), << a >>) : a \in InetAttrs} \cup
  {Received(InetHead(AF_INET6, 2), << a, A(INET_DIAG_TOS, << 5 >>) >>) : a \in InetAttrs} \cup
  {Received(InetHead(f, t), << >>) : f \in {AF_INET, AF_INET6, 7}, t \in 0 .. 5} \cup
  Cuts(Received(InetHead(AF_INET, 1),
                << A(INET_DIAG_CONG, << 99, 117, 0 >>), A(18, << >>), A(INET_DIAG_TOS, << 5 >>) >>))

UnixPayloads ==
  {Received(UnixHead, << a >>) : a \in UnixAttrs} \cup
  {Received(UnixHead, << a, b >>) : a \in UnixAttrs,
                                    b \in {A(UNIX_DIAG_SHUTDOWN, << 1 >>), A(UNIX_DIAG_NAME, << 47, 0 >>)}} \cup
  Cuts(Received(UnixHead,
                << A(UNIX_DIAG_NAME, << 47, 7, 0 >>), A(7, << >>), A(UNIX_DIAG_PEER, << 1, 2, 3, 4 >>) >>))

(* Attributes whose length field is no length.                             *)
BadLengths ==
  {[Received(UnixHead, << A(7, << 1, 2 >>), A(7, << >>) >>) EXCEPT !.bytes[i] = n, !.spans = << >>] :
     i \in {UnixResponseHeaderLen + 1, UnixResponseHeaderLen + 9}, n \in {0, 3, 5, 8, 9, 200}}

(* The three other readers, and the message types nobody reads.            *)
InetRequestBytes ==
  << AF_INET, 6, 255, 9, 255, 255, 255, 255 >> \o Ramp(SocketIdLen)

UnixRequestBytes(cookie) ==
  << AF_UNIX, 5, 6, 7, 255, 255, 255, 255, 1, 2, 3, 4, 255, 255, 255, 255 >> \o cookie

OtherPayloads ==
  {Payload("SockDiagMessage", ntype, UnixHead, << >>) : ntype \in {SOCK_DESTROY, 19}} \cup
  {Payload("SockDiagDestroy", ntype, UnixHead, << >>) : ntype \in {SOCK_DIAG_BY_FAMILY, SOCK_DESTROY}} \cup
  {Received(b, << >>) : b \in {InetRequestBytes, UnixRequestBytes(Ramp(8))}} \cup
  Cuts(Payload("InetRequest", 0, InetRequestBytes, << >>)) \cup
  Cuts(Payload("UnixRequest", 0, UnixRequestBytes(Ramp(8)), << >>))

MCPayloads == InetPayloads \cup UnixPayloads \cup BadLengths \cup OtherPayloads

(***************************************************************************)
(* Messages.                                                               *)
(***************************************************************************)
Id(source, destination) ==
  [NewSocketId(4) EXCEPT !.source_port = 4660, !.destination_port = 80,
                         !.source_address = Ramp(source), !.destination_address = Ramp(destination)]

InetHeader(family, source, destination, timer) ==
  [family |-> family, state |-> 1, timer |-> timer,
   socket_id |-> Id(source, destination), words |-> Ramp(16)]

Timers ==
  {TimerOf("None", NoDuration, 0), TimerOf("TimeWait", NoDuration, 0)} \cup
  {TimerOf("Retransmit", [expires |-> Ramp(4), beyond |-> n], 3) : n \in {0, 1}} \cup
  {TimerOf(t, [expires |-> Ramp(4), beyond |-> n], 0) : t \in {"KeepAlive", "Probe"}, n \in {0, 1}}

NoTimer == TimerOf("None", NoDuration, 0)

InetResponseOf(header, nlas) == [variant |-> "InetResponse", header |-> header, nlas |-> nlas]

InetNlaValues ==
  {Attr("LegacyMemInfo", Ramp(16)), Attr("TcpInfo", Ramp(IF RichNlas THEN TcpInfoLen ELSE 5)), Attr("MemInfo", Ramp(36)),
   Attr("Mark", Ramp(4)), Attr("ClassId", Ramp(4)), Attr("SkV6Only", << 1 >>)} \cup
  {Attr("Congestion", v) : v \in {<< >>, << 99 >>, << 99, 0 >>, << 195, 169 >>}} \cup
  {Attr(tag, << 5 >>) : tag \in {"Tos", "Tc", "Shutdown", "Protocol"}} \cup
  {Other(kind, << 5 >>) : kind \in {0, 18, INET_DIAG_TOS, INET_DIAG_MARK,
                             32768 + 18, 32768 + INET_DIAG_TOS}}

InetMessages ==
  {InetResponseOf(InetHeader(AF_INET, 4, 4, t), << >>) : t \in Timers} \cup
  {InetResponseOf(InetHeader(f, s, d, NoTimer), << >>) :
     f \in {AF_INET, AF_INET6, 7}, s \in {4, 16}, d \in {4, 16}} \cup
  {InetResponseOf(InetHeader(AF_INET6, 16, 16, NoTimer), << Attr("Tos", << 5 >>), a >>) : a \in InetNlaValues}

UnixHeader == [kind |-> 1, state |-> 10, inode |-> Ramp(4), cookie |-> Ramp(8)]

UnixResponseOf(nlas) == [variant |-> "UnixResponse", header |-> UnixHeader, nlas |-> nlas]

UnixNlaValues ==
  {Attr("Abstract", v) : v \in {<< >>, << 7 >>, << 0, 7 >>}} \cup
  {Attr("Pathname", v) : v \in {<< >>, << 47 >>, << 0, 47 >>, << 47, 0, 7 >>}} \cup
  {Attr("PendingConnections", Ramp(n)) : n \in {0, 4, 8}} \cup
  {Attr("Vfs", Ramp(8)), Attr("Peer", Ramp(4)), Attr("ReceiveQueueLength", Ramp(8)),
   Attr("MemInfo", Ramp(12)), Attr("Shutdown", << 2 >>)} \cup
  {Other(kind, << 5 >>) : kind \in {7, UNIX_DIAG_SHUTDOWN, UNIX_DIAG_PEER}}

(* 16382 inodes are the most an attribute can carry.                       *)
Crowds == {Attr("PendingConnections", Ramp(4 * n)) : n \in {16382, 16383}}

UnixMessages ==
  {UnixResponseOf(<< Attr("Shutdown", << 1 >>), a >>) : a \in UnixNlaValues} \cup
  {UnixResponseOf(<< Attr("Shutdown", << 1 >>), Attr("Peer", Ramp(4)), a >>) : a \in Crowds}

InetRequestOf(family, octets) ==
  [variant |-> "InetRequest", nlas |-> << >>,
   header  |-> [family |-> family, protocol |-> 6, extensions |-> 255,
                states |-> << 254, 15, 0, 0 >>, socket_id |-> NewSocketId(octets)]]

UnixRequestOf(cookie) ==
  [variant |-> "UnixRequest", nlas |-> << >>,
   header  |-> [state_flags |-> << 2, 4, 0, 0 >>, inode |-> Ramp(4),
                show_flags |-> << 63, 0, 0, 0 >>, cookie |-> cookie]]

WithFlags(message, field, flags) == [message EXCEPT !.header = [@ EXCEPT ![field] = flags]]

(* Flags that have no name, next to those that have, in each of the bytes. *)
Unnamed == {<< 1, 0, 0, 0 >>, << 2, 20, 0, 0 >>, << 0, 0, 1, 0 >>, << 2, 4, 0, 128 >>, << 64, 0, 0, 0 >>}

FlaggedRequests ==
  {WithFlags(InetRequestOf(AF_INET, 4), "states", s) : s \in Unnamed} \cup
  {WithFlags(UnixRequestOf(Zeros(8)), field, s) : field \in {"state_flags", "show_flags"}, s \in Unnamed}

(* The cookie's first half is what SockDiagMessage takes for a length.     *)
RequestMessages ==
  FlaggedRequests \cup
  {InetRequestOf(f, n) : f \in {AF_INET, AF_INET6}, n \in {4, 16}} \cup
  {UnixRequestOf(c) : c \in {[i \in 1 .. 8 |-> 255], << 8, 0, 2, 0, 1, 2, 3, 4 >>, Zeros(8)}}

MCMessages ==
  {[reader |-> "SockDiagMessage", msg |-> m] : m \in InetMessages \cup UnixMessages \cup RequestMessages} \cup
  {[reader |-> m.variant, msg |-> m] : m \in RequestMessages} \cup
  {[reader |-> "SockDiagDestroy", msg |-> m] :
     m \in RequestMessages \cup {UnixResponseOf(<< >>)}}

(* Values as long as an attribute can be, 65531 bytes, and shorter by one. *)
Longest == U16_MAX - NLA_HEADER_SIZE

MCLongPayloads ==
  {Received(InetHead(AF_INET, 0), << A(INET_DIAG_CONG, v), A(INET_DIAG_TOS, << 5 >>) >>) :
     v \in {Ramp(Longest - 1), Ramp(Longest), Append(Ramp(Longest - 1), 0)}} \cup
  {Received(UnixHead, << A(UNIX_DIAG_SHUTDOWN, << 1 >>), a >>) :
     a \in {A(7, Ramp(Longest)), A(UNIX_DIAG_ICONS, Ramp(Longest - 3)),
            A(UNIX_DIAG_NAME, Append(Ramp(Longest - 1), 0)), A(UNIX_DIAG_NAME, << 0 >> \o Ramp(Longest - 1))}}

NoMessages == {}

MCSlacks == {-4, 0, 3, 8, 257}
MCFills  == {<< 0 >>, << 1 >>, << 255 >>, << 4, 0, 99, 0 >>}
=============================================================================
