# netlink-packet-sock-diag in TLA+

Models, model checks and proofs for the crate `netlink-packet-sock-diag` (the sources under
`src/` of this repository, paths below relative to it) and for its example
`examples/dump_ipv4.rs`.

## The system

The crate turns the bytes of `NETLINK_SOCK_DIAG` messages into Rust structures and back. It keeps
no state between calls; everything that has state is a loop over a buffer, or a program around
the crate.

| component | source | state | operations |
|---|---|---|---|
| message dispatch | `src/message.rs` | the payload and its message type | `parse_with_param` / `deserialize` choose a parser by message type and family; `message_type`, `buffer_len`, `emit` / `serialize` |
| codec loops | `src/inet/response.rs`, `src/unix/response.rs` | the cursor of the attribute iterator, the attributes so far, the buffer being written | parse: header, then attribute by attribute, one `?` for all; `buffer_len`; `emit`: header into a prefix, attributes behind it |
| inet structures | `src/inet/{socket_id,request,response}.rs` | - | parse and emit of fixed structures: ports in network order, addresses by family, timers, flags |
| unix structures | `src/unix/{request,response}.rs` | - | the same for `AF_UNIX` |
| attributes | `src/inet/nlas.rs`, `src/unix/nlas.rs` | - | `kind`, `value_len`, `emit_value`, `parse` of each attribute |
| accessors | `src/unix/response.rs` | the attributes of a response | `peer()`, `pending_connections()`, ... `send_queue_size()` |
| dump example | `examples/dump_ipv4.rs` | `receive_buffer`, `size`, `offset` | send one request, `recv()`, decode message after message, stop at `NLMSG_DONE` |
| external | `netlink_packet_core`, `netlink_sys`, the kernel | datagrams, the socket queue | framing of attributes and messages; dumps, acknowledgements; sockets |

How they interact: a program builds a `NetlinkMessage<SockDiagMessage>`, `finalize()` asks
`buffer_len()` of every layer for the length, `serialize` hands each layer its slice of one
buffer. In the other direction `deserialize` gives the payload to `SockDiagMessage`, which gives
it to a response parser, which gives each attribute's value to `Nla::parse`. The example calls
this in a loop on one buffer that is never cleared.

What is hard: the layers agree on lengths only by convention, and disagreement is a panic or a
byte of somebody else's; a payload may be cut anywhere; one bad attribute decides about a whole
response; requests and responses share a message type; the receive loop packs several messages
into a datagram and several datagrams into a dump, over bytes an earlier datagram left; the end
of the dump may never come. There is no concurrency inside the crate. The example and the kernel
run concurrently.

What makes each component correct:

- codec: what a program builds comes back as it went out, and where it does not, the reason is
  known; what was decoded can be relayed; nothing is half decoded; `emit` panics only where it
  must and leaves no byte unwritten; every loop ends;
- codec, next to a peer: whatever a longer buffer holds, what was sent is read first and unchanged,
  and no payload is refused that need not be;
- accessors: each tells the quantity of the socket it is named for;
- example: the messages of the answer are handled once each, in order, completely, and nothing else is.

## Modules

| module | models |
|---|---|
| `Constants` | the numbers of `constants.rs` the code decides on |
| `NetlinkCore` | what `src/` uses of `netlink_packet_core`, of `zerocopy` and of the standard library (external): attribute header checks, the flag bits of a type, padding, `parse_u8/u32/string` with UTF-8 |
| `InetNla`, `UnixNla` | the two `nlas.rs`: an attribute is `[tag, val]` with the bytes that matter; structures of counters are kept as bytes in the order of their fields. `InetNla` and `UnixNla` are also the sets of all values of the two `Nla` types |
| `InetPacket`, `UnixPacket` | the fixed structures, with the set of all values of each. A response header, a request, a `SocketId` are records; port order, flag truncation and the 32 bits of a timer are modelled by what they do to the bytes. Flags may have bits without a name: `bitflags` lets a program build them (`from_bits_retain`), `emit` writes them, and the parser drops them |
| `SockDiagMessage` | `message.rs`: the reader type (`SockDiagMessage`, `SockDiagDestroy`, or a request parser used directly), the message type and the family decide the variant |
| `SockDiagCodec` | the state machine of one message: decode, relay, size, allocate, emit, decode again. One action per loop iteration |
| `DumpClient` | the example and the kernel it talks to |
| `DumpStream` | the abstract specification of a dump: messages are sent, and delivered one at a time in order until one ends the dump |
| `UnixReport` | a unix socket, the response the kernel makes about it, and the accessors of `UnixResponse` |
| `MCSockDiagCodec`, `MCDumpClient`, `MCUnixReport` | the finite sets for TLC |
| `WireProofs`, `NlaProofs`, `HeaderProofs` | lemmas about buffers and framing, about attributes, about the fixed structures |
| `SockDiagCodecProofs`, `PayloadProofs` | theorems about `SockDiagCodec`: about messages, and about payloads that are cut |
| `DumpClientProofs`, `DumpFitsProofs` | theorems about `DumpClient`, for all datagrams and for those that fit |
| `UnixReportProofs` | the theorem about `UnixReport` |

### SockDiagCodec

A behaviour begins with a payload that arrives (`Arrive`) or with a message a program built
(`Build`). `AcceptHead`/`RefuseHead` are the dispatch and the parse of the fixed part;
`ParseNla`, `RefuseNla`, `ParseEnd` are the iterations of the loop in
`inet/response.rs:196-204` and `unix/response.rs:219-224`: a refused attribute drops the response.
`SizeNla`/`SizeEnd` are `buffer_len()`, `Allocate` the slice handed to `serialize` (exact,
shorter or longer, by `Slacks`), `EmitHead`, `EmitNla`, `EmitEnd` the emitters, `Panic` their
slice assertions. A byte of the buffer that nothing has written is `Stale`, and goes out as what the
caller's slice held there before: `Fills` are sequences of bytes, any there are in the theorems.
The value of an attribute is written to a slice of `value_len()` bytes (`ValueSlice`). Emitters
that copy to the whole of it panic when they write less (`FillsSlice`); those that write a byte or
a word to its front leave the rest as it is, which `FullyWritten` would show.

`Message` is the set of all values of the Rust type: what a program may build is any member, what
is decoded is shown to be one (`TypeOK`). It is infinite (names, unknown attributes and lists have
any length), so TLC only tests membership and takes its messages from `MCSockDiagCodec`.

Kept as bytes: everything whose layout decides about something (kinds, lengths, families, ports,
flags, names). Not interpreted: the counters in `TcpInfo`, `MemInfo` and the like, of which the
length and the order are kept.

### DumpClient

Buffers are counted in words of four bytes, the alignment of netlink messages, and a word holds
the number of the message that begins there, or 0. `stream` holds the messages under their
numbers. This keeps exactly what the loop depends on: where messages begin, how long they are,
and which bytes are older than others. A netlink length that is no multiple of four does not
occur in a dump (the kernel pads each attribute and each message), and neither does an empty
datagram (`KFlush` needs `skb.size > 0`), after which the loop would decode what the buffer held
before.

`Unopened` is an `unwrap()` of lines 14-16 that panics, `Request` lines 18-50 (the `assert` of line
39 compares `buffer_len()` with the length `finalize()` took from it, for a message of constants);
`Recv` line 51: the front of the buffer is overwritten, the rest stays;
`Handle` an iteration of the inner loop that goes on, `Return` one whose arm returns (`Done`, an
unexpected message, or a panic inside the crate for a message that cannot be decoded: `deserialize(..).unwrap()`),
`Panic` the `unwrap()` on bytes that hold no message. `SocketError` is a failing `send` or
`recv`. The kernel's `KPut`, `KDone`, `KRefuse`, `KFlush` fill datagrams with whole messages and
queue them, early or when they are full.

### UnixReport

The socket changes by `Bind`, `Listen`, `Connect`, `PeerConnects`, `Accept`, `Traffic`, `Shutdown`;
`Dump` makes the response for some set of `ShowFlags`. The accessors are operators on the
response. What an attribute reports is taken from `unix/nlas.rs:70-117` and `constants.rs:180-206`,
the words of `UNIX_DIAG_MEMINFO` (`SkMemInfo`) from `unix/nlas.rs:211-241` and `inet/nlas.rs:101-111`;
`MemInfoOf` picks the three words that `MemInfo::parse` keeps. The byte for the directions that are
shut down is a parameter, `ShutdownByte`: the repository only shows that it is 0 for a socket that
was not shut down (`unix/tests.rs:44,104,176`).

## Runs

| run | instance | shows |
|---|---|---|
| `codec_rich` | every attribute with lengths at, below and above what it needs; headers of every family and timer; payloads with up to three attributes cut at every byte; length fields 0, 3, 5, 8, 9, 200; strings that are and are not UTF-8; attribute types with flag bits; every variant as a program can build it, requests with flags that have no name among them; buffers too short, exact and too long by 3, 8 and 257 bytes, that held 0, 1, 255, or one attribute of type 99 after the other | `WholeAttributes`, `RefusedForCause`, `PanicExactly`, `FullyWritten`, `RoundTrip`, `DecodedSurvives`, `SentComesFirst`, `Budget`, `TypeOK`, `GetsOn`, `Termination` |
| `codec_plain` | the same without `rich_nlas` | `RoundTrip`, where `TcpInfo` is bytes of any length |
| `codec_long` | attributes of 65530 and 65531 bytes: congestion names with and without a NUL, paths and abstract names, pending connections, unknown ones | `DecodedSurvives` |
| `dump_fits` | datagrams and buffer of 4 words, messages of 1 to 3, up to 5 messages, a queue of 2 | the example implements `DumpStream` (`StreamSpec`); `NextInLine`, `InFlightChained`, `DoneMeansAll`, `PanicOnlyOnUndecodable`, `NeverWaitsInVain`, `Termination` |
| `dump_cut` | datagrams of 6 words, a buffer of 4, a queue of 2 | `NothingStale`, `InOrder`, `Headway`, `TypeOK` even though datagrams are cut |
| `unix_accessors` | 2 names, 3 peers, a backlog of 2, 0 to 2 bytes each way | `AccessorsTell` |
| `unix_send_queue`, `unix_outgoing`, `unix_shutdown` | 1 name, 1 peer, a backlog of 1, up to 2 bytes | the three findings: `SendQueueTold`, `OutgoingTold`, `ShutdownNamed` are violated, see below |

Why the bounds are enough. The codec treats each attribute alone and carries from one to the
next only the cursor and the running sums; three attributes give every order of padded and
unpadded, cut and whole, and the cuts are taken at every byte. In the dump, what can go wrong
depends on where a message begins and ends relative to the datagram, the buffer, and the
datagrams before: with 4 words and messages of 1 to 3 all packings into full, partly filled and
overwritten buffers occur, and five messages span up to five datagrams. `MaxMsgs` is a guard of
`KPut`: it makes a dump finite, as the kernel's list of sockets is. The theorems below drop the bounds.

Fairness. `SockDiagCodec` is one synchronous call after another: weak fairness of its next step.
`DumpClient`: the client's process runs when it can (`WF(Client)`: a `recv()` with a datagram in
the queue returns), and a dump in progress makes headway (`WF(Kernel)`: the kernel continues a
dump when the socket is read, and always ends it by `NLMSG_DONE`). Nothing is assumed of
`SocketError`. Deadlock checking is off where the system stops: a finished codec call, a finished
client. With cut datagrams the client may wait for ever for a `NLMSG_DONE` that was cut off, so
`Termination` is claimed, and true, only for datagrams that fit.

## What the checks say about the code

- `RoundTrip` and `Survives` list exactly the messages that do not come back as they went out: a
  request read by `SockDiagMessage` (it is taken for a response); anything read by
  `SockDiagDestroy`; a request with a flag that has no name; a socket id whose addresses are not of
  the header's family; a timer beyond 2^32 - 1 milliseconds or with a fraction of a millisecond; a
  path that is empty or holds a NUL; an unknown attribute with a known kind. Everything the crate
  decodes itself is outside this list (`DecodedSurvives`).
- `DecodedSurvives` also says that what was decoded can be emitted, with one exception, `FullName`: a
  congestion name of 65531 bytes without a NUL. `emit_value` adds the NUL (`inet/nlas.rs:348-351`), the
  attribute outgrows its 16-bit length, and `emit` panics. No kernel sends such a name.
- `PanicExactly`: with the buffer `buffer_len()` asked for, `emit` panics only when an attribute
  outgrows its 16 bits, e.g. 16383 pending connections.
- `SentComesFirst`: a longer buffer does not panic for a response. What is left over in it goes out
  behind the message, and the peer may well read attributes there: 4, 0, 99, 0 is an empty
  one of type 99. But what was sent is read before them and is not changed.
- `WholeAttributes` and `RefusedForCause`: of a payload that was cut, the crate decodes nothing but
  whole attributes, each with the type and value its sender gave it, and it refuses one only for a
  header or an attribute that is cut, or a value that is wrong for its kind (`Acceptable`): a
  structure from a newer kernel, longer than the crate knows it, is accepted, a shorter one and a
  congestion name that is not UTF-8 refuse the whole response.
- The flag bits of a known attribute type are dropped on the way through (`buf.kind()`,
  `inet/nlas.rs:364`), those of an unknown one are kept.
- Finding `unix_send_queue`: `UnixResponse::send_queue_size()` (`unix/response.rs:189`) answers
  only for listening sockets, which have no send queue, and then with the number of pending
  connections. For "other sockets" `unix/nlas.rs:101,108` documents the second number of the
  attribute as the memory used by outgoing data. In the run a connected socket with data on its
  way gets `None`.
- Finding `unix_outgoing`: `memory_used_for_outgoing_data()` is the sixth word of
  `UNIX_DIAG_MEMINFO` (`unix/nlas.rs:197,313`). In the layout of `INET_DIAG_SKMEMINFO`, which the attribute shares
  (`unix/nlas.rs:212-213`), the sixth word is `sk_wmem_queued` and the third `sk_wmem_alloc`
  (`inet/nlas.rs:104,107,189`), and it is the latter that `unix/nlas.rs:233-234` says data is charged to. The
  documentation contradicts itself in `unix/nlas.rs:278`.
- Finding `unix_shutdown`: the documentation of the attribute (`unix/nlas.rs:116`) refers to the
  constants of `constants.rs:269-277`, where 0 is `SHUT_RD`; but 0 is what sockets
  report that are not shut down at all (`unix/tests.rs:44,104,176`).

## Proofs

### DumpClient

For every value of the constants that `ClientAssumption` allows: any buffer length, any limit on datagrams, any set of messages, any bound on the messages
of a dump and on the queue. The assumption only says that the two lengths and the queue are not
empty and that `DoneMsg` and `ErrorMsg` are messages of their kinds.

| theorem | module | needs | says |
|---|---|---|---|
| `TypeCorrect` | `DumpClientProofs` | - | `TypeOK`: `offset` never leaves `receive_buffer`, so the slice at line 53 cannot panic |
| `NeverStale` | `DumpClientProofs` | - | `NothingStale` |
| `AlwaysInOrder` | `DumpClientProofs` | - | `InOrder` |
| `AlwaysHeadway` | `DumpClientProofs` | - | `Headway`: every step gets further, and there is only so far to go |
| `NothingMissing` | `DumpFitsProofs` | `Fits` | `InFlightChained` |
| `InLine` | `DumpFitsProofs` | `Fits` | `NextInLine` |
| `DoneComplete` | `DumpFitsProofs` | `Fits` | `DoneMeansAll` |
| `PanicReason` | `DumpFitsProofs` | `Fits` | `PanicOnlyOnUndecodable` |
| `NotInVain` | `DumpFitsProofs` | `Fits` | `NeverWaitsInVain`: no `recv()` when the kernel has nothing more to send |
| `Implements` | `DumpFitsProofs` | `Fits` | `Spec => StreamSpec` |

`Fits` is `DgramMax <= BufLen`, the case of run `dump_fits`. Without it the properties that need
it are false: a cut datagram loses messages.

The argument. `TypeOK` is not inductive: the loop looks a message up under the number it finds in
the buffer, so buffers must only hold numbers of messages that were sent (`Known`), and the first
datagram must be empty while nothing was sent (`KernelOrder`); together, `TypeInv`.

The other properties are about one message and the one before it, while a step may depend on
what was put in a datagram long before. What carries from one to the other is `KernelChained`: in
each queued datagram, and in the one being filled, a message begins where the one before it ends
with the next number, and the one that ends with the datagram is followed by the first of the
datagram behind (`Ahead`). It does not depend on the client; `PutKeepsKernel` and
`FlushKeepsKernel` show that the kernel's steps keep it and do not change what lies ahead of what
is queued.

- With `Fits`, `ClientChained` continues the chain into the receive buffer: what is at `offset`
  is the next message to be handled, and behind the last message of the buffer comes the first of
  the queue. `ChainInv` adds that `NLMSG_DONE` is the last message. It is inductive
  (`ChainInductive`), and the four properties follow from it.
- Without `Fits`, numbers only grow: `QueueOrdered` and `ClientOrdered` say that what is behind
  has larger numbers, and `WholeInside` that a message that is whole in the buffer is whole in
  what was received - because a datagram is cut only at the end of the buffer. That is why
  `deserialize`, which is not bounded by `size`, cannot be led into stale bytes. `OrderInv` is
  inductive (`OrderInductive`).
- The refinement maps `handled` to the messages it numbers and `pc` to the outcome. A put is
  `Send`, an iteration of the loop is `Deliver`, a socket error is `Fail`, everything else
  stutters, and the panic on bytes that are no message cannot happen. It needs `HandledSent`
  besides `ChainInv`, so that a later `Send` does not change what was delivered.

- `Headway` counts: messages sent, queued, received and handled, and the state of the client.
  `Ahead` tells where the kernel's datagrams and the receive buffer begin, and grows by
  `KernelChained`; what was handled is counted, and bounded by what was sent, because numbers
  that grow from 1 on are at least as many as their places (`NoMoreThanSent`, by the first place
  that were an exception). None of it needs `Fits`: a client that lost messages may wait for ever,
  but it does not go round for ever.
- `NeverWaitsInVain` follows from `ChainInv` and `Answered`: once the kernel is finished the last
  message is one that makes the client return, and a client that runs has not met one like
  it; but with nothing in flight it has handled all of them.

`ChainInv` and `OrderInv` were found with TLC on the instances of `dump_fits` and `dump_cut`.

### SockDiagCodec

For every value of the constants that the assumptions of the module allow: any bytes
may arrive, under any message type and at any reader; a program may build any `Message`, with all
its attributes, strings, addresses and flags, those without a name included; the buffer may be of any
length and hold any bytes. Messages are written by one of the two message types, or a request by its
own. Both builds of `rich_nlas` are covered.

| theorem | says |
|---|---|
| `TypesHold` | `TypeOK`: decoding makes values of the Rust types, emitting makes bytes |
| `BudgetHolds` | `Budget`: an attribute costs four bytes and the cursor stays within the payload, which is why the loop ends |
| `DecodedSurvivesHolds` | `DecodedSurvives`: what was decoded comes back, and fits, but for the congestion name above |
| `PanicExactlyHolds` | `PanicExactly` |
| `FullyWrittenHolds` | `FullyWritten` |
| `RoundTripHolds` | `RoundTrip`: in a buffer of `buffer_len()` bytes, a message comes back exactly if it `Survives` |
| `SentComesFirstHolds` | `SentComesFirst`: in a longer buffer, it comes back in front of whatever is read behind it |
| `AlwaysGetsOn` | `GetsOn`: each turn of a loop leaves less to do, and no loop is entered twice |
| `WholeAttributesHold` (`PayloadProofs`) | `WholeAttributes`: what is decoded of a payload cut anywhere are its whole attributes, by type and value |
| `RefusedForCauseHolds` (`PayloadProofs`) | `RefusedForCause`: what is refused had to be |

The argument has three layers.

- `WireProofs`: `Holds(b, off, t)` says that buffer `b` has the bytes `t` at `off`. Its lemmas say
  what a slice and a concatenation hold, that 16-bit numbers are read as they were written, that
  padding adds up, and (`NlaReadBack`) that an attribute held by a buffer is accepted there with
  its length, type and value.
- `NlaProofs` and `HeaderProofs`, one pair of facts for each attribute and each structure: the
  emitter writes exactly as many bytes as were asked for (`NlaFacts`, `HeaderBytes`); what the
  parser accepts is a value of the type that `Survives` (`NlaTyped`, `HeaderTyped`); a value that
  `Survives` is parsed back from what it emits (`NlaBack`, `HeaderBack`), and the first byte of a
  response header leads the dispatch to its own variant.
- `SockDiagCodecProofs`: the machine. `TypeOK` is not inductive alone: `Phases` says when a
  message is at hand, `Sizing` that `ends` are the running sums of its `buffer_len()`; together,
  `TypeInv`. `DecodeInv` adds that everything decoded so far `Survives`. `EmitInv` says that the
  buffer carries the header and the first `k` attributes where the sums say, without a gap
  (`Emitting`), and that the payload sent carries all of them (`Sent`). `Returning` follows
  the peer, which is always at the sum of what it has read (`ReadSoFar`), meets the attribute that
  was written there, and is at the end of the payload when it has the last one, not earlier and
  not later. `RoundTrip` follows from the four: one direction is `Returning`, the other that
  whatever was decoded, under the message type it was sent with, `Survives`. `SentComesFirst` needs
  nothing of what is left over: up to the last attribute sent the peer is where `Returning` says,
  and from there on (`SentFirst`) an attribute it may find is appended to those it has (`MoreRead`), whatever it is.
- `PayloadProofs`: `AtSpans` says that the cursor stands at the next attribute of the sender, that all
  before it were whole and acceptable and were decoded to what their type and value parse to (`Told`),
  and that a refusal had a cause. `NextOne` is its step: the attribute at the cursor is accepted
  exactly if it is whole and its value `Acceptable`. That this is so for each kind, by what each
  parser demands, is in `NlaProofs`. Which attributes a sender meant cannot be told from a payload that lacks some of its
  bytes, so `SpansAssumption` says what `spans` are: a chain behind the header, each with its length
  in front and padded, up to the end of the payload or past it. That they are in order follows
  from the chain (`SpansInOrder`: the first that were not would follow another such). TLC evaluates
  the assumption for the payloads of the runs; a payload without `spans` promises nothing.
- `GetsOn` adds up a stage and what its loop has left. Decoding is the loop that takes an argument: an
  accepted attribute moves the cursor by four bytes at least, and `Budget` keeps it in the payload.

### UnixReport

For any names, inodes, backlog and bytes, in the queues or for a shutdown: `AccessorsTellHolds`, about the eight
accessors that `AccessorsTell` names. The response at hand is the one
the kernel makes of the socket as it is (`Fresh`). Such a response is a concatenation of
attributes of different tags, each there or not, so `find_map` finds an attribute exactly if it
was put there, and with its value (`Reported`, from `FirstOfBehind` for each of them).

TLC checked each of the invariants' parts that a run lists before it was proved.

### Only model-checked

`Termination` of both machines. What can be said of it without fairness is proved: the steps
that can be taken are finitely many (`GetsOn`, `Headway`), and the client is not left in `recv()` with
nothing to come (`NeverWaitsInVain`). That a step which can be taken is taken is fairness, outside
what the prover does.

## Not modelled

- Constants no code compares (protocols, socket types, congestion states, TCP options), module
  lists, documentation, packaging, the unit tests (fixed packets; the values they use are among
  the codec's).
- Meaning of the counters in `TcpInfo`, `MemInfo`, `Vfs`: their fields are copied one by one under
  the same name, so that a structure is its bytes; what a single counter means plays no part.
- Texts of errors, `Debug` output, the `is_inet_request()` family of predicates.
- `netlink_packet_core`'s message header, except for its effect on where the example's messages
  begin and end.

## Plan

1. Done: every component with behaviour is modelled, its runs pass, and every invariant, action
   property and refinement that a passing run checks is proved.
2. Possible: a machine-level link between the two models, with byte buffers in `DumpClient`
   instead of words, which would take `RoundTrip` from the codec.
