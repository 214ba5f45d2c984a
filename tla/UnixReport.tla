------------------------------ MODULE UnixReport ------------------------------
(***************************************************************************)
(* The accessors of UnixResponse (src/unix/response.rs) against the socket *)
(* the response is about.  The socket and the kernel that describes it are *)
(* external: what each attribute reports, and when it is present, is what  *)
(* src/unix/nlas.rs, src/inet/nlas.rs and src/constants.rs document, or,   *)
(* where they do not, what src/unix/tests.rs shows.                        *)
(***************************************************************************)
EXTENDS Constants, Sequences, SequencesExt

CONSTANTS
  Names,      \* names a socket may be bound to
  Paths,      \* those of them that are paths in a file system
  Inodes,     \* inode numbers of connecting peers
  Backlog,    \* the argument of listen(2)
  RcvBuf,     \* SO_RCVBUF and SO_SNDBUF; in the model also bounds on the
  SndBuf,     \* memory counted in either direction
  ShutdownByte(_)  \* the byte that tells which directions are shut down

Directions == {"RD", "WR"}

(* The sockets of src/unix/tests.rs, one that listens and one that is      *)
(* connected, report 0; nothing in the repository shows the byte of one    *)
(* that was shut down.                                                     *)
ASSUME ReportAssumption ==
  /\ Inodes \subseteq Nat /\ Names # {} /\ Paths \subseteq Names
  /\ Backlog \in Nat \ {0} /\ RcvBuf \in Nat /\ SndBuf \in Nat
  /\ \A d \in SUBSET Directions : ShutdownByte(d) \in 0 .. 255
  /\ ShutdownByte({}) = 0

(* ShowFlags; UNIX_DIAG_SHUTDOWN is reported without being asked for.      *)
Shows == {"NAME", "VFS", "PEER", "ICONS", "RQLEN", "MEMINFO"}

None    == << >>
Some(v) == << v >>

VARIABLES
  state,      \* of the socket
  name,       \* what it is bound to, if it is
  pending,    \* inodes of the connections not accepted yet
  incoming,   \* bytes in the receive queue
  outgoing,   \* memory used by data the peer has not read
  down,       \* directions that are shut down
  peer,       \* inode of the peer, if connected
  shown,      \* the ShowFlags of the last request
  response    \* UnixResponse to it, or None

socket == << state, name, pending, incoming, outgoing, down, peer >>
vars   == << socket, shown, response >>

-----------------------------------------------------------------------------
(***************************************************************************)
(* The socket.  A response describes the socket as it was: the next change *)
(* makes it history and the model drops it.                                *)
(***************************************************************************)
Stale == response' = None /\ shown' = {}

Bind ==
  /\ name = None
  /\ \E n \in Names : name' = Some(n)
  /\ Stale /\ UNCHANGED << state, pending, incoming, outgoing, down, peer >>

Listen ==
  /\ state = TCP_CLOSE
  /\ name # None
  /\ state' = TCP_LISTEN
  /\ Stale /\ UNCHANGED << name, pending, incoming, outgoing, down, peer >>

Connect ==
  /\ state = TCP_CLOSE
  /\ state' = TCP_ESTABLISHED
  /\ \E i \in Inodes : peer' = Some(i)
  /\ Stale /\ UNCHANGED << name, pending, incoming, outgoing, down >>

PeerConnects ==
  /\ state = TCP_LISTEN
  /\ Len(pending) < Backlog
  /\ \E i \in Inodes : ~Contains(pending, i) /\ pending' = Append(pending, i)
  /\ Stale /\ UNCHANGED << state, name, incoming, outgoing, down, peer >>

Accept ==
  /\ pending # << >>
  /\ pending' = Tail(pending)
  /\ Stale /\ UNCHANGED << state, name, incoming, outgoing, down, peer >>

(* Data comes in or is read; data goes out or is read by the peer.         *)
Traffic ==
  /\ state = TCP_ESTABLISHED
  /\ \/ incoming' \in 0 .. RcvBuf /\ UNCHANGED outgoing
     \/ outgoing' \in 0 .. SndBuf /\ UNCHANGED incoming
  /\ Stale /\ UNCHANGED << state, name, pending, down, peer >>

Shutdown ==
  /\ state = TCP_ESTABLISHED
  /\ \E how \in SUBSET Directions \ {{}} : down' = down \cup how
  /\ Stale /\ UNCHANGED << state, name, pending, incoming, outgoing, peer >>

(***************************************************************************)
(* The response.                                                           *)
(***************************************************************************)
Nla(tag, val) == [tag |-> tag, val |-> val]

If(condition, nla) == IF condition THEN << nla >> ELSE << >>

(* The nine words of SKMEMINFO in the order of src/inet/nlas.rs:101-111:   *)
(* sk_rmem_alloc, always 0; sk_rcvbuf; sk_wmem_alloc, which data is        *)
(* charged to when it is sent and until the peer reads it; sk_sndbuf;      *)
(* sk_fwd_alloc, sk_wmem_queued, sk_optmem, backlog and drops, always 0.   *)
SkMemInfo == << 0, RcvBuf, outgoing, SndBuf, 0, 0, 0, 0, 0 >>

(* MemInfo::parse, which keeps three of them.                              *)
MemInfoOf(words) ==
  [so_rcvbuf |-> words[2], max_datagram_size |-> words[4], alloc |-> words[6]]

RqLen == IF state = TCP_LISTEN THEN << Len(pending), Backlog >> ELSE << incoming, outgoing >>

Report(show) ==
  [state |-> state,
   nlas  |-> If("NAME" \in show /\ name # None, Nla("Name", name))
               \o If("VFS" \in show /\ name # None /\ name[1] \in Paths, Nla("Vfs", name))
               \o If("PEER" \in show /\ peer # None, Nla("Peer", peer))
               \o If("ICONS" \in show /\ state = TCP_LISTEN, Nla("PendingConnections", pending))
               \o If("RQLEN" \in show, Nla("ReceiveQueueLength", RqLen))
               \o If("MEMINFO" \in show, Nla("MemInfo", MemInfoOf(SkMemInfo)))
               \o << Nla("Shutdown", ShutdownByte(down)) >>]

Dump ==
  /\ response = None
  /\ \E show \in SUBSET Shows :
       /\ shown' = show
       /\ response' = Some(Report(show))
  /\ UNCHANGED socket

Init ==
  /\ state = TCP_CLOSE /\ name = None /\ pending = << >> /\ incoming = 0 /\ outgoing = 0
  /\ down = {} /\ peer = None /\ shown = {} /\ response = None

Next ==
  \/ Bind \/ Listen \/ Connect \/ PeerConnects \/ Accept \/ Traffic \/ Shutdown
  \/ Dump

Spec == Init /\ [][Next]_vars

-----------------------------------------------------------------------------
(***************************************************************************)
(* The accessors, in terms of a response r.                                *)
(***************************************************************************)
(* nlas.iter().find_map(...) for one variant: the first one there is.      *)
FirstOf(nlas, tag) ==
  LET hits == {i \in DOMAIN nlas : nlas[i].tag = tag}
  IN  IF hits = {} THEN None ELSE Some(nlas[Min(hits)].val)

Find(r, tag) == FirstOf(r.nlas, tag)

Map(option, F(_)) == IF option = None THEN None ELSE Some(F(option[1]))
First(pair)  == pair[1]
Second(pair) == pair[2]

Peer(r)               == Map(Find(r, "Peer"), First)
Name(r)               == Map(Find(r, "Name"), First)
PendingConnections(r) == Find(r, "PendingConnections")
ShutdownState(r)      == Find(r, "Shutdown")
ReceiveQueueLength(r) == Find(r, "ReceiveQueueLength")

NumberOfPendingConnectionAnyState(r) == Map(ReceiveQueueLength(r), First)

NumberOfPendingConnection(r) ==
  IF r.state = TCP_LISTEN THEN Map(ReceiveQueueLength(r), First) ELSE None

MaxNumberOfPendingConnection(r) ==
  IF r.state = TCP_LISTEN THEN Map(ReceiveQueueLength(r), Second) ELSE None

ReceiveQueueSize(r) ==
  IF r.state = TCP_LISTEN THEN None ELSE Map(ReceiveQueueLength(r), First)

SendQueueSize(r) ==
  IF r.state = TCP_LISTEN THEN Map(ReceiveQueueLength(r), First) ELSE None

MaxDatagramSize(r) ==
  LET Size(info) == info.max_datagram_size IN Map(Find(r, "MemInfo"), Size)

MemoryUsedForOutgoingData(r) ==
  LET Alloc(info) == info.alloc IN Map(Find(r, "MemInfo"), Alloc)

-----------------------------------------------------------------------------
Asked(flag, value) == IF flag \in shown THEN Some(value) ELSE None

(* Each of these accessors tells its own quantity of the socket, and       *)
(* nothing when the socket has no such quantity or it was not asked for:   *)
(* the two meanings of the pair in ReceiveQueueLength are never mixed up.  *)
AccessorsTell ==
  response # None =>
    LET r == response[1]
        listening == state = TCP_LISTEN
    IN  /\ NumberOfPendingConnection(r) =
             IF listening THEN Asked("RQLEN", Len(pending)) ELSE None
        /\ MaxNumberOfPendingConnection(r) =
             IF listening THEN Asked("RQLEN", Backlog) ELSE None
        /\ ReceiveQueueSize(r) =
             IF listening THEN None ELSE Asked("RQLEN", incoming)
        /\ PendingConnections(r) =
             IF listening THEN Asked("ICONS", pending) ELSE None
        /\ Peer(r) = IF peer = None THEN None ELSE Asked("PEER", peer[1])
        /\ Name(r) = IF name = None THEN None ELSE Asked("NAME", name[1])
        /\ MaxDatagramSize(r) = Asked("MEMINFO", SndBuf)
        /\ ShutdownState(r) = Some(ShutdownByte(down))

(* "For other sockets: ... the second number is the memory used by         *)
(* outgoing data" (src/unix/nlas.rs:101,108): a connected socket with data *)
(* on its way has a send queue, and that number is its size.               *)
SendQueueTold ==
  response # None /\ state = TCP_ESTABLISHED /\ outgoing > 0 =>
    SendQueueSize(response[1]) = Asked("RQLEN", outgoing)

(* "The kernel keeps track of the memory using the sender's                *)
(* sock.sk_wmem_alloc attribute" (src/unix/nlas.rs:233-234): the memory    *)
(* used for outgoing data is that word.                                    *)
OutgoingTold ==
  response # None /\ state = TCP_ESTABLISHED /\ outgoing > 0 =>
    MemoryUsedForOutgoingData(response[1]) = Asked("MEMINFO", outgoing)

(* "Shutown state: one of SHUT_RD, SHUT_WR or SHUT_RDWR"                   *)
(* (src/unix/nlas.rs:116), and "A socket shut down with SHUT_RD can no     *)
(* longer receive data" (src/constants.rs:269-270): a state that is        *)
(* SHUT_RD is that of such a socket.                                       *)
ShutdownNamed ==
  response # None /\ state = TCP_ESTABLISHED /\ ShutdownState(response[1]) = Some(SHUT_RD) =>
    "RD" \in down
=============================================================================
