------------------------------ MODULE DumpClient ------------------------------
(***************************************************************************)
(* src/examples/dump_ipv4.rs: a program asks for the IPv4 TCP sockets and  *)
(* reads the multipart answer out of one receive buffer, which it never    *)
(* clears.  The kernel and the netlink socket, external, fill datagrams    *)
(* with messages and queue them.                                           *)
(*                                                                         *)
(* A byte range is counted in words of four bytes, the alignment of        *)
(* netlink messages, and a buffer maps each word to the number of the      *)
(* message that begins there, or to 0: the contents of a message are in    *)
(* "stream", under its number.                                             *)
(***************************************************************************)
EXTENDS Integers, Sequences

CONSTANTS
  BufLen,      \* words of receive_buffer
  DgramMax,    \* the most words the kernel puts in one datagram
  Msgs,        \* messages of the dump: [kind, len]
  DoneMsg,     \* NLMSG_DONE
  ErrorMsg,    \* NLMSG_ERROR, the answer to a request that is not accepted
  MaxMsgs,     \* bound of the model on the messages of one dump
  QueueMax     \* datagrams the socket may hold

(* What deserialize makes of a message: a response to print, NLMSG_NOOP,   *)
(* the end of the dump, anything else, or an error.                        *)
Kinds == {"response", "noop", "done", "other", "undecodable"}

Message == [kind : Kinds, len : 1 .. DgramMax]

ASSUME ClientAssumption ==
  /\ BufLen \in Nat \ {0} /\ DgramMax \in Nat \ {0}
  /\ MaxMsgs \in Nat /\ QueueMax \in Nat \ {0}
  /\ Msgs \subseteq Message
  /\ \A m \in Msgs : m.kind # "done"
  /\ DoneMsg \in Message /\ DoneMsg.kind = "done"
  /\ ErrorMsg \in Message /\ ErrorMsg.kind = "other"

VARIABLES
  kernel,    \* "idle", "dumping" or "finished"
  stream,    \* every message of the answer, in order (history)
  skb,       \* the datagram being filled
  queue,     \* datagrams not received yet
  pc,        \* where the client is
  rbuf,      \* receive_buffer
  size,      \* what recv() has returned
  offset,
  handled    \* numbers of the messages that went through the match (history)

kvars == << kernel, stream, skb >>
cvars == << pc, rbuf, size, offset, handled >>
vars  == << kvars, queue, cvars >>

Number   == 0 .. MaxMsgs + 1
Datagram == [at : [0 .. DgramMax - 1 -> Number], size : 0 .. DgramMax]
NoData   == [at |-> [o \in 0 .. DgramMax - 1 |-> 0], size |-> 0]

Stopped == {"done", "aborted", "closed", "panicked", "unopened"}

-----------------------------------------------------------------------------
(***************************************************************************)
(* The kernel.                                                             *)
(***************************************************************************)
Put(d, m) ==
  [at   |-> [d.at EXCEPT ![d.size] = Len(stream) + 1],
   size |-> d.size + m.len]

(* The dump appends whole messages, in order.                              *)
KPut ==
  /\ kernel = "dumping"
  /\ Len(stream) < MaxMsgs
  /\ \E m \in Msgs : /\ skb.size + m.len <= DgramMax
                     /\ skb' = Put(skb, m)
                     /\ stream' = Append(stream, m)
  /\ UNCHANGED << kernel, queue, cvars >>

(* NLMSG_DONE goes behind the last message when there is room.             *)
KDone ==
  /\ kernel = "dumping"
  /\ skb.size + DoneMsg.len <= DgramMax
  /\ skb' = Put(skb, DoneMsg)
  /\ stream' = Append(stream, DoneMsg)
  /\ kernel' = "finished"
  /\ UNCHANGED << queue, cvars >>

(* A request the kernel does not accept is answered by one error message.  *)
KRefuse ==
  /\ kernel = "dumping"
  /\ stream = << >>
  /\ skb' = Put(skb, ErrorMsg)
  /\ stream' = << ErrorMsg >>
  /\ kernel' = "finished"
  /\ UNCHANGED << queue, cvars >>

(* A datagram is queued when it is full, or earlier.                       *)
KFlush ==
  /\ skb.size > 0
  /\ Len(queue) < QueueMax
  /\ queue' = Append(queue, skb)
  /\ skb' = NoData
  /\ UNCHANGED << kernel, stream, cvars >>

-----------------------------------------------------------------------------
(***************************************************************************)
(* The client.                                                             *)
(***************************************************************************)
(* Lines 14-16: a socket that cannot be opened, bound or connected makes   *)
(* an unwrap() panic before there is a request.                            *)
Unopened ==
  /\ pc = "request"
  /\ pc' = "unopened"
  /\ UNCHANGED << kvars, queue, rbuf, size, offset, handled >>

(* Lines 18-50: the request is built, sized, serialized and sent.  The     *)
(* assert of line 39 compares the length that finalize() has just taken    *)
(* from buffer_len() with buffer_len(), of a message built from constants. *)
Request ==
  /\ pc = "request"
  /\ pc' = "recv"
  /\ kernel' = "dumping"
  /\ UNCHANGED << stream, skb, queue, rbuf, size, offset, handled >>

(* SEND ERROR, or a recv() that returns Err: main returns, without a word  *)
(* in the second case.                                                     *)
SocketError ==
  /\ pc \in {"request", "recv"}
  /\ pc' = "closed"
  /\ UNCHANGED << kvars, queue, rbuf, size, offset, handled >>

(* recv() overwrites the front of the buffer; the rest of it keeps what    *)
(* earlier datagrams left, and a datagram that does not fit is cut.        *)
ReceivedAll(d) == d.size            \* the length MSG_TRUNC would report

Received(d) == IF d.size <= BufLen THEN d.size ELSE BufLen

Overlay(d) ==
  [o \in 0 .. BufLen - 1 |-> IF o < Received(d) THEN d.at[o] ELSE rbuf[o]]

Recv ==
  /\ pc = "recv"
  /\ queue # << >>
  /\ rbuf' = Overlay(Head(queue))
  /\ size' = Received(Head(queue))
  /\ queue' = Tail(queue)
  /\ pc' = "decode"
  /\ UNCHANGED << kvars, offset, handled >>

(* deserialize(&receive_buffer[offset..]) sees the whole rest of the       *)
(* buffer, not of the datagram: it needs the header of a message there and *)
(* a length that stays inside the buffer.                                  *)
Current == IF offset < BufLen THEN rbuf[offset] ELSE 0

Framed == Current # 0 /\ offset + stream[Current].len <= BufLen

(* The arms that return; a loop that only a failing recv() ends.           *)
EndingNotOnDone(kind) ==
  CASE kind = "other"       -> "aborted"
    [] kind = "undecodable" -> "panicked"
    [] OTHER                -> "running"

Ending(kind) ==
  CASE kind = "done"        -> "done"
    [] kind = "other"       -> "aborted"
    [] kind = "undecodable" -> "panicked"
    [] OTHER                -> "running"

(* Lines 72-76; tests that look at the end of the buffer, or read but the  *)
(* first message of a datagram; an offset that is never reset, or never    *)
(* moved.                                                                  *)
LastOfBuffer(len) == offset + len = BufLen \/ len = 0
FirstOnly(len)    == TRUE
LastOne(len)      == offset + len = size \/ len = 0

OffsetKept(len) == offset + len
OffsetStays(len) == IF LastOne(len) THEN 0 ELSE offset

NextOffset(len) == IF LastOne(len) THEN 0 ELSE offset + len

Handle ==
  /\ pc = "decode"
  /\ Framed
  /\ LET m == stream[Current]
     IN  /\ Ending(m.kind) = "running"
         /\ offset' = NextOffset(m.len)
         /\ pc' = IF LastOne(m.len) THEN "recv" ELSE "decode"
  /\ handled' = Append(handled, Current)
  /\ UNCHANGED << kvars, queue, rbuf, size >>

Return ==
  /\ pc = "decode"
  /\ Framed
  /\ Ending(stream[Current].kind) # "running"
  /\ pc' = Ending(stream[Current].kind)
  /\ handled' = Append(handled, Current)
  /\ UNCHANGED << kvars, queue, rbuf, size, offset >>

(* The unwrap() of a deserialize that found no message.                    *)
Panic ==
  /\ pc = "decode"
  /\ ~Framed
  /\ pc' = "panicked"
  /\ UNCHANGED << kvars, queue, rbuf, size, offset, handled >>

-----------------------------------------------------------------------------
Init ==
  /\ kernel = "idle" /\ stream = << >> /\ skb = NoData /\ queue = << >>
  /\ pc = "request" /\ size = 0 /\ offset = 0 /\ handled = << >>
  /\ rbuf = [o \in 0 .. BufLen - 1 |-> 0]

Kernel == KPut \/ KDone \/ KRefuse \/ KFlush
Client == Request \/ Recv \/ Handle \/ Return \/ Panic

Next == Kernel \/ Client \/ SocketError \/ Unopened

Spec == Init /\ [][Next]_vars

(* A client that is not blocked runs on; a dump in progress makes headway  *)
(* as long as the socket takes datagrams.                                  *)
FairSpec == Spec /\ WF_vars(Client) /\ WF_vars(Kernel)

-----------------------------------------------------------------------------
(* The types of the variables.                                             *)
TypeOK ==
  /\ kernel \in {"idle", "dumping", "finished"}
  /\ stream \in Seq(Message) /\ Len(stream) <= MaxMsgs + 1
  /\ skb \in Datagram
  /\ queue \in Seq(Datagram) /\ Len(queue) <= QueueMax
  /\ pc \in {"request", "recv", "decode"} \cup Stopped
  /\ rbuf \in [0 .. BufLen - 1 -> Number]
  /\ size \in 0 .. BufLen
  /\ offset \in 0 .. BufLen
  /\ handled \in Seq(1 .. MaxMsgs + 1)

(* The bytes behind offset belong to the datagram just received: what an   *)
(* earlier one left in receive_buffer is never looked at, although neither *)
(* the slice nor the parser is bounded by size.  Holds whether or not      *)
(* datagrams are cut.                                                      *)
NothingStale ==
  pc = "decode" /\ Framed =>
    /\ offset < size
    /\ \A i \in DOMAIN handled : handled[i] < Current

(* No message is handled twice or out of order, cut datagrams or not.      *)
InOrder ==
  \A i, j \in DOMAIN handled : i < j => handled[i] < handled[j]

(* With datagrams that fit the buffer, the message to be decoded is the    *)
(* next one the kernel sent: none is lost either.                          *)
NextInLine ==
  pc = "decode" => Framed /\ Current = Len(handled) + 1

(* "Done!" is printed only after everything the kernel sent was handled.   *)
DoneMeansAll ==
  pc = "done" => /\ kernel = "finished"
                 /\ handled = [i \in 1 .. Len(stream) |-> i]

(* The unwrap() fails on a message that cannot be decoded, and on nothing  *)
(* else.                                                                   *)
PanicOnlyOnUndecodable ==
  pc = "panicked" =>
    handled # << >> /\ stream[handled[Len(handled)]].kind = "undecodable"

-----------------------------------------------------------------------------
(***************************************************************************)
(* Why it holds.  What is in flight, from the receive buffer through the   *)
(* queue to the datagram being filled, is one chain: where a message ends  *)
(* the next one begins, in the same datagram or at the head of the one     *)
(* behind it.                                                              *)
(***************************************************************************)
(* Buffers only hold numbers of messages that were sent.                   *)
Known ==
  /\ \A o \in 0 .. DgramMax - 1 : skb.at[o] <= Len(stream)
  /\ \A i \in 1 .. Len(queue) : \A o \in 0 .. DgramMax - 1 : queue[i].at[o] <= Len(stream)
  /\ \A o \in 0 .. BufLen - 1 : rbuf[o] <= Len(stream)

KernelOrder ==
  /\ pc = "request" => kernel = "idle"
  /\ kernel # "finished" => Len(stream) <= MaxMsgs
  /\ stream = << >> => skb.size = 0

TypeInv == TypeOK /\ Known /\ KernelOrder

(* The number of the message the i-th queued datagram begins with, or what *)
(* comes behind the queue.                                                 *)
Ahead(i) ==
  IF i <= Len(queue) THEN queue[i].at[0]
  ELSE IF skb.size > 0 THEN skb.at[0]
  ELSE Len(stream) + 1

(* The n words at "at" hold messages of s one behind the other, followed   *)
(* by message number "next" in what comes behind.                          *)
End(s, at, o) == o + s[at[o]].len

Chained(s, at, n, next) ==
  \A o \in 0 .. n - 1 : at[o] # 0 =>
    /\ End(s, at, o) <= n
    /\ End(s, at, o) < n => at[End(s, at, o)] = at[o] + 1
    /\ End(s, at, o) = n => next = at[o] + 1

QueueChained ==
  \A i \in 1 .. Len(queue) :
    /\ queue[i].size > 0 /\ queue[i].at[0] # 0
    /\ Chained(stream, queue[i].at, queue[i].size, Ahead(i + 1))

SkbChained ==
  /\ \A o \in skb.size .. DgramMax - 1 : skb.at[o] = 0
  /\ skb.size > 0 => /\ skb.at[0] # 0
                     /\ Chained(stream, skb.at, skb.size, Len(stream) + 1)

ClientChained ==
  /\ pc \in {"request", "recv"} => offset = 0 /\ Ahead(1) = Len(handled) + 1
  /\ pc = "decode" => /\ offset < size
                      /\ rbuf[offset] = Len(handled) + 1
                      /\ Chained(stream, rbuf, size, Ahead(1))
  /\ \A i \in 1 .. Len(handled) : handled[i] = i

DoneIsLast ==
  /\ \A i \in 1 .. Len(stream) :
       stream[i].kind = "done" => i = Len(stream) /\ kernel = "finished"
  /\ pc = "done" => /\ handled # << >>
                    /\ Len(handled) <= Len(stream)
                    /\ stream[Len(handled)].kind = "done"
  /\ pc = "panicked" => /\ handled # << >>
                        /\ Len(handled) <= Len(stream)
                        /\ stream[Len(handled)].kind = "undecodable"

(* What is in flight is one chain that begins with the next message to     *)
(* handle: no message of the answer is missing anywhere on the way.        *)
KernelChained == QueueChained /\ SkbChained

InFlightChained == KernelChained /\ ClientChained

ChainInv == TypeInv /\ InFlightChained /\ DoneIsLast

(* When datagrams are cut only an order is left: what is behind has larger *)
(* numbers, and a message that is whole in the buffer is whole in what was *)
(* received.                                                               *)
Below(at, n, next) == \A o \in 0 .. n - 1 : at[o] < next

QueueOrdered ==
  \A i \in 1 .. Len(queue) : Below(queue[i].at, queue[i].size, Ahead(i + 1))

WholeInside ==
  \A o \in 0 .. size - 1 : rbuf[o] # 0 =>
    /\ End(stream, rbuf, o) <= BufLen => End(stream, rbuf, o) <= size
    /\ End(stream, rbuf, o) < size    => rbuf[End(stream, rbuf, o)] = rbuf[o] + 1

ClientOrdered ==
  /\ pc \in {"request", "recv"} =>
       offset = 0 /\ \A i \in 1 .. Len(handled) : handled[i] < Ahead(1)
  /\ pc = "decode" =>
       /\ offset < size /\ rbuf[offset] # 0
       /\ \A i \in 1 .. Len(handled) : handled[i] < rbuf[offset]
       /\ Below(rbuf, size, Ahead(1))
       /\ WholeInside

OrderInv == TypeInv /\ KernelChained /\ QueueOrdered /\ ClientOrdered /\ InOrder

(* How the answer comes to its end: only the last message can be one that  *)
(* makes the client return, and a client that runs has not met it.         *)
Answered ==
  /\ pc = "request" => handled = << >>
  /\ pc \in {"recv", "decode"} => kernel # "idle"
  /\ kernel = "finished" => /\ stream # << >>
                            /\ Ending(stream[Len(stream)].kind) # "running"
  /\ pc \in {"recv", "decode"} =>
       \A i \in 1 .. Len(handled) : /\ handled[i] <= Len(stream)
                                    /\ Ending(stream[handled[i]].kind) = "running"

(* The client is never blocked in recv() when nothing can come any more:   *)
(* there is a datagram to receive, one to queue, or the kernel is still    *)
(* dumping, and ends that with a message that has room.                    *)
NeverWaitsInVain ==
  pc = "recv" /\ queue = << >> => skb.size > 0 \/ kernel = "dumping"

(* How far everything is: the messages sent, queued, received and handled, *)
(* and the client itself.                                                  *)
Flushed == IF skb.size > 0 THEN skb.at[0] - 1 ELSE Len(stream)
Taken   == Ahead(1) - 1
Phase   == IF pc = "request" THEN 0 ELSE IF pc \in Stopped THEN 2 ELSE 1

Progress == Len(stream) + Flushed + Taken + Len(handled) + Phase

(* Every step is headway, and there is only so much of it: four steps for  *)
(* a message and two for the client.  The loop cannot go round for ever on *)
(* what it has received, cut datagrams or not.                             *)
Headway == [][Progress < Progress' /\ Progress' <= 4 * Len(stream') + 2]_vars

(* The client ends, one way or another.                                    *)
Termination == <>(pc \in Stopped)

(* The client implements the stream: with datagrams that fit.              *)
Delivered == [i \in DOMAIN handled |-> stream[handled[i]]]
Outcome   ==
  IF pc = "unopened" THEN "closed" ELSE IF pc \in Stopped THEN pc ELSE "running"

Stream == INSTANCE DumpStream
  WITH Messages  <- Msgs \cup {DoneMsg, ErrorMsg},
       EndsWith  <- LAMBDA m : Ending(m.kind),
       stream    <- stream,
       delivered <- Delivered,
       outcome   <- Outcome

StreamSpec == Stream!Spec
=============================================================================
