--------------------------- MODULE DumpFitsProofs ---------------------------
(***************************************************************************)
(* What the example guarantees when a datagram always fits its receive     *)
(* buffer: nothing is lost on the way, and so nothing goes wrong.          *)
(***************************************************************************)
EXTENDS DumpClientProofs

Fits == DgramMax <= BufLen

(* A copy of the words of a chain is a chain.                              *)
LEMMA ChainedCopy ==
  ASSUME NEW s \in Seq(Message), NEW at, NEW bt, NEW n \in Nat, NEW next,
         \A o \in 0 .. n - 1 : at[o] \in 0 .. Len(s) /\ bt[o] = at[o],
         Chained(s, at, n, next)
  PROVE  Chained(s, bt, n, next)
<1> SUFFICES ASSUME NEW o \in 0 .. n - 1, bt[o] # 0
             PROVE  /\ End(s, bt, o) <= n
                    /\ End(s, bt, o) < n => bt[End(s, bt, o)] = bt[o] + 1
                    /\ End(s, bt, o) = n => next = bt[o] + 1
  BY DEF Chained
<1>1. bt[o] = at[o] /\ at[o] \in 1 .. Len(s)
  OBVIOUS
<1>2. End(s, bt, o) = End(s, at, o)
  BY <1>1 DEF End
<1>3. End(s, at, o) \in Nat
  <2>1. s[at[o]] \in Message
    BY <1>1
  <2> QED
    BY <2>1, MessageFacts DEF End
<1>4. /\ End(s, at, o) <= n
      /\ End(s, at, o) < n => at[End(s, at, o)] = at[o] + 1
      /\ End(s, at, o) = n => next = at[o] + 1
  BY <1>1 DEF Chained
<1>5. End(s, at, o) < n => bt[End(s, at, o)] = at[End(s, at, o)]
  BY <1>3
<1> QED
  BY <1>1, <1>2, <1>4, <1>5

-----------------------------------------------------------------------------
(***************************************************************************)
(* The kernel's steps.                                                     *)
(***************************************************************************)
(* The kernel puts a message into the datagram being filled.               *)
LEMMA PutKeepsChain ==
  ASSUME ChainInv, TypeInv', NEW m \in Message, skb.size + m.len <= DgramMax,
         kernel = "dumping",
         skb' = Put(skb, m), stream' = Append(stream, m),
         IF m.kind = "done" THEN kernel' = "finished" ELSE TRUE,
         UNCHANGED << queue, cvars >>
  PROVE  ChainInv'
<1>1. /\ Len(stream) \in Nat /\ Len(stream) <= MaxMsgs
      /\ stream \in Seq(Message) /\ stream' \in Seq(Message)
      /\ Len(stream') = Len(stream) + 1
      /\ \A i \in 1 .. Len(stream) : stream'[i] = stream[i]
      /\ stream'[Len(stream) + 1] = m
  BY AppendFacts DEF ChainInv, TypeInv, TypeOK, KernelOrder
<1>2. KernelChained' /\ \A i \in 1 .. Len(queue) + 1 : Ahead(i)' = Ahead(i)
  BY PutKeepsKernel DEF ChainInv, InFlightChained
<1>3. ClientChained'
  <2>1. Ahead(1)' = Ahead(1)
    <3>1. 1 \in 1 .. Len(queue) + 1
      BY DEF ChainInv, TypeInv, TypeOK
    <3> QED
      BY <1>2, <3>1
  <2>2. ASSUME pc = "decode"
        PROVE  Chained(stream', rbuf, size, Ahead(1))
    <3>1. size \in Nat /\ \A o \in 0 .. size - 1 : o \in 0 .. BufLen - 1
      BY ClientAssumption DEF ChainInv, TypeInv, TypeOK
    <3>2. \A o \in 0 .. BufLen - 1 : rbuf[o] \in 0 .. Len(stream)
      BY BufferFacts DEF ChainInv
    <3>3. \A o \in 0 .. size - 1 : rbuf[o] \in 0 .. Len(stream)
      BY <3>1, <3>2
    <3>4. Chained(stream, rbuf, size, Ahead(1))
      BY <2>2 DEF ChainInv, InFlightChained, ClientChained
    <3>5. Len(stream) <= Len(stream')
      BY <1>1
    <3> QED
      BY <1>1, <3>1, <3>3, <3>4, <3>5, ChainedStable
  <2> QED
    BY <2>1, <2>2 DEF ChainInv, InFlightChained, ClientChained, cvars
<1>4. DoneIsLast'
  <2>1. ASSUME NEW i \in 1 .. Len(stream'), stream'[i].kind = "done"
        PROVE  i = Len(stream') /\ kernel' = "finished"
    <3>1. CASE i \in 1 .. Len(stream)
      BY <1>1, <2>1, <3>1 DEF ChainInv, DoneIsLast
    <3>2. CASE i = Len(stream) + 1
      BY <1>1, <2>1, <3>2
    <3> QED
      BY <1>1, <3>1, <3>2
  <2>2. ASSUME handled # << >>, Len(handled) <= Len(stream)
        PROVE  /\ Len(handled) <= Len(stream')
               /\ stream'[Len(handled)] = stream[Len(handled)]
    <3>1. Len(handled) \in 1 .. Len(stream)
      BY <1>1, <2>2 DEF ChainInv, TypeInv, TypeOK
    <3> QED
      BY <1>1, <3>1
  <2> QED
    BY <2>1, <2>2 DEF ChainInv, DoneIsLast, cvars
<1> QED
  BY <1>2, <1>3, <1>4 DEF ChainInv, InFlightChained

(* The datagram being filled goes behind the queue.                        *)
LEMMA FlushKeepsChain ==
  ASSUME ChainInv, KFlush
  PROVE  InFlightChained' /\ DoneIsLast'
<1>1. KernelChained' /\ \A i \in 1 .. Len(queue) + 1 : Ahead(i)' = Ahead(i)
  BY FlushKeepsKernel DEF ChainInv, InFlightChained
<1>2. UNCHANGED << kernel, stream, cvars >>
  BY DEF KFlush
<1>3. ClientChained'
  <2>1. 1 \in 1 .. Len(queue) + 1
    BY DEF ChainInv, TypeInv, TypeOK
  <2>2. Ahead(1)' = Ahead(1)
    BY <1>1, <2>1
  <2> QED
    BY <1>2, <2>2 DEF ChainInv, InFlightChained, ClientChained, cvars
<1>4. DoneIsLast'
  BY <1>2 DEF ChainInv, DoneIsLast, cvars
<1> QED
  BY <1>1, <1>3, <1>4 DEF InFlightChained

-----------------------------------------------------------------------------
(***************************************************************************)
(* The client's steps.                                                     *)
(***************************************************************************)
(* A datagram is received: all of it, because it fits.                     *)
LEMMA RecvKeepsChain ==
  ASSUME Fits, ChainInv, Recv
  PROVE  InFlightChained' /\ DoneIsLast'
<1> DEFINE d == queue[1]
<1>1. /\ queue \in Seq(Datagram) /\ Len(queue) \in Nat \ {0}
      /\ d \in Datagram /\ Head(queue) = d
      /\ Len(queue') = Len(queue) - 1
      /\ \A i \in 1 .. Len(queue') : queue'[i] = queue[i + 1]
      /\ pc = "recv" /\ pc' = "decode"
      /\ UNCHANGED << kernel, stream, skb, offset, handled >>
  BY DEF Recv, ChainInv, TypeInv, TypeOK, kvars
<1>2. /\ d.size \in Nat /\ d.size <= DgramMax /\ d.size > 0 /\ d.at[0] # 0
      /\ Chained(stream, d.at, d.size, Ahead(2))
      /\ \A o \in 0 .. d.size - 1 : d.at[o] \in 0 .. Len(stream)
  <2>1. 1 \in 1 .. Len(queue)
    BY <1>1
  <2>2. /\ d.size > 0 /\ d.at[0] # 0
        /\ Chained(stream, d.at, d.size, Ahead(1 + 1))
    BY <2>1 DEF ChainInv, InFlightChained, KernelChained, QueueChained
  <2>3. /\ d.size \in Nat /\ d.size <= DgramMax
        /\ \A o \in 0 .. DgramMax - 1 : d.at[o] \in Nat
    BY <1>1, DatagramFacts
  <2>4. \A o \in 0 .. DgramMax - 1 : d.at[o] <= Len(stream)
    BY <2>1 DEF ChainInv, TypeInv, Known
  <2>5. ASSUME NEW o \in 0 .. d.size - 1 PROVE d.at[o] \in 0 .. Len(stream)
    <3>1. o \in 0 .. DgramMax - 1
      BY <2>3, ClientAssumption
    <3>2. Len(stream) \in Nat
      BY DEF ChainInv, TypeInv, TypeOK
    <3> QED
      BY <2>3, <2>4, <3>1, <3>2
  <2> QED
    BY <2>2, <2>3, <2>5
<1>3. Received(d) = d.size
  BY <1>2, ClientAssumption DEF Fits, Received
<1>4. /\ size' = d.size
      /\ \A o \in 0 .. d.size - 1 : rbuf'[o] = d.at[o]
  <2>1. size' = d.size /\ rbuf' = Overlay(d)
    BY <1>1, <1>3 DEF Recv
  <2>2. \A o \in 0 .. d.size - 1 : o \in 0 .. BufLen - 1 /\ o < d.size
    BY <1>2, ClientAssumption DEF Fits
  <2> QED
    BY <1>3, <2>1, <2>2 DEF Overlay
<1>5. \A i \in 1 .. Len(queue) : Ahead(i)' = Ahead(i + 1)
  BY <1>1 DEF Ahead
<1>6. QueueChained'
  <2> SUFFICES ASSUME NEW i \in 1 .. Len(queue')
               PROVE  /\ queue'[i].size > 0 /\ queue'[i].at[0] # 0
                      /\ Chained(stream', queue'[i].at, queue'[i].size, Ahead(i + 1)')
    BY DEF QueueChained
  <2>1. i + 1 \in 1 .. Len(queue)
    BY <1>1
  <2>2. queue'[i] = queue[i + 1] /\ Ahead(i + 1)' = Ahead((i + 1) + 1) /\ stream' = stream
    BY <1>1, <1>5, <2>1
  <2>3. /\ queue[i + 1].size > 0 /\ queue[i + 1].at[0] # 0
        /\ Chained(stream, queue[i + 1].at, queue[i + 1].size, Ahead((i + 1) + 1))
    BY <2>1 DEF ChainInv, InFlightChained, KernelChained, QueueChained
  <2> QED
    BY <2>2, <2>3
<1>7. SkbChained'
  BY <1>1 DEF ChainInv, InFlightChained, KernelChained, SkbChained
<1>8. ClientChained'
  <2>1. offset = 0 /\ Ahead(1) = Len(handled) + 1
    BY <1>1 DEF ChainInv, InFlightChained, ClientChained
  <2>2. Ahead(1) = d.at[0]
    BY <1>1 DEF Ahead
  <2>3. rbuf'[0] = d.at[0]
    BY <1>2, <1>4
  <2>4. Ahead(1)' = Ahead(2)
    BY <1>1, <1>5
  <2>5. Chained(stream, rbuf', d.size, Ahead(2))
    <3> DEFINE a == d.at
               b == rbuf'
               n == d.size
    <3>1. stream \in Seq(Message)
      BY DEF ChainInv, TypeInv, TypeOK
    <3>2. n \in Nat /\ Chained(stream, a, n, Ahead(2))
      BY <1>2
    <3>3. \A o \in 0 .. n - 1 : a[o] \in 0 .. Len(stream) /\ b[o] = a[o]
      BY <1>2, <1>4
    <3> HIDE DEF a, b, n, d
    <3>4. Chained(stream, b, n, Ahead(2))
      BY <3>1, <3>2, <3>3, ChainedCopy
    <3> QED
      BY <3>4 DEF b, n
  <2>6. \A i \in 1 .. Len(handled) : handled[i] = i
    BY DEF ChainInv, InFlightChained, ClientChained
  <2> QED
    BY <1>1, <1>2, <1>4, <2>1, <2>2, <2>3, <2>4, <2>5, <2>6 DEF ClientChained
<1>9. DoneIsLast'
  BY <1>1 DEF ChainInv, DoneIsLast
<1> QED
  BY <1>6, <1>7, <1>8, <1>9 DEF InFlightChained, KernelChained

(* What there is to decode is the next message, and the whole of it.       *)
LEMMA DecodeFacts ==
  ASSUME ChainInv, pc = "decode"
  PROVE  /\ Framed
         /\ Current = Len(handled) + 1
         /\ Current = rbuf[offset]
         /\ Current \in 1 .. Len(stream)
         /\ stream[Current] \in Message
         /\ offset + stream[Current].len <= size
         /\ offset + stream[Current].len < size =>
              rbuf[offset + stream[Current].len] = Current + 1
         /\ offset + stream[Current].len = size => Ahead(1) = Current + 1
<1>1. /\ offset \in Nat /\ size \in Nat /\ offset < size /\ size <= BufLen /\ BufLen \in Nat
      /\ rbuf[offset] = Len(handled) + 1
      /\ Chained(stream, rbuf, size, Ahead(1))
      /\ Len(handled) \in Nat
  BY ClientAssumption DEF ChainInv, TypeInv, TypeOK, InFlightChained, ClientChained
<1>2. Current = rbuf[offset] /\ Current = Len(handled) + 1
  BY <1>1 DEF Current
<1>3. Current \in 1 .. Len(stream)
  <2>1. rbuf[offset] \in 0 .. Len(stream)
    <3>1. offset \in 0 .. BufLen - 1
      BY <1>1
    <3> QED
      BY <3>1, BufferFacts DEF ChainInv
  <2> QED
    BY <1>1, <1>2, <2>1
<1>4. stream[Current] \in Message /\ stream[Current].len \in Nat
  <2>1. stream[Current] \in Message
    BY <1>3 DEF ChainInv, TypeInv, TypeOK
  <2> QED
    BY <2>1, MessageFacts
<1>5. /\ End(stream, rbuf, offset) <= size
      /\ End(stream, rbuf, offset) < size =>
           rbuf[End(stream, rbuf, offset)] = rbuf[offset] + 1
      /\ End(stream, rbuf, offset) = size => Ahead(1) = rbuf[offset] + 1
  <2>1. offset \in 0 .. size - 1 /\ rbuf[offset] # 0
    BY <1>1
  <2> QED
    BY <1>1, <2>1 DEF Chained
<1>6. End(stream, rbuf, offset) = offset + stream[Current].len
  BY <1>2 DEF End
<1>7. Framed
  <2>1. Current # 0
    BY <1>3
  <2>2. offset + stream[Current].len <= BufLen
    BY <1>1, <1>4, <1>5, <1>6
  <2> QED
    BY <2>1, <2>2 DEF Framed
<1> QED
  BY <1>2, <1>3, <1>4, <1>5, <1>6, <1>7

(* Handled, one message more.                                              *)
LEMMA HandledFacts ==
  ASSUME ChainInv, pc = "decode", handled' = Append(handled, Current)
  PROVE  /\ Len(handled') = Len(handled) + 1
         /\ Len(handled') = Current
         /\ handled' # << >>
         /\ Len(handled') \in 1 .. Len(stream)
         /\ \A i \in 1 .. Len(handled') : handled'[i] = i
<1>1. handled \in Seq(1 .. MaxMsgs + 1) /\ Current = Len(handled) + 1 /\ Current \in 1 .. Len(stream)
  BY DecodeFacts DEF ChainInv, TypeInv, TypeOK
<1>2. Current \in 1 .. MaxMsgs + 1
  BY <1>1, ClientAssumption DEF ChainInv, TypeInv, TypeOK
<1>3. /\ Len(handled') = Len(handled) + 1 /\ Len(handled) \in Nat
      /\ \A i \in 1 .. Len(handled) : handled'[i] = handled[i]
      /\ handled'[Len(handled) + 1] = Current
      /\ handled' # << >>
  BY <1>1, <1>2, AppendFacts
<1>4. \A i \in 1 .. Len(handled) : handled[i] = i
  BY DEF ChainInv, InFlightChained, ClientChained
<1> QED
  BY <1>1, <1>3, <1>4

LEMMA HandleKeepsChain ==
  ASSUME ChainInv, Handle
  PROVE  InFlightChained' /\ DoneIsLast'
<1>1. /\ pc = "decode" /\ handled' = Append(handled, Current)
      /\ offset' = NextOffset(stream[Current].len)
      /\ pc' = IF LastOne(stream[Current].len) THEN "recv" ELSE "decode"
      /\ UNCHANGED << kernel, stream, skb, queue, rbuf, size >>
  BY DEF Handle, kvars
<1>2. \A i : Ahead(i)' = Ahead(i)
  BY <1>1 DEF Ahead
<1>3. QueueChained'
  BY <1>1, <1>2 DEF ChainInv, InFlightChained, KernelChained, QueueChained
<1>4. SkbChained'
  BY <1>1 DEF ChainInv, InFlightChained, KernelChained, SkbChained
<1>5. ClientChained'
  <2>1. Len(handled') = Current /\ \A i \in 1 .. Len(handled') : handled'[i] = i
    BY <1>1, HandledFacts
  <2>2. /\ stream[Current].len \in Nat /\ stream[Current].len > 0
        /\ offset + stream[Current].len <= size
        /\ offset \in Nat /\ size \in Nat
    BY <1>1, DecodeFacts, MessageFacts DEF ChainInv, TypeInv, TypeOK
  <2>3. Chained(stream, rbuf, size, Ahead(1))
    BY <1>1 DEF ChainInv, InFlightChained, ClientChained
  <2>4. CASE LastOne(stream[Current].len)
    <3>1. offset + stream[Current].len = size
      BY <2>2, <2>4 DEF LastOne
    <3>2. Ahead(1) = Current + 1
      BY <1>1, <3>1, DecodeFacts
    <3>3. offset' = 0 /\ pc' = "recv"
      BY <1>1, <2>4 DEF NextOffset
    <3> QED
      BY <1>2, <2>1, <3>2, <3>3 DEF ClientChained
  <2>5. CASE ~LastOne(stream[Current].len)
    <3>1. offset + stream[Current].len < size
      BY <2>2, <2>5 DEF LastOne
    <3>2. offset' = offset + stream[Current].len /\ pc' = "decode"
      BY <1>1, <2>5 DEF NextOffset
    <3>3. rbuf[offset'] = Current + 1
      BY <1>1, <3>1, <3>2, DecodeFacts
    <3> QED
      BY <1>1, <1>2, <2>1, <2>3, <3>1, <3>2, <3>3 DEF ClientChained
  <2> QED
    BY <2>4, <2>5
<1>6. DoneIsLast'
  <2>1. pc' \notin {"done", "panicked"}
    BY <1>1
  <2> QED
    BY <1>1, <2>1 DEF ChainInv, DoneIsLast
<1> QED
  BY <1>3, <1>4, <1>5, <1>6 DEF InFlightChained, KernelChained

LEMMA ReturnKeepsChain ==
  ASSUME ChainInv, Return
  PROVE  InFlightChained' /\ DoneIsLast'
<1>1. /\ pc = "decode" /\ handled' = Append(handled, Current)
      /\ pc' = Ending(stream[Current].kind) /\ pc' # "running"
      /\ UNCHANGED << kernel, stream, skb, queue, rbuf, size, offset >>
  BY DEF Return, kvars
<1>2. pc' \in {"done", "aborted", "panicked"}
  BY <1>1 DEF Ending
<1>3. \A i : Ahead(i)' = Ahead(i)
  BY <1>1 DEF Ahead
<1>4. QueueChained'
  BY <1>1, <1>3 DEF ChainInv, InFlightChained, KernelChained, QueueChained
<1>5. SkbChained'
  BY <1>1 DEF ChainInv, InFlightChained, KernelChained, SkbChained
<1>6. ClientChained'
  <2>1. \A i \in 1 .. Len(handled') : handled'[i] = i
    BY <1>1, HandledFacts
  <2> QED
    BY <1>2, <2>1 DEF ClientChained
<1>7. DoneIsLast'
  <2>1. /\ handled' # << >> /\ Len(handled') <= Len(stream)
        /\ stream[Len(handled')] = stream[Current]
    BY <1>1, HandledFacts DEF ChainInv, TypeInv, TypeOK
  <2>2. /\ pc' = "done" => stream[Current].kind = "done"
        /\ pc' = "panicked" => stream[Current].kind = "undecodable"
    BY <1>1, DecodeFacts DEF Ending, Message, Kinds
  <2> QED
    BY <1>1, <2>1, <2>2 DEF ChainInv, DoneIsLast
<1> QED
  BY <1>4, <1>5, <1>6, <1>7 DEF InFlightChained, KernelChained

(***************************************************************************)
(* The chain is kept by every step, and what the properties say of the     *)
(* example follows from it.                                                *)
(***************************************************************************)
THEOREM ChainInductive ==
  ASSUME Fits
  PROVE  /\ Init => ChainInv
         /\ ChainInv /\ [Next]_vars => ChainInv'
<1>1. Init => ChainInv
  <2> SUFFICES ASSUME Init PROVE ChainInv
    OBVIOUS
  <2>1. TypeInv
    BY TypeInductive
  <2>2. Ahead(1) = 1
    BY NoDataFacts DEF Init, Ahead
  <2>3. InFlightChained
    BY <2>2, NoDataFacts DEF Init, InFlightChained, KernelChained, QueueChained, SkbChained, ClientChained
  <2>4. DoneIsLast
    BY DEF Init, DoneIsLast
  <2> QED
    BY <2>1, <2>3, <2>4 DEF ChainInv
<1>2. ChainInv /\ [Next]_vars => ChainInv'
  <2> SUFFICES ASSUME ChainInv, [Next]_vars PROVE ChainInv'
    OBVIOUS
  <2>0. TypeInv'
    BY TypeInductive DEF ChainInv
  <2>1. CASE KPut
    <3>1. PICK m \in Msgs : /\ skb.size + m.len <= DgramMax
                            /\ skb' = Put(skb, m)
                            /\ stream' = Append(stream, m)
      BY <2>1 DEF KPut
    <3>2. m \in Message /\ m.kind # "done"
      BY ClientAssumption
    <3> QED
      BY <2>0, <2>1, <3>1, <3>2, PutKeepsChain DEF KPut
  <2>2. CASE KDone
    <3>1. DoneMsg \in Message
      BY ClientAssumption
    <3> QED
      BY <2>0, <2>2, <3>1, PutKeepsChain DEF KDone
  <2>3. CASE KRefuse
    <3>1. ErrorMsg \in Message /\ ErrorMsg.kind # "done"
      BY ClientAssumption
    <3>2. skb.size = 0 /\ stream = << >> /\ stream' = Append(stream, ErrorMsg)
      BY <2>3 DEF KRefuse, ChainInv, TypeInv, KernelOrder
    <3>3. skb.size + ErrorMsg.len <= DgramMax
      BY <3>1, <3>2, MessageFacts, ClientAssumption
    <3> QED
      BY <2>0, <2>3, <3>1, <3>2, <3>3, PutKeepsChain DEF KRefuse
  <2>4. CASE KFlush
    BY <2>0, <2>4, FlushKeepsChain DEF ChainInv
  <2>5. CASE Request
    <3>1. kernel = "idle" /\ pc = "request"
      BY <2>5 DEF Request, ChainInv, TypeInv, KernelOrder
    <3>2. InFlightChained'
      BY <2>5 DEF Request, ChainInv, InFlightChained, KernelChained, QueueChained,
        SkbChained, ClientChained, Ahead
    <3>3. DoneIsLast'
      <4>1. \A i \in 1 .. Len(stream) : stream[i].kind # "done"
        BY <3>1 DEF ChainInv, DoneIsLast
      <4> QED
        BY <2>5, <4>1 DEF Request, DoneIsLast
    <3> QED
      BY <2>0, <3>2, <3>3 DEF ChainInv
  <2>6. CASE SocketError \/ Unopened
    BY <2>0, <2>6 DEF SocketError, Unopened, kvars, ChainInv, InFlightChained, KernelChained, QueueChained,
      SkbChained, ClientChained, DoneIsLast, Ahead
  <2>7. CASE Recv
    BY <2>0, <2>7, RecvKeepsChain DEF ChainInv
  <2>8. CASE Handle
    BY <2>0, <2>8, HandleKeepsChain DEF ChainInv
  <2>9. CASE Return
    BY <2>0, <2>9, ReturnKeepsChain DEF ChainInv
  <2>10. CASE Panic
    BY <2>10, DecodeFacts DEF Panic
  <2>11. CASE UNCHANGED vars
    BY <2>0, <2>11 DEF vars, kvars, cvars, ChainInv, InFlightChained, KernelChained, QueueChained,
      SkbChained, ClientChained, DoneIsLast, Ahead
  <2> QED
    BY <2>1, <2>2, <2>3, <2>4, <2>5, <2>6, <2>7, <2>8, <2>9, <2>10, <2>11
    DEF Next, Kernel, Client
<1> QED
  BY <1>1, <1>2

(* With datagrams that fit, no message of the answer goes missing between  *)
(* the kernel and the match of the example, in no queue and no buffer.     *)
THEOREM NothingMissing == ASSUME Fits PROVE Spec => []InFlightChained
<1>1. Spec => []ChainInv
  BY ChainInductive, PTL DEF Spec
<1> QED
  BY <1>1, PTL DEF ChainInv

(* With datagrams that fit, what the loop decodes at offset is the message *)
(* after the last one it handled.                                          *)
THEOREM InLine == ASSUME Fits PROVE Spec => []NextInLine
<1>1. Spec => []ChainInv
  BY ChainInductive, PTL DEF Spec
<1>2. ChainInv => NextInLine
  BY DecodeFacts DEF NextInLine
<1> QED
  BY <1>1, <1>2, PTL

(* With datagrams that fit, "Done!" is printed only when every message of  *)
(* the answer was handled.                                                 *)
THEOREM DoneComplete == ASSUME Fits PROVE Spec => []DoneMeansAll
<1>1. Spec => []ChainInv
  BY ChainInductive, PTL DEF Spec
<1>2. ChainInv => DoneMeansAll
  <2> SUFFICES ASSUME ChainInv, pc = "done"
               PROVE  kernel = "finished" /\ handled = [i \in 1 .. Len(stream) |-> i]
    BY DEF DoneMeansAll
  <2>1. Len(handled) \in 1 .. Len(stream) /\ stream[Len(handled)].kind = "done"
    BY DEF ChainInv, DoneIsLast, TypeInv, TypeOK
  <2>2. Len(handled) = Len(stream) /\ kernel = "finished"
    BY <2>1 DEF ChainInv, DoneIsLast
  <2>3. handled \in Seq(1 .. MaxMsgs + 1) /\ \A i \in 1 .. Len(handled) : handled[i] = i
    BY DEF ChainInv, TypeInv, TypeOK, InFlightChained, ClientChained
  <2>4. handled = [i \in 1 .. Len(handled) |-> handled[i]]
    BY <2>3
  <2> QED
    BY <2>2, <2>3, <2>4
<1> QED
  BY <1>1, <1>2, PTL

(* With datagrams that fit, the unwrap() of the loop only fails on a       *)
(* message that cannot be decoded.                                         *)
THEOREM PanicReason == ASSUME Fits PROVE Spec => []PanicOnlyOnUndecodable
<1>1. Spec => []ChainInv
  BY ChainInductive, PTL DEF Spec
<1>2. ChainInv => PanicOnlyOnUndecodable
  <2> SUFFICES ASSUME ChainInv, pc = "panicked"
               PROVE  handled # << >> /\ stream[handled[Len(handled)]].kind = "undecodable"
    BY DEF PanicOnlyOnUndecodable
  <2>1. handled # << >> /\ stream[Len(handled)].kind = "undecodable"
    BY DEF ChainInv, DoneIsLast
  <2>2. handled[Len(handled)] = Len(handled)
    BY <2>1 DEF ChainInv, TypeInv, TypeOK, InFlightChained, ClientChained
  <2> QED
    BY <2>1, <2>2
<1> QED
  BY <1>1, <1>2, PTL

-----------------------------------------------------------------------------
(***************************************************************************)
(* The example implements the abstract stream of DumpStream.               *)
(***************************************************************************)
(* Which messages were delivered.                                          *)
LEMMA DeliveredFacts ==
  ASSUME ChainInv, HandledSent
  PROVE  /\ Delivered \in Seq(Message)
         /\ Len(Delivered) = Len(handled)
         /\ \A i \in 1 .. Len(handled) :
              handled[i] = i /\ i \in 1 .. Len(stream) /\ Delivered[i] = stream[i]
<1>1. /\ stream \in Seq(Message) /\ handled \in Seq(1 .. MaxMsgs + 1)
      /\ Len(handled) \in Nat /\ DOMAIN handled = 1 .. Len(handled) /\ Len(stream) \in Nat
  BY DEF ChainInv, TypeInv, TypeOK
<1>2. \A i \in 1 .. Len(handled) : handled[i] = i
  BY DEF ChainInv, InFlightChained, ClientChained
<1>3. \A i \in 1 .. Len(handled) : i <= Len(stream)
  BY <1>2 DEF HandledSent
<1>4. \A i \in 1 .. Len(handled) : i \in 1 .. Len(stream)
  BY <1>1, <1>3
<1>5. Delivered = [i \in 1 .. Len(handled) |-> stream[handled[i]]]
  BY <1>1 DEF Delivered
<1>6. \A i \in 1 .. Len(handled) : stream[handled[i]] \in Message
  BY <1>1, <1>2, <1>4
<1>7. Delivered \in Seq(Message) /\ Len(Delivered) = Len(handled)
  BY <1>1, <1>5, <1>6
<1> QED
  BY <1>2, <1>4, <1>5, <1>7

(* A message that the kernel puts somewhere is sent in the stream.         *)
LEMMA PutIsSend ==
  ASSUME ChainInv, HandledSent, NEW m \in Msgs \cup {DoneMsg, ErrorMsg},
         stream' = Append(stream, m), UNCHANGED cvars
  PROVE  Stream!Next
<1>1. m \in Message
  BY ClientAssumption
<1>2. /\ stream \in Seq(Message) /\ Len(stream) \in Nat
      /\ \A i \in 1 .. Len(stream) : stream'[i] = stream[i]
  BY <1>1, AppendFacts DEF ChainInv, TypeInv, TypeOK
<1>3. Delivered' = Delivered
  <2>1. handled' = handled /\ DOMAIN handled = 1 .. Len(handled)
    BY DEF cvars, ChainInv, TypeInv, TypeOK
  <2>2. \A i \in 1 .. Len(handled) : stream'[handled[i]] = stream[handled[i]]
    BY <1>2, DeliveredFacts
  <2> QED
    BY <2>1, <2>2 DEF Delivered
<1>4. Outcome' = Outcome
  BY DEF Outcome, cvars
<1>5. Stream!Send
  BY <1>3, <1>4 DEF Stream!Send
<1> QED
  BY <1>5 DEF Stream!Next

(* An iteration of the loop delivers the next message of the stream.       *)
LEMMA DecodeIsDeliver ==
  ASSUME ChainInv, HandledSent, pc = "decode",
         handled' = Append(handled, Current), stream' = stream,
         Outcome' = Ending(stream[Current].kind)
  PROVE  Stream!Next
<1>1. /\ Current = Len(handled) + 1 /\ Current \in 1 .. Len(stream)
      /\ Len(handled) \in Nat /\ stream[Current] \in Message
  BY DecodeFacts DEF ChainInv, TypeInv, TypeOK
<1>2. /\ Delivered \in Seq(Message) /\ Len(Delivered) = Len(handled)
      /\ \A i \in 1 .. Len(handled) : handled[i] = i /\ Delivered[i] = stream[i]
  BY DeliveredFacts
<1>3. Outcome = "running"
  BY DEF Outcome, Stopped
<1>4. /\ handled \in Seq(1 .. MaxMsgs + 1) /\ Current \in 1 .. MaxMsgs + 1
  BY <1>1, ClientAssumption DEF ChainInv, TypeInv, TypeOK
<1>5. /\ DOMAIN handled' = 1 .. Len(handled) + 1
      /\ \A i \in 1 .. Len(handled) + 1 : handled'[i] = i
  <2>1. handled' \in Seq(1 .. MaxMsgs + 1) /\ Len(handled') = Len(handled) + 1
    BY <1>4, AppendFacts
  <2>2. \A i \in 1 .. Len(handled') : handled'[i] = i
    BY HandledFacts
  <2> QED
    BY <2>1, <2>2
<1>6. Delivered' = [i \in 1 .. Len(handled) + 1 |-> stream[i]]
  BY <1>5 DEF Delivered
<1>7. Append(Delivered, stream[Current]) = [i \in 1 .. Len(handled) + 1 |-> stream[i]]
  <2> DEFINE D == Delivered
             A == Append(D, stream[Current])
  <2>1. /\ A \in Seq(Message) /\ Len(A) = Len(handled) + 1
        /\ \A i \in 1 .. Len(handled) : A[i] = D[i]
        /\ A[Len(handled) + 1] = stream[Current]
    BY <1>1, <1>2, AppendFacts
  <2>2. \A i \in 1 .. Len(handled) + 1 : A[i] = stream[i]
    BY <1>1, <1>2, <2>1
  <2>3. A = [i \in 1 .. Len(A) |-> A[i]]
    BY <2>1
  <2> QED
    BY <2>1, <2>2, <2>3
<1>8. Stream!Deliver
  <2>1. Len(Delivered) < Len(stream) /\ stream[Len(Delivered) + 1] = stream[Current]
    BY <1>1, <1>2
  <2>2. Delivered' = Append(Delivered, stream[Len(Delivered) + 1])
    BY <1>6, <1>7, <2>1
  <2>3. Outcome' = Ending(stream[Len(Delivered) + 1].kind)
    BY <2>1
  <2> QED
    BY <1>3, <2>1, <2>2, <2>3 DEF Stream!Deliver
<1> QED
  BY <1>8 DEF Stream!Next

LEMMA StepRefines ==
  ASSUME ChainInv, HandledSent, [Next]_vars
  PROVE  [Stream!Next]_(Stream!vars)
<1>1. CASE KPut
  <2>1. PICK m \in Msgs : stream' = Append(stream, m)
    BY <1>1 DEF KPut
  <2> QED
    BY <1>1, <2>1, PutIsSend DEF KPut
<1>2. CASE KDone
  BY <1>2, PutIsSend DEF KDone
<1>3. CASE KRefuse
  <2>1. stream' = Append(stream, ErrorMsg)
    BY <1>3 DEF KRefuse
  <2> QED
    BY <1>3, <2>1, PutIsSend DEF KRefuse
<1>4. CASE KFlush \/ Request \/ Recv \/ UNCHANGED vars
  <2>1. UNCHANGED << stream, handled >> /\ Outcome' = Outcome
    BY <1>4 DEF KFlush, Request, Recv, vars, kvars, cvars, Outcome, Stopped
  <2>2. Delivered' = Delivered
    BY <2>1 DEF Delivered
  <2> QED
    BY <2>1, <2>2 DEF Stream!vars
<1>5. CASE Handle
  <2>1. /\ pc = "decode" /\ handled' = Append(handled, Current) /\ stream' = stream
        /\ Ending(stream[Current].kind) = "running"
        /\ pc' \in {"recv", "decode"}
    BY <1>5 DEF Handle, kvars
  <2>2. Outcome' = "running"
    BY <2>1 DEF Outcome, Stopped
  <2> QED
    BY <2>1, <2>2, DecodeIsDeliver
<1>6. CASE Return
  <2>1. /\ pc = "decode" /\ handled' = Append(handled, Current) /\ stream' = stream
        /\ pc' = Ending(stream[Current].kind) /\ pc' # "running"
    BY <1>6 DEF Return, kvars
  <2>2. Outcome' = Ending(stream[Current].kind)
    BY <2>1 DEF Outcome, Stopped, Ending
  <2> QED
    BY <2>1, <2>2, DecodeIsDeliver
<1>7. CASE Panic
  BY <1>7, DecodeFacts DEF Panic
<1>8. CASE SocketError \/ Unopened
  <2>1. UNCHANGED << stream, handled >> /\ Outcome = "running" /\ Outcome' = "closed"
    BY <1>8 DEF SocketError, Unopened, kvars, Outcome, Stopped
  <2>2. Delivered' = Delivered
    BY <2>1 DEF Delivered
  <2>3. Stream!Fail
    BY <2>1, <2>2 DEF Stream!Fail
  <2> QED
    BY <2>3 DEF Stream!Next
<1> QED
  BY <1>1, <1>2, <1>3, <1>4, <1>5, <1>6, <1>7, <1>8 DEF Next, Kernel, Client

(* With datagrams that fit, the loop over buffers and offsets implements   *)
(* the stream: every step of it, and of the kernel, is a step of the       *)
(* stream or changes nothing of it.                                        *)
THEOREM Implements == ASSUME Fits PROVE Spec => StreamSpec
<1>1. Spec => [](ChainInv /\ HandledSent)
  <2>1. Init => ChainInv /\ HandledSent
    BY ChainInductive, HandledSentInductive
  <2>2. ChainInv /\ HandledSent /\ [Next]_vars => (ChainInv /\ HandledSent)'
    BY ChainInductive, HandledSentInductive DEF ChainInv
  <2> QED
    BY <2>1, <2>2, PTL DEF Spec
<1>2. Init => Stream!Init
  BY DEF Init, Stream!Init, Delivered, Outcome, Stopped
<1>3. ChainInv /\ HandledSent /\ [Next]_vars => [Stream!Next]_(Stream!vars)
  BY StepRefines
<1> QED
  BY <1>1, <1>2, <1>3, PTL DEF Spec, StreamSpec, Stream!Spec

-----------------------------------------------------------------------------
(***************************************************************************)
(* The client is not left waiting.  When nothing is in flight it has       *)
(* handled every message sent, and if the kernel were finished the last of *)
(* them would have made it return.                                         *)
(***************************************************************************)
LEMMA PutAnswered ==
  ASSUME ChainInv, Answered, NEW m \in Message, stream' = Append(stream, m),
         UNCHANGED << pc, handled >>, kernel = "dumping", kernel' \in {"dumping", "finished"},
         kernel' = "finished" => Ending(m.kind) # "running"
  PROVE  Answered'
<1>1. stream \in Seq(Message) /\ handled \in Seq(1 .. MaxMsgs + 1)
  BY DEF ChainInv, TypeInv, TypeOK
<1>2. /\ Len(stream) \in Nat /\ Len(stream') = Len(stream) + 1 /\ stream' # << >>
      /\ \A i \in 1 .. Len(stream) : stream'[i] = stream[i]
      /\ stream'[Len(stream) + 1] = m
  BY <1>1, AppendFacts
<1>3. ASSUME pc \in {"recv", "decode"}, NEW i \in 1 .. Len(handled)
      PROVE  handled[i] <= Len(stream') /\ Ending(stream'[handled[i]].kind) = "running"
  <2>1. handled[i] <= Len(stream) /\ Ending(stream[handled[i]].kind) = "running"
    BY <1>3 DEF Answered
  <2>2. handled[i] \in 1 .. MaxMsgs + 1
    BY <1>1, ElementOfSeq
  <2>3. handled[i] \in 1 .. Len(stream)
    BY <1>2, <2>1, <2>2
  <2> QED
    BY <1>2, <2>1, <2>3
<1>4. kernel' = "finished" => Ending(stream'[Len(stream')].kind) # "running"
  BY <1>2
<1> QED
  BY <1>2, <1>3, <1>4 DEF Answered

LEMMA HandleAnswered ==
  ASSUME ChainInv, Answered, Handle
  PROVE  Answered'
<1>1. /\ pc = "decode" /\ handled' = Append(handled, Current)
      /\ Ending(stream[Current].kind) = "running" /\ pc' # "request"
      /\ UNCHANGED << kernel, stream >>
  BY DEF Handle, kvars
<1>2. Current \in 1 .. Len(stream) /\ Len(stream) <= MaxMsgs + 1 /\ MaxMsgs \in Nat
      /\ handled \in Seq(1 .. MaxMsgs + 1) /\ Len(stream) \in Nat
  BY <1>1, DecodeFacts, ClientAssumption DEF ChainInv, TypeInv, TypeOK
<1>3. Current \in 1 .. MaxMsgs + 1
  BY <1>2
<1>4. /\ Len(handled) \in Nat /\ Len(handled') = Len(handled) + 1
      /\ \A i \in 1 .. Len(handled) : handled'[i] = handled[i]
      /\ handled'[Len(handled) + 1] = Current
  BY <1>1, <1>2, <1>3, AppendFacts
<1>5. ASSUME NEW i \in 1 .. Len(handled')
      PROVE  handled'[i] <= Len(stream) /\ Ending(stream[handled'[i]].kind) = "running"
  <2>1. CASE i \in 1 .. Len(handled)
    BY <1>1, <1>4, <2>1 DEF Answered
  <2>2. CASE i = Len(handled) + 1
    BY <1>1, <1>2, <1>4, <2>2
  <2> QED
    BY <1>4, <2>1, <2>2
<1> QED
  BY <1>1, <1>5 DEF Answered

LEMMA AnsweredInductive ==
  /\ Init => Answered
  /\ ChainInv /\ Answered /\ [Next]_vars => Answered'
<1>1. Init => Answered
  BY DEF Init, Answered
<1>2. ChainInv /\ Answered /\ [Next]_vars => Answered'
  <2> SUFFICES ASSUME ChainInv, Answered, [Next]_vars PROVE Answered'
    OBVIOUS
  <2>1. CASE KPut
    <3>1. PICK m \in Msgs : stream' = Append(stream, m)
      BY <2>1 DEF KPut
    <3>2. m \in Message
      BY ClientAssumption
    <3>3. kernel = "dumping" /\ kernel' = "dumping" /\ UNCHANGED << pc, handled >>
      BY <2>1 DEF KPut, cvars
    <3> QED
      BY <3>1, <3>2, <3>3, PutAnswered
  <2>2. CASE KDone
    <3>1. DoneMsg \in Message /\ Ending(DoneMsg.kind) # "running"
      BY ClientAssumption DEF Ending
    <3> QED
      BY <2>2, <3>1, PutAnswered DEF KDone, cvars
  <2>3. CASE KRefuse
    <3>1. ErrorMsg \in Message /\ Ending(ErrorMsg.kind) # "running"
      BY ClientAssumption DEF Ending
    <3>2. stream' = Append(stream, ErrorMsg)
      BY <2>3 DEF KRefuse
    <3> QED
      BY <2>3, <3>1, <3>2, PutAnswered DEF KRefuse, cvars
  <2>4. CASE Handle
    BY <2>4, HandleAnswered
  <2>5. CASE Request
    <3>1. handled = << >> /\ kernel' = "dumping" /\ pc' = "recv" /\ handled' = handled
      BY <2>5 DEF Request, Answered
    <3> QED
      BY <3>1 DEF Answered
  <2>6. CASE Return \/ Panic \/ SocketError \/ Unopened
    <3>1. pc' \notin {"request", "recv", "decode"} /\ UNCHANGED << kernel, stream >>
      BY <2>6 DEF Return, Panic, SocketError, Unopened, kvars, Ending
    <3> QED
      BY <3>1 DEF Answered
  <2>7. CASE KFlush \/ Recv \/ UNCHANGED vars
    <3>1. /\ UNCHANGED << kernel, stream, handled >> /\ (pc' = "request" => pc = "request")
          /\ pc' \in {"recv", "decode"} => pc \in {"recv", "decode"}
      BY <2>7 DEF KFlush, Recv, vars, kvars, cvars
    <3> QED
      BY <3>1 DEF Answered
  <2> QED
    BY <2>1, <2>2, <2>3, <2>4, <2>5, <2>6, <2>7 DEF Next, Kernel, Client
<1> QED
  BY <1>1, <1>2

(* With datagrams that fit, the client never blocks in recv() when nothing *)
(* can come any more.                                                      *)
THEOREM NotInVain == ASSUME Fits PROVE Spec => []NeverWaitsInVain
<1>1. Init => ChainInv /\ Answered
  BY ChainInductive, AnsweredInductive
<1>2. (ChainInv /\ Answered) /\ [Next]_vars => (ChainInv /\ Answered)'
  BY ChainInductive, AnsweredInductive
<1>3. ASSUME ChainInv, Answered PROVE NeverWaitsInVain
  <2> SUFFICES ASSUME pc = "recv", queue = << >>, ~(skb.size > 0), kernel # "dumping"
               PROVE  FALSE
    BY DEF NeverWaitsInVain
  <2>1. /\ kernel = "finished" /\ stream # << >>
        /\ Ending(stream[Len(stream)].kind) # "running"
        /\ \A i \in 1 .. Len(handled) : Ending(stream[handled[i]].kind) = "running"
    BY <1>3 DEF Answered, ChainInv, TypeInv, TypeOK
  <2>2. Ahead(1) = Len(stream) + 1
    BY DEF Ahead
  <2>3. Ahead(1) = Len(handled) + 1 /\ \A i \in 1 .. Len(handled) : handled[i] = i
    BY <1>3 DEF ChainInv, InFlightChained, ClientChained
  <2>4. stream \in Seq(Message) /\ Len(handled) \in Nat
    BY <1>3 DEF ChainInv, TypeInv, TypeOK
  <2>5. Len(handled) = Len(stream) /\ Len(stream) \in 1 .. Len(stream)
    BY <2>1, <2>2, <2>3, <2>4
  <2> QED
    BY <2>1, <2>3, <2>5
<1> QED
  BY <1>1, <1>2, <1>3, PTL DEF Spec
=============================================================================
