--------------------------- MODULE DumpClientProofs ---------------------------
(***************************************************************************)
(* What the receive loop of src/examples/dump_ipv4.rs guarantees for every *)
(* buffer length, datagram limit, set of messages and bound.               *)
(***************************************************************************)
EXTENDS DumpClient, TLAPS, SequenceTheorems, WellFoundedInduction

(* A type-correct message is at least one word long.                       *)
LEMMA MessageFacts ==
  ASSUME NEW m \in Message
  PROVE  m.kind \in Kinds /\ m.len \in Nat /\ 0 < m.len /\ m.len <= DgramMax
BY ClientAssumption DEF Message

(* The empty datagram is one.                                              *)
LEMMA NoDataFacts ==
  /\ NoData \in Datagram
  /\ NoData.size = 0
  /\ \A o \in 0 .. DgramMax - 1 : NoData.at[o] = 0
BY ClientAssumption DEF NoData, Datagram, Number

(* The numbers in a datagram are naturals.                                 *)
LEMMA DatagramFacts ==
  ASSUME NEW d \in Datagram
  PROVE  /\ d.size \in Nat /\ d.size <= DgramMax
         /\ d.at \in [0 .. DgramMax - 1 -> Number]
         /\ \A o \in 0 .. DgramMax - 1 : d.at[o] \in Number /\ d.at[o] \in Nat
<1>1. d.size \in Nat /\ d.size <= DgramMax /\ d.at \in [0 .. DgramMax - 1 -> Number]
  BY ClientAssumption DEF Datagram
<1>2. \A o \in 0 .. DgramMax - 1 : d.at[o] \in Number
  BY <1>1
<1> QED
  BY <1>1, <1>2, ClientAssumption DEF Number

(* The numbers in the receive buffer are those of messages that were sent. *)
LEMMA BufferFacts ==
  ASSUME TypeInv
  PROVE  \A o \in 0 .. BufLen - 1 : rbuf[o] \in 0 .. Len(stream)
<1> SUFFICES ASSUME NEW o \in 0 .. BufLen - 1 PROVE rbuf[o] \in 0 .. Len(stream)
  OBVIOUS
<1>1. rbuf[o] \in Nat
  BY ClientAssumption DEF TypeInv, TypeOK, Number
<1>2. rbuf[o] <= Len(stream) /\ Len(stream) \in Nat
  BY DEF TypeInv, TypeOK, Known
<1> QED
  BY <1>1, <1>2

(* Putting a message that fits behind the others, under the next number,   *)
(* leaves a datagram whose other words are as they were.                   *)
LEMMA PutFacts ==
  ASSUME TypeOK, NEW m \in Message, skb.size + m.len <= DgramMax,
         Len(stream) <= MaxMsgs
  PROVE  /\ Put(skb, m) \in Datagram
         /\ Put(skb, m).size = skb.size + m.len
         /\ Put(skb, m).at[skb.size] = Len(stream) + 1
         /\ \A o \in 0 .. DgramMax - 1 :
              o # skb.size => Put(skb, m).at[o] = skb.at[o]
         /\ skb.size \in 0 .. DgramMax - 1
<1>1. /\ skb.size \in Nat /\ skb.size <= DgramMax
      /\ skb.at \in [0 .. DgramMax - 1 -> Number]
  BY DatagramFacts DEF TypeOK
<1>2. skb.size \in 0 .. DgramMax - 1 /\ skb.size + m.len \in 0 .. DgramMax
  BY <1>1, MessageFacts, ClientAssumption
<1>3. Len(stream) + 1 \in Number
  BY ClientAssumption DEF TypeOK, Number
<1>4. [skb.at EXCEPT ![skb.size] = Len(stream) + 1] \in [0 .. DgramMax - 1 -> Number]
  BY <1>1, <1>3
<1>5. Put(skb, m) \in Datagram
  BY <1>2, <1>4 DEF Put, Datagram
<1> QED
  BY <1>1, <1>2, <1>5 DEF Put

(* The history with one message more.                                      *)
LEMMA AppendFacts ==
  ASSUME NEW S, NEW s \in Seq(S), NEW m \in S
  PROVE  /\ Append(s, m) \in Seq(S)
         /\ Len(Append(s, m)) = Len(s) + 1
         /\ Len(s) \in Nat
         /\ \A i \in 1 .. Len(s) : Append(s, m)[i] = s[i]
         /\ Append(s, m)[Len(s) + 1] = m
         /\ Append(s, m) # << >>
OBVIOUS

(* A new message in the datagram being filled keeps the type invariant.    *)
LEMMA PutKeepsTypes ==
  ASSUME TypeInv, NEW m \in Message, skb.size + m.len <= DgramMax,
         kernel = "dumping",
         skb' = Put(skb, m), stream' = Append(stream, m),
         kernel' = "finished" \/ (kernel' = kernel /\ Len(stream) < MaxMsgs),
         UNCHANGED << queue, cvars >>
  PROVE  TypeInv'
<1>1. Len(stream) <= MaxMsgs /\ Len(stream) \in Nat /\ MaxMsgs \in Nat
  BY ClientAssumption DEF TypeInv, TypeOK, KernelOrder
<1>2. /\ stream' \in Seq(Message) /\ Len(stream') = Len(stream) + 1
      /\ stream' # << >>
  BY AppendFacts DEF TypeInv, TypeOK
<1>3. /\ skb' \in Datagram
      /\ \A o \in 0 .. DgramMax - 1 : skb'.at[o] <= Len(stream')
  <2>1. skb' \in Datagram
    BY <1>1, PutFacts DEF TypeInv
  <2>2. ASSUME NEW o \in 0 .. DgramMax - 1
        PROVE  skb'.at[o] <= Len(stream')
    <3>1. CASE o = skb.size
      BY <1>1, <1>2, <3>1, PutFacts DEF TypeInv
    <3>2. CASE o # skb.size
      <4>1. skb'.at[o] = skb.at[o] /\ skb.at[o] <= Len(stream) /\ skb.at[o] \in Nat
        BY <1>1, <3>2, PutFacts, DatagramFacts DEF TypeInv, TypeOK, Known
      <4> QED
        BY <1>1, <1>2, <4>1
    <3> QED
      BY <3>1, <3>2
  <2> QED
    BY <2>1, <2>2
<1>4. TypeOK'
  BY <1>1, <1>2, <1>3 DEF TypeInv, TypeOK, cvars
<1>5. Known'
  <2>1. \A i \in 1 .. Len(queue) : \A o \in 0 .. DgramMax - 1 : queue[i].at[o] <= Len(stream')
    <3> SUFFICES ASSUME NEW i \in 1 .. Len(queue), NEW o \in 0 .. DgramMax - 1
                 PROVE  queue[i].at[o] <= Len(stream')
      OBVIOUS
    <3>1. queue[i].at[o] \in Nat
      <4>1. queue[i] \in Datagram
        BY DEF TypeInv, TypeOK
      <4> QED
        BY <4>1, DatagramFacts
    <3> QED
      BY <3>1, <1>1, <1>2 DEF TypeInv, Known
  <2>2. \A o \in 0 .. BufLen - 1 : rbuf[o] <= Len(stream')
    BY <1>1, <1>2, ClientAssumption DEF TypeInv, TypeOK, Known, Number
  <2> QED
    BY <1>3, <2>1, <2>2 DEF Known, cvars
<1>6. KernelOrder'
  BY <1>1, <1>2 DEF TypeInv, KernelOrder, cvars
<1> QED
  BY <1>4, <1>5, <1>6 DEF TypeInv

THEOREM TypeInductive ==
  /\ Init => TypeInv
  /\ TypeInv /\ [Next]_vars => TypeInv'
<1>1. Init => TypeInv
  BY NoDataFacts, ClientAssumption
  DEF Init, TypeInv, TypeOK, Known, KernelOrder, Number, Stopped
<1>2. TypeInv /\ [Next]_vars => TypeInv'
  <2> SUFFICES ASSUME TypeInv, [Next]_vars PROVE TypeInv'
    OBVIOUS
  <2>1. CASE KPut
    <3>1. PICK m \in Msgs : /\ skb.size + m.len <= DgramMax
                            /\ skb' = Put(skb, m)
                            /\ stream' = Append(stream, m)
      BY <2>1 DEF KPut
    <3> QED
      BY <2>1, <3>1, PutKeepsTypes, ClientAssumption DEF KPut
  <2>2. CASE KDone
    BY <2>2, PutKeepsTypes, ClientAssumption DEF KDone
  <2>3. CASE KRefuse
    <3>1. skb.size = 0 /\ stream' = Append(stream, ErrorMsg)
      BY <2>3 DEF KRefuse, TypeInv, KernelOrder
    <3>2. skb.size + ErrorMsg.len <= DgramMax
      BY <3>1, MessageFacts, ClientAssumption
    <3> QED
      BY <2>3, <3>1, <3>2, PutKeepsTypes, ClientAssumption DEF KRefuse
  <2>4. CASE KFlush
    <3>1. queue' \in Seq(Datagram) /\ Len(queue') = Len(queue) + 1
      BY <2>4, AppendFacts DEF KFlush, TypeInv, TypeOK
    <3>2. TypeOK'
      BY <2>4, <3>1, NoDataFacts, ClientAssumption DEF KFlush, TypeInv, TypeOK, cvars
    <3>3. Known'
      <4>1. \A i \in 1 .. Len(queue') : queue'[i] = IF i <= Len(queue) THEN queue[i] ELSE skb
        BY <2>4, <3>1, AppendFacts DEF KFlush, TypeInv, TypeOK
      <4>2. \A o \in 0 .. DgramMax - 1 : skb'.at[o] <= Len(stream)
        BY <2>4, NoDataFacts DEF KFlush, TypeInv, TypeOK
      <4> QED
        BY <2>4, <3>1, <4>1, <4>2 DEF KFlush, TypeInv, TypeOK, Known, cvars
    <3>4. KernelOrder'
      BY <2>4, NoDataFacts DEF KFlush, TypeInv, KernelOrder, cvars
    <3> QED
      BY <3>2, <3>3, <3>4 DEF TypeInv
  <2>5. CASE Request
    BY <2>5 DEF Request, TypeInv, TypeOK, Known, KernelOrder
  <2>6. CASE SocketError \/ Unopened
    BY <2>6 DEF SocketError, Unopened, TypeInv, TypeOK, Known, KernelOrder, kvars, Stopped
  <2>7. CASE Recv
    <3>1. /\ Head(queue) \in Datagram /\ Head(queue) = queue[1] /\ 1 \in 1 .. Len(queue)
          /\ queue' \in Seq(Datagram) /\ Len(queue') = Len(queue) - 1
          /\ \A i \in 1 .. Len(queue') : queue'[i] = queue[i + 1] /\ i + 1 \in 1 .. Len(queue)
      BY <2>7 DEF Recv, TypeInv, TypeOK
    <3>2. Received(Head(queue)) \in 0 .. BufLen /\ Received(Head(queue)) <= DgramMax
      BY <3>1, ClientAssumption DEF Received, Datagram
    <3>3. \A o \in 0 .. BufLen - 1 : rbuf'[o] \in Number /\ rbuf'[o] <= Len(stream)
      BY <2>7, <3>1, <3>2, ClientAssumption
      DEF Recv, Overlay, TypeInv, TypeOK, Known, Datagram
    <3>4. rbuf' \in [0 .. BufLen - 1 -> Number]
      BY <2>7, <3>3 DEF Recv, Overlay
    <3>5. TypeOK'
      <4>1. Len(queue') <= QueueMax
        BY <3>1, ClientAssumption DEF TypeInv, TypeOK
      <4>2. size' \in 0 .. BufLen
        BY <2>7, <3>2 DEF Recv
      <4>3. /\ kernel' = kernel /\ stream' = stream /\ skb' = skb
            /\ offset' = offset /\ handled' = handled /\ pc' = "decode"
        BY <2>7 DEF Recv, kvars
      <4> QED
        BY <3>1, <3>4, <4>1, <4>2, <4>3 DEF TypeInv, TypeOK
    <3>6. Known'
      BY <2>7, <3>1, <3>3 DEF Recv, TypeInv, Known, kvars
    <3> QED
      BY <2>7, <3>5, <3>6 DEF Recv, TypeInv, KernelOrder, kvars
  <2>8. ASSUME pc = "decode", Framed
        PROVE  /\ Current \in 1 .. MaxMsgs + 1 /\ Current \in 1 .. Len(stream)
               /\ Append(handled, Current) \in Seq(1 .. MaxMsgs + 1)
               /\ offset + stream[Current].len \in 0 .. BufLen
    <3>1. Current \in 1 .. MaxMsgs + 1 /\ Current \in 1 .. Len(stream)
      BY <2>8, ClientAssumption DEF Framed, Current, TypeInv, TypeOK, Known, Number
    <3>2. stream[Current] \in Message
      BY <3>1 DEF TypeInv, TypeOK
    <3> QED
      BY <2>8, <3>1, <3>2, MessageFacts, AppendFacts, ClientAssumption DEF Framed, TypeInv, TypeOK
  <2>9. CASE Handle
    <3>1. offset' \in 0 .. BufLen /\ pc' \in {"recv", "decode"}
      BY <2>8, <2>9, ClientAssumption DEF Handle, NextOffset
    <3> QED
      BY <2>8, <2>9, <3>1 DEF Handle, TypeInv, TypeOK, Known, KernelOrder, kvars
  <2>10. CASE Return
    <3>1. pc' \in Stopped
      BY <2>10 DEF Return, Ending, Stopped
    <3> QED
      BY <2>8, <2>10, <3>1 DEF Return, TypeInv, TypeOK, Known, KernelOrder, kvars, Stopped
  <2>11. CASE Panic
    BY <2>11 DEF Panic, TypeInv, TypeOK, Known, KernelOrder, kvars, Stopped
  <2>12. CASE UNCHANGED vars
    BY <2>12 DEF vars, kvars, cvars, TypeInv, TypeOK, Known, KernelOrder
  <2> QED
    BY <2>1, <2>2, <2>3, <2>4, <2>5, <2>6, <2>7, <2>9, <2>10, <2>11, <2>12
    DEF Next, Kernel, Client
<1> QED
  BY <1>1, <1>2

(* Whatever the sizes of buffers and datagrams, the variables keep their   *)
(* types: offset never leaves receive_buffer, so that the slice            *)
(* &receive_buffer[offset..] never panics by itself.                       *)
THEOREM TypeCorrect == Spec => []TypeOK
<1>1. Spec => []TypeInv
  BY TypeInductive, PTL DEF Spec
<1> QED
  BY <1>1, PTL DEF TypeInv
-----------------------------------------------------------------------------
(***************************************************************************)
(* What is in flight at the kernel: one chain, whatever the client does.   *)
(***************************************************************************)
(* Messages that are sent later do not disturb a chain.                    *)
LEMMA ChainedStable ==
  ASSUME NEW s \in Seq(Message), NEW t \in Seq(Message),
         Len(s) <= Len(t), \A i \in 1 .. Len(s) : t[i] = s[i],
         NEW at, NEW n \in Nat, NEW next,
         \A o \in 0 .. n - 1 : at[o] \in 0 .. Len(s),
         Chained(s, at, n, next)
  PROVE  Chained(t, at, n, next)
<1> SUFFICES ASSUME NEW o \in 0 .. n - 1, at[o] # 0
             PROVE  End(t, at, o) = End(s, at, o)
  BY DEF Chained
<1>1. at[o] \in 1 .. Len(s)
  OBVIOUS
<1> QED
  BY <1>1 DEF End

(* The links of a chain, for a word whose message ends inside it.           *)
LEMMA LinkInside ==
  ASSUME NEW x \in Nat, NEW e \in Nat, x < e, NEW A, A, NEW B
  PROVE  x <= e /\ (x < e => A) /\ (x = e => B)
OBVIOUS

(* A message put behind the last one continues the chain.                  *)
LEMMA ChainedPut ==
  ASSUME NEW s \in Seq(Message), NEW t \in Seq(Message),
         Len(t) = Len(s) + 1, \A i \in 1 .. Len(s) : t[i] = s[i],
         NEW at \in [0 .. DgramMax - 1 -> Nat], NEW n \in 0 .. DgramMax - 1,
         NEW e \in Nat, e = n + t[Len(s) + 1].len, e <= DgramMax,
         \A o \in 0 .. DgramMax - 1 : at[o] <= Len(s),
         \A o \in n .. DgramMax - 1 : at[o] = 0,
         n > 0 => Chained(s, at, n, Len(s) + 1),
         NEW bt \in [0 .. DgramMax - 1 -> Nat],
         bt[n] = Len(s) + 1,
         \A o \in 0 .. DgramMax - 1 : o # n => bt[o] = at[o]
  PROVE  Chained(t, bt, e, Len(s) + 2)
<1>0. t[Len(s) + 1].len \in Nat /\ n < e /\ DgramMax \in Nat /\ n \in Nat /\ Len(s) \in Nat
  <2>1. t[Len(s) + 1] \in Message
    OBVIOUS
  <2> QED
    BY <2>1, MessageFacts, ClientAssumption
<1>1. ASSUME NEW o \in 0 .. e - 1, bt[o] # 0
      PROVE  /\ End(t, bt, o) <= e
             /\ End(t, bt, o) < e => bt[End(t, bt, o)] = bt[o] + 1
             /\ End(t, bt, o) = e => Len(s) + 2 = bt[o] + 1
  <2>1. o \in 0 .. DgramMax - 1
    BY <1>0
  <2>2. CASE o = n
    <3>1. End(t, bt, o) = e
      BY <2>2 DEF End
    <3>2. bt[o] = Len(s) + 1
      BY <2>2
    <3>3. \A x \in Nat : x <= x /\ ~(x < x) /\ x + 2 = (x + 1) + 1
      OBVIOUS
    <3>4. e <= e /\ ~(e < e)
      BY <3>3
    <3>5. Len(s) + 2 = bt[o] + 1
      BY <1>0, <3>2, <3>3
    <3> QED
      BY <3>1, <3>4, <3>5
  <2>3. CASE o > n
    <3>1. o \in n .. DgramMax - 1 /\ o # n
      BY <1>0, <2>1, <2>3
    <3>2. bt[o] = at[o] /\ at[o] = 0
      BY <2>1, <3>1
    <3> QED
      BY <1>1, <3>2
  <2>4. CASE o < n
    <3>1. bt[o] = at[o] /\ at[o] \in 1 .. Len(s)
      <4>1. o # n
        BY <1>0, <2>1, <2>4
      <4>2. bt[o] = at[o] /\ at[o] \in Nat /\ at[o] <= Len(s)
        BY <2>1, <4>1
      <4>3. at[o] # 0
        BY <1>1, <4>2
      <4> QED
        BY <1>0, <4>2, <4>3
    <3>2. End(t, bt, o) = End(s, at, o)
      BY <3>1 DEF End
    <3>3. /\ End(s, at, o) <= n
          /\ End(s, at, o) < n => at[End(s, at, o)] = at[o] + 1
          /\ End(s, at, o) = n => Len(s) + 1 = at[o] + 1
      <4>1. o \in 0 .. n - 1 /\ n > 0
        BY <1>0, <2>1, <2>4
      <4>2. at[o] # 0
        BY <3>1
      <4> QED
        BY <4>1, <4>2 DEF Chained
    <3>4. End(s, at, o) \in Nat
      <4>1. s[at[o]] \in Message
        BY <3>1
      <4>2. s[at[o]].len \in Nat
        BY <4>1, MessageFacts
      <4> QED
        BY <4>2 DEF End
    <3>5. CASE End(s, at, o) < n
      <4>1. bt[End(s, at, o)] = at[End(s, at, o)]
        BY <1>0, <3>4, <3>5
      <4>2. bt[End(t, bt, o)] = bt[o] + 1
        BY <3>1, <3>2, <3>3, <3>5, <4>1
      <4>3. End(t, bt, o) \in Nat /\ End(t, bt, o) < e
        BY <1>0, <3>2, <3>4, <3>5
      <4> QED
        BY <4>2, <4>3, LinkInside
    <3>6. CASE End(s, at, o) = n
      <4>1. bt[End(t, bt, o)] = Len(s) + 1 /\ bt[o] + 1 = Len(s) + 1
        BY <3>1, <3>2, <3>3, <3>6
      <4>2. End(t, bt, o) \in Nat /\ End(t, bt, o) < e
        BY <1>0, <3>2, <3>6
      <4>3. bt[End(t, bt, o)] = bt[o] + 1
        BY <4>1
      <4> QED
        BY <4>2, <4>3, LinkInside
    <3> QED
      BY <1>0, <3>3, <3>4, <3>5, <3>6
  <2> QED
    BY <1>0, <2>2, <2>3, <2>4
<1> QED
  BY <1>1 DEF Chained
(* A message put into the datagram being filled: what begins in front of   *)
(* it begins where it did.                                                 *)
LEMMA PutKeepsKernel ==
  ASSUME TypeInv, KernelChained, NEW m \in Message, skb.size + m.len <= DgramMax,
         kernel = "dumping",
         skb' = Put(skb, m), stream' = Append(stream, m), queue' = queue
  PROVE  /\ KernelChained'
         /\ \A i \in 1 .. Len(queue) + 1 : Ahead(i)' = Ahead(i)
<1>1. /\ Len(stream) \in Nat /\ Len(stream) <= MaxMsgs
      /\ stream \in Seq(Message) /\ stream' \in Seq(Message)
      /\ Len(stream') = Len(stream) + 1
      /\ \A i \in 1 .. Len(stream) : stream'[i] = stream[i]
      /\ stream'[Len(stream) + 1] = m
  BY AppendFacts DEF TypeInv, TypeOK, KernelOrder
<1>2. /\ skb' \in Datagram
      /\ skb'.size = skb.size + m.len
      /\ skb'.at[skb.size] = Len(stream) + 1
      /\ \A o \in 0 .. DgramMax - 1 : o # skb.size => skb'.at[o] = skb.at[o]
      /\ skb.size \in 0 .. DgramMax - 1
  BY <1>1, PutFacts DEF TypeInv
<1>3. m.len \in Nat /\ 0 < m.len /\ skb'.size \in Nat /\ skb'.size > 0 /\ DgramMax \in Nat
  BY <1>2, MessageFacts, ClientAssumption
<1>4. /\ skb.at \in [0 .. DgramMax - 1 -> Nat] /\ skb'.at \in [0 .. DgramMax - 1 -> Nat]
      /\ \A o \in 0 .. DgramMax - 1 : skb.at[o] <= Len(stream)
  <2>1. skb \in Datagram /\ Known
    BY DEF TypeInv, TypeOK
  <2>2. ASSUME NEW d \in Datagram PROVE d.at \in [0 .. DgramMax - 1 -> Nat]
    BY ClientAssumption DEF Datagram, Number
  <2> QED
    BY <1>2, <2>1, <2>2 DEF Known
<1>5. SkbChained'
  <2>1. \A o \in skb'.size .. DgramMax - 1 : skb'.at[o] = 0
    <3> SUFFICES ASSUME NEW o \in skb'.size .. DgramMax - 1 PROVE skb'.at[o] = 0
      OBVIOUS
    <3>1. o \in 0 .. DgramMax - 1 /\ o # skb.size /\ o \in skb.size .. DgramMax - 1
      BY <1>2, <1>3
    <3> QED
      BY <1>2, <3>1 DEF KernelChained, SkbChained
  <2>2. skb'.at[0] # 0
    <3>1. CASE skb.size = 0
      BY <1>1, <1>2, <3>1
    <3>2. CASE skb.size > 0
      <4>1. skb'.at[0] = skb.at[0]
        BY <1>2, <3>2, ClientAssumption
      <4> QED
        BY <3>2, <4>1 DEF KernelChained, SkbChained
    <3> QED
      BY <1>2, <3>1, <3>2
  <2>3. Chained(stream', skb'.at, skb'.size, Len(stream) + 2)
    <3>1. \A o \in skb.size .. DgramMax - 1 : skb.at[o] = 0
      BY DEF KernelChained, SkbChained
    <3>2. skb.size > 0 => Chained(stream, skb.at, skb.size, Len(stream) + 1)
      BY DEF KernelChained, SkbChained
    <3>3. skb'.size = skb.size + stream'[Len(stream) + 1].len /\ skb'.size <= DgramMax
      BY <1>1, <1>2
    <3>4. /\ stream'[Len(stream) + 1] = m
          /\ \A i \in 1 .. Len(stream) : stream'[i] = stream[i]
          /\ \A o \in 0 .. DgramMax - 1 : o # skb.size => skb'.at[o] = skb.at[o]
      BY <1>1, <1>2
    <3>5. /\ stream \in Seq(Message) /\ stream' \in Seq(Message)
          /\ Len(stream') = Len(stream) + 1
          /\ skb.size \in 0 .. DgramMax - 1 /\ skb'.size \in Nat
          /\ skb'.at[skb.size] = Len(stream) + 1
      BY <1>1, <1>2, <1>3
    <3> QED
      BY ONLY <1>4, <3>1, <3>2, <3>3, <3>4, <3>5, ChainedPut
  <2>4. Len(stream') + 1 = Len(stream) + 2
    BY <1>1
  <2> QED
    BY <2>1, <2>2, <2>3, <2>4 DEF SkbChained
<1>6. \A i \in 1 .. Len(queue) + 1 : Ahead(i)' = Ahead(i)
  <2> SUFFICES ASSUME NEW i \in 1 .. Len(queue) + 1 PROVE Ahead(i)' = Ahead(i)
    OBVIOUS
  <2>1. queue' = queue
    OBVIOUS
  <2>2. CASE i <= Len(queue)
    BY <2>1, <2>2 DEF Ahead
  <2>3. CASE ~(i <= Len(queue)) /\ skb.size > 0
    <3>1. skb'.at[0] = skb.at[0]
      BY <1>2, <2>3, ClientAssumption
    <3> QED
      BY <1>3, <2>1, <2>3, <3>1 DEF Ahead
  <2>4. CASE ~(i <= Len(queue)) /\ ~(skb.size > 0)
    <3>1. skb.size = 0
      BY <1>2, <2>4
    <3> QED
      BY <1>2, <1>3, <2>1, <2>4, <3>1 DEF Ahead
  <2> QED
    BY <2>2, <2>3, <2>4
<1>7. QueueChained'
  <2> SUFFICES ASSUME NEW i \in 1 .. Len(queue)
               PROVE  /\ queue[i].size > 0 /\ queue[i].at[0] # 0
                      /\ Chained(stream', queue[i].at, queue[i].size, Ahead(i + 1)')
    BY DEF QueueChained
  <2>1. /\ queue[i].size > 0 /\ queue[i].at[0] # 0
        /\ Chained(stream, queue[i].at, queue[i].size, Ahead(i + 1))
    BY DEF KernelChained, QueueChained
  <2>2. Ahead(i + 1)' = Ahead(i + 1)
    <3>1. i + 1 \in 1 .. Len(queue) + 1
      BY DEF TypeInv, TypeOK
    <3> QED
      BY <1>6, <3>1
  <2>3. queue[i] \in Datagram
    BY DEF TypeInv, TypeOK
  <2>4. queue[i].size \in Nat /\ \A o \in 0 .. queue[i].size - 1 : queue[i].at[o] \in 0 .. Len(stream)
    <3>1. /\ queue[i].size \in Nat /\ queue[i].size <= DgramMax
          /\ \A o \in 0 .. DgramMax - 1 : queue[i].at[o] \in Nat
      BY <2>3, DatagramFacts
    <3>2. \A o \in 0 .. DgramMax - 1 : queue[i].at[o] <= Len(stream)
      BY DEF TypeInv, Known
    <3>3. ASSUME NEW o \in 0 .. queue[i].size - 1 PROVE o \in 0 .. DgramMax - 1
      BY <1>3, <3>1
    <3> QED
      BY <1>1, <3>1, <3>2, <3>3
  <2>5. Chained(stream', queue[i].at, queue[i].size, Ahead(i + 1))
    <3>1. Len(stream) <= Len(stream')
      BY <1>1
    <3> QED
      BY <1>1, <2>1, <2>4, <3>1, ChainedStable
  <2> QED
    BY <2>1, <2>2, <2>5
<1> QED
  BY <1>5, <1>6, <1>7 DEF KernelChained

(* The datagram being filled goes behind the queue.                        *)
LEMMA FlushKeepsKernel ==
  ASSUME TypeInv, KernelChained, KFlush
  PROVE  /\ KernelChained'
         /\ \A i \in 1 .. Len(queue) + 1 : Ahead(i)' = Ahead(i)
         /\ \A i \in Nat : i > Len(queue') => Ahead(i)' = Len(stream) + 1
<1>1. /\ skb \in Datagram /\ queue \in Seq(Datagram) /\ Len(queue) \in Nat
      /\ skb.size \in Nat /\ skb.size > 0
      /\ queue' = Append(queue, skb) /\ skb' = NoData
      /\ UNCHANGED << kernel, stream, pc, rbuf, size, offset, handled >>
  BY DatagramFacts DEF KFlush, TypeInv, TypeOK, cvars
<1>2. /\ Len(queue') = Len(queue) + 1
      /\ \A i \in 1 .. Len(queue) : queue'[i] = queue[i]
      /\ queue'[Len(queue) + 1] = skb
  BY <1>1, AppendFacts
<1>3. \A i \in 1 .. Len(queue) + 1 : Ahead(i)' = Ahead(i)
  <2> SUFFICES ASSUME NEW i \in 1 .. Len(queue) + 1 PROVE Ahead(i)' = Ahead(i)
    OBVIOUS
  <2>1. Ahead(i)' = queue'[i].at[0]
    BY <1>1, <1>2 DEF Ahead
  <2>2. CASE i \in 1 .. Len(queue)
    BY <1>1, <1>2, <2>1, <2>2 DEF Ahead
  <2>3. CASE i = Len(queue) + 1
    BY <1>1, <1>2, <2>1, <2>3 DEF Ahead
  <2> QED
    BY <1>1, <2>2, <2>3
<1>4. \A i \in Nat : i > Len(queue') => Ahead(i)' = Len(stream) + 1
  BY <1>1, <1>2, NoDataFacts DEF Ahead
<1>5. QueueChained'
  <2> SUFFICES ASSUME NEW i \in 1 .. Len(queue')
               PROVE  /\ queue'[i].size > 0 /\ queue'[i].at[0] # 0
                      /\ Chained(stream', queue'[i].at, queue'[i].size, Ahead(i + 1)')
    BY DEF QueueChained
  <2>1. CASE i \in 1 .. Len(queue)
    <3>1. queue'[i] = queue[i] /\ Ahead(i + 1)' = Ahead(i + 1) /\ stream' = stream
      BY <1>1, <1>2, <1>3, <2>1
    <3> QED
      BY <2>1, <3>1 DEF KernelChained, QueueChained
  <2>2. CASE i = Len(queue) + 1
    <3>1. queue'[i] = skb /\ Ahead(i + 1)' = Len(stream) + 1 /\ stream' = stream
      <4>1. i + 1 \in Nat /\ i + 1 > Len(queue')
        BY <1>1, <1>2, <2>2
      <4> QED
        BY <1>1, <1>2, <1>4, <2>2, <4>1
    <3> QED
      BY <1>1, <3>1 DEF KernelChained, SkbChained
  <2> QED
    BY <1>1, <1>2, <2>1, <2>2
<1>6. SkbChained'
  <2>1. /\ skb'.size = 0
        /\ \A o \in 0 .. DgramMax - 1 : skb'.at[o] = 0
    BY <1>1, NoDataFacts
  <2> QED
    BY <2>1 DEF SkbChained
<1> QED
  BY <1>3, <1>4, <1>5, <1>6 DEF KernelChained

-----------------------------------------------------------------------------
(***************************************************************************)
(* Whether or not a datagram fits the receive buffer: the loop never looks *)
(* at stale bytes, nor handles a message twice or out of order.            *)
(***************************************************************************)
(* The numbers of handled messages are naturals.                           *)
LEMMA HandledTypes ==
  ASSUME TypeInv
  PROVE  /\ Len(handled) \in Nat /\ DOMAIN handled = 1 .. Len(handled)
         /\ \A i \in 1 .. Len(handled) : handled[i] \in Nat
         /\ Len(stream) \in Nat /\ Len(queue) \in Nat
<1>1. handled \in Seq(1 .. MaxMsgs + 1) /\ MaxMsgs + 1 \in Nat
  BY ClientAssumption DEF TypeInv, TypeOK
<1> QED
  BY <1>1 DEF TypeInv, TypeOK

(* A longer stream leaves the words of the buffer as they were.            *)
LEMMA WholeStable ==
  ASSUME TypeInv, WholeInside, stream' \in Seq(Message), Len(stream) <= Len(stream'),
         \A i \in 1 .. Len(stream) : stream'[i] = stream[i],
         UNCHANGED << rbuf, size >>
  PROVE  WholeInside'
<1> SUFFICES ASSUME NEW o \in 0 .. size - 1, rbuf[o] # 0
             PROVE  End(stream', rbuf, o) = End(stream, rbuf, o)
  BY DEF WholeInside
<1>1. o \in 0 .. BufLen - 1
  BY ClientAssumption DEF TypeInv, TypeOK
<1>2. rbuf[o] \in 1 .. Len(stream)
  BY <1>1, BufferFacts
<1> QED
  BY <1>2 DEF End

-----------------------------------------------------------------------------
(***************************************************************************)
(* The kernel's steps.                                                     *)
(***************************************************************************)
LEMMA PutKeepsOrder ==
  ASSUME OrderInv, TypeInv', NEW m \in Message, skb.size + m.len <= DgramMax,
         kernel = "dumping",
         skb' = Put(skb, m), stream' = Append(stream, m),
         UNCHANGED << queue, cvars >>
  PROVE  OrderInv'
<1>1. KernelChained' /\ \A i \in 1 .. Len(queue) + 1 : Ahead(i)' = Ahead(i)
  BY PutKeepsKernel DEF OrderInv
<1>2. \A i \in 1 .. Len(queue) : i + 1 \in 1 .. Len(queue) + 1
  BY HandledTypes DEF OrderInv
<1>3. QueueOrdered'
  BY <1>1, <1>2 DEF OrderInv, QueueOrdered
<1>4. ClientOrdered'
  <2>1. Ahead(1)' = Ahead(1)
    BY <1>1, HandledTypes DEF OrderInv
  <2>2. pc = "decode" => WholeInside'
    <3>1. /\ stream' \in Seq(Message) /\ Len(stream) <= Len(stream')
          /\ \A i \in 1 .. Len(stream) : stream'[i] = stream[i]
      BY AppendFacts DEF OrderInv, TypeInv, TypeOK
    <3> QED
      BY <3>1, WholeStable DEF OrderInv, ClientOrdered, cvars
  <2> QED
    BY <2>1, <2>2 DEF OrderInv, ClientOrdered, cvars
<1>5. InOrder'
  BY DEF OrderInv, InOrder, cvars
<1> QED
  BY <1>1, <1>3, <1>4, <1>5 DEF OrderInv

LEMMA FlushKeepsOrder ==
  ASSUME OrderInv, TypeInv', KFlush
  PROVE  OrderInv'
<1>1. /\ KernelChained'
      /\ \A i \in 1 .. Len(queue) + 1 : Ahead(i)' = Ahead(i)
      /\ \A i \in Nat : i > Len(queue') => Ahead(i)' = Len(stream) + 1
  BY FlushKeepsKernel DEF OrderInv
<1>2. /\ Len(queue) \in Nat /\ Len(queue') = Len(queue) + 1
      /\ \A i \in 1 .. Len(queue) : queue'[i] = queue[i]
      /\ queue'[Len(queue) + 1] = skb
      /\ UNCHANGED << stream, pc, rbuf, size, offset, handled >>
  BY AppendFacts DEF KFlush, OrderInv, TypeInv, TypeOK, cvars
<1>3. QueueOrdered'
  <2> SUFFICES ASSUME NEW i \in 1 .. Len(queue')
               PROVE  Below(queue'[i].at, queue'[i].size, Ahead(i + 1)')
    BY DEF QueueOrdered
  <2>1. CASE i \in 1 .. Len(queue)
    <3>1. queue'[i] = queue[i] /\ Ahead(i + 1)' = Ahead(i + 1)
      BY <1>1, <1>2, <2>1
    <3> QED
      BY <2>1, <3>1 DEF OrderInv, QueueOrdered
  <2>2. CASE i = Len(queue) + 1
    <3>1. queue'[i] = skb /\ Ahead(i + 1)' = Len(stream) + 1
      <4>1. i + 1 \in Nat /\ i + 1 > Len(queue')
        BY <1>2, <2>2
      <4> QED
        BY <1>1, <1>2, <2>2, <4>1
    <3>2. ASSUME NEW o \in 0 .. skb.size - 1 PROVE skb.at[o] < Len(stream) + 1
      <4>1. skb \in Datagram /\ Len(stream) \in Nat
        BY DEF OrderInv, TypeInv, TypeOK
      <4>2. o \in 0 .. DgramMax - 1
        BY <4>1, DatagramFacts, ClientAssumption
      <4>3. skb.at[o] <= Len(stream) /\ skb.at[o] \in Nat
        BY <4>1, <4>2, DatagramFacts DEF OrderInv, TypeInv, Known
      <4> QED
        BY <4>1, <4>3
    <3> QED
      BY <3>1, <3>2 DEF Below
  <2> QED
    BY <1>2, <2>1, <2>2
<1>4. ClientOrdered'
  <2>1. Ahead(1)' = Ahead(1)
    BY <1>1, <1>2
  <2> QED
    BY <1>2, <2>1 DEF OrderInv, ClientOrdered, WholeInside
<1>5. InOrder'
  BY <1>2 DEF OrderInv, InOrder
<1> QED
  BY <1>1, <1>3, <1>4, <1>5 DEF OrderInv

-----------------------------------------------------------------------------
(***************************************************************************)
(* The client's steps.                                                     *)
(***************************************************************************)
(* A datagram is received, or the front of one.                            *)
LEMMA RecvKeepsOrder ==
  ASSUME OrderInv, TypeInv', Recv
  PROVE  OrderInv'
<1> DEFINE d == queue[1]
<1>1. /\ queue \in Seq(Datagram) /\ Len(queue) \in Nat \ {0}
      /\ d \in Datagram /\ Head(queue) = d
      /\ Len(queue') = Len(queue) - 1
      /\ \A i \in 1 .. Len(queue') : queue'[i] = queue[i + 1]
      /\ pc = "recv" /\ pc' = "decode"
      /\ UNCHANGED << kernel, stream, skb, offset, handled >>
      /\ 1 \in 1 .. Len(queue)
  BY DEF Recv, OrderInv, TypeInv, TypeOK, kvars
<1>2. \A i \in 1 .. Len(queue) : Ahead(i)' = Ahead(i + 1)
  BY <1>1 DEF Ahead
<1>3. /\ d.size \in Nat /\ d.size > 0 /\ d.at[0] # 0
      /\ Chained(stream, d.at, d.size, Ahead(1 + 1))
      /\ Below(d.at, d.size, Ahead(1 + 1))
  BY <1>1, DatagramFacts DEF OrderInv, KernelChained, QueueChained, QueueOrdered
<1>4. /\ size' = Received(d) /\ size' \in Nat /\ 0 < size'
      /\ size' <= d.size /\ size' <= BufLen
      /\ size' < d.size => size' = BufLen
  BY <1>1, <1>3, ClientAssumption DEF Recv, Received
<1>5. \A o \in 0 .. size' - 1 : rbuf'[o] = d.at[o]
  <2>1. rbuf' = Overlay(d)
    BY <1>1 DEF Recv
  <2>2. \A o \in 0 .. size' - 1 : o \in 0 .. BufLen - 1 /\ o < size'
    BY <1>4, ClientAssumption
  <2> QED
    BY <1>4, <2>1, <2>2 DEF Overlay
<1>6. KernelChained'
  <2>1. QueueChained'
    <3> SUFFICES ASSUME NEW i \in 1 .. Len(queue')
                 PROVE  /\ queue'[i].size > 0 /\ queue'[i].at[0] # 0
                        /\ Chained(stream', queue'[i].at, queue'[i].size, Ahead(i + 1)')
      BY DEF QueueChained
    <3>1. i + 1 \in 1 .. Len(queue)
      BY <1>1
    <3>2. queue'[i] = queue[i + 1] /\ Ahead(i + 1)' = Ahead((i + 1) + 1) /\ stream' = stream
      BY <1>1, <1>2, <3>1
    <3> QED
      BY <3>1, <3>2 DEF OrderInv, KernelChained, QueueChained
  <2>2. SkbChained'
    BY <1>1 DEF OrderInv, KernelChained, SkbChained
  <2> QED
    BY <2>1, <2>2 DEF KernelChained
<1>7. QueueOrdered'
  <2> SUFFICES ASSUME NEW i \in 1 .. Len(queue')
               PROVE  Below(queue'[i].at, queue'[i].size, Ahead(i + 1)')
    BY DEF QueueOrdered
  <2>1. i + 1 \in 1 .. Len(queue)
    BY <1>1
  <2>2. queue'[i] = queue[i + 1] /\ Ahead(i + 1)' = Ahead((i + 1) + 1)
    BY <1>1, <1>2, <2>1
  <2> QED
    BY <2>1, <2>2 DEF OrderInv, QueueOrdered
<1>8. WholeInside'
  <2> SUFFICES ASSUME NEW o \in 0 .. size' - 1, rbuf'[o] # 0
               PROVE  /\ End(stream', rbuf', o) <= BufLen => End(stream', rbuf', o) <= size'
                      /\ End(stream', rbuf', o) < size' =>
                           rbuf'[End(stream', rbuf', o)] = rbuf'[o] + 1
    BY DEF WholeInside
  <2>1. o \in 0 .. d.size - 1 /\ rbuf'[o] = d.at[o] /\ d.at[o] # 0
    BY <1>3, <1>4, <1>5
  <2>2. End(stream', rbuf', o) = End(stream, d.at, o)
    BY <1>1, <2>1 DEF End
  <2>3. End(stream, d.at, o) \in Nat
    <3>1. o \in 0 .. DgramMax - 1 /\ Len(stream) \in Nat /\ d.at[o] \in Nat
      BY <1>1, <2>1, DatagramFacts, ClientAssumption DEF OrderInv, TypeInv, TypeOK
    <3>2. d.at[o] <= Len(stream)
      BY <1>1, <3>1 DEF OrderInv, TypeInv, Known
    <3>3. d.at[o] \in 1 .. Len(stream)
      BY <2>1, <3>1, <3>2
    <3>4. stream \in Seq(Message)
      BY DEF OrderInv, TypeInv, TypeOK
    <3>5. stream[d.at[o]] \in Message
      BY <3>3, <3>4
    <3>6. stream[d.at[o]].len \in Nat
      BY <3>5, MessageFacts
    <3> QED
      BY <3>6 DEF End
  <2>4. /\ End(stream, d.at, o) <= d.size
        /\ End(stream, d.at, o) < d.size => d.at[End(stream, d.at, o)] = d.at[o] + 1
    BY <1>3, <2>1 DEF Chained
  <2>5. End(stream, d.at, o) <= BufLen => End(stream, d.at, o) <= size'
    BY <1>3, <1>4, <2>3, <2>4
  <2>6. ASSUME End(stream, d.at, o) < size'
        PROVE  rbuf'[End(stream, d.at, o)] = rbuf'[o] + 1
    <3>1. End(stream, d.at, o) < d.size /\ End(stream, d.at, o) \in 0 .. size' - 1
      BY <1>3, <1>4, <2>3, <2>6
    <3>2. rbuf'[End(stream, d.at, o)] = d.at[End(stream, d.at, o)]
      BY <1>5, <3>1
    <3> QED
      BY <2>1, <2>4, <3>1, <3>2
  <2> QED
    BY <2>2, <2>5, <2>6
<1>9. ClientOrdered'
  <2>1. offset = 0 /\ \A i \in 1 .. Len(handled) : handled[i] < Ahead(1)
    BY <1>1 DEF OrderInv, ClientOrdered
  <2>2. Ahead(1) = d.at[0] /\ Ahead(1)' = Ahead(1 + 1)
    BY <1>1, <1>2 DEF Ahead
  <2>3. rbuf'[0] = d.at[0]
    BY <1>4, <1>5
  <2>4. Below(rbuf', size', Ahead(1 + 1))
    <3>1. \A o \in 0 .. size' - 1 : o \in 0 .. d.size - 1
      BY <1>3, <1>4
    <3> QED
      BY <1>3, <1>5, <3>1 DEF Below
  <2>5. UNCHANGED << offset, handled >> /\ pc' = "decode"
    BY <1>1
  <2> QED
    BY <1>3, <1>4, <1>8, <2>1, <2>2, <2>3, <2>4, <2>5 DEF ClientOrdered
<1>10. InOrder'
  BY <1>1 DEF OrderInv, InOrder
<1> QED
  BY <1>6, <1>7, <1>9, <1>10 DEF OrderInv

(* A message that is framed is one of the datagram just received, and      *)
(* behind all that were handled.                                           *)
LEMMA FramedFacts ==
  ASSUME OrderInv, pc = "decode", Framed
  PROVE  /\ Current = rbuf[offset] /\ Current \in 1 .. Len(stream)
         /\ offset \in Nat /\ size \in Nat /\ offset < size
         /\ stream[Current].len \in Nat /\ 0 < stream[Current].len
         /\ \A i \in 1 .. Len(handled) : handled[i] < Current
         /\ offset + stream[Current].len <= size
         /\ offset + stream[Current].len < size =>
              rbuf[offset + stream[Current].len] = Current + 1
         /\ Current < Ahead(1)
<1>1. /\ offset \in Nat /\ size \in Nat /\ offset < size /\ size <= BufLen /\ BufLen \in Nat
      /\ rbuf[offset] # 0
      /\ \A i \in 1 .. Len(handled) : handled[i] < rbuf[offset]
      /\ Below(rbuf, size, Ahead(1)) /\ WholeInside
  BY ClientAssumption DEF OrderInv, TypeInv, TypeOK, ClientOrdered
<1>2. Current = rbuf[offset] /\ offset \in 0 .. BufLen - 1 /\ offset \in 0 .. size - 1
  BY <1>1 DEF Current
<1>3. Current \in 1 .. Len(stream)
  <2>1. rbuf[offset] \in 0 .. Len(stream)
    BY <1>2, BufferFacts DEF OrderInv
  <2> QED
    BY <1>1, <1>2, <2>1
<1>4. stream[Current].len \in Nat /\ 0 < stream[Current].len
  <2>1. stream[Current] \in Message
    BY <1>3 DEF OrderInv, TypeInv, TypeOK
  <2> QED
    BY <2>1, MessageFacts
<1>5. End(stream, rbuf, offset) = offset + stream[Current].len
  BY <1>2 DEF End
<1>6. /\ End(stream, rbuf, offset) <= BufLen => End(stream, rbuf, offset) <= size
      /\ End(stream, rbuf, offset) < size =>
           rbuf[End(stream, rbuf, offset)] = rbuf[offset] + 1
  BY <1>1, <1>2 DEF WholeInside
<1>7. offset + stream[Current].len <= BufLen
  BY DEF Framed
<1>8. Current < Ahead(1)
  BY <1>1, <1>2 DEF Below
<1> QED
  BY <1>1, <1>2, <1>3, <1>4, <1>5, <1>6, <1>7, <1>8

(* The history stays in order when a later message is appended.            *)
LEMMA AppendKeepsOrder ==
  ASSUME OrderInv, pc = "decode", Framed, handled' = Append(handled, Current)
  PROVE  /\ InOrder'
         /\ \A i \in 1 .. Len(handled') : handled'[i] <= Current
<1>1. /\ Current \in 1 .. Len(stream)
      /\ \A i \in 1 .. Len(handled) : handled[i] < Current
  BY FramedFacts
<1>2. handled \in Seq(1 .. MaxMsgs + 1) /\ Current \in 1 .. MaxMsgs + 1
  BY <1>1, ClientAssumption DEF OrderInv, TypeInv, TypeOK
<1>3. /\ Len(handled') = Len(handled) + 1 /\ Len(handled) \in Nat
      /\ \A i \in 1 .. Len(handled) : handled'[i] = handled[i]
      /\ handled'[Len(handled) + 1] = Current
      /\ DOMAIN handled' = 1 .. Len(handled) + 1
      /\ DOMAIN handled = 1 .. Len(handled)
  BY <1>2, AppendFacts
<1>4. \A i \in 1 .. Len(handled) : handled[i] \in Nat
  BY HandledTypes DEF OrderInv
<1>5. ASSUME NEW i \in 1 .. Len(handled) + 1, NEW j \in 1 .. Len(handled) + 1, i < j
      PROVE  handled'[i] < handled'[j]
  <2>1. i \in 1 .. Len(handled) /\ handled'[i] = handled[i]
    BY <1>3, <1>5
  <2>2. CASE j \in 1 .. Len(handled)
    BY <1>3, <1>5, <2>1, <2>2 DEF OrderInv, InOrder
  <2>3. CASE j = Len(handled) + 1
    BY <1>1, <1>3, <2>1, <2>3
  <2> QED
    BY <1>3, <2>2, <2>3
<1>6. ASSUME NEW i \in 1 .. Len(handled) + 1 PROVE handled'[i] <= Current
  <2>1. CASE i \in 1 .. Len(handled)
    BY <1>1, <1>3, <1>4, <2>1
  <2>2. CASE i = Len(handled) + 1
    BY <1>1, <1>3, <2>2
  <2> QED
    BY <1>3, <2>1, <2>2
<1> QED
  BY <1>3, <1>5, <1>6 DEF InOrder

LEMMA DecodeKeepsOrder ==
  ASSUME OrderInv, TypeInv', Handle \/ Return
  PROVE  OrderInv'
<1>1. /\ pc = "decode" /\ Framed /\ handled' = Append(handled, Current)
      /\ UNCHANGED << kernel, stream, skb, queue, rbuf, size >>
  BY DEF Handle, Return, kvars
<1>2. \A i : Ahead(i)' = Ahead(i)
  BY <1>1 DEF Ahead
<1>3. KernelChained' /\ QueueOrdered'
  BY <1>1, <1>2 DEF OrderInv, KernelChained, QueueChained, SkbChained, QueueOrdered
<1>4. /\ InOrder' /\ \A i \in 1 .. Len(handled') : handled'[i] <= Current
      /\ \A i \in 1 .. Len(handled') : handled'[i] \in Nat
      /\ Current \in Nat
  BY <1>1, AppendKeepsOrder, HandledTypes, FramedFacts DEF OrderInv
<1>5. ClientOrdered'
  <2>1. Below(rbuf, size, Ahead(1)) /\ WholeInside /\ Ahead(1) \in Int
    <3>1. Ahead(1) \in Int
      <4>1. /\ skb \in Datagram /\ Len(stream) + 1 \in Nat /\ 0 \in 0 .. DgramMax - 1
            /\ 1 <= Len(queue) => queue[1] \in Datagram
        BY HandledTypes, ClientAssumption DEF OrderInv, TypeInv, TypeOK
      <4>2. ASSUME NEW d \in Datagram PROVE d.at[0] \in Nat
        BY <4>1, DatagramFacts
      <4> QED
        BY <4>1, <4>2 DEF Ahead
    <3> QED
      BY <1>1, <3>1 DEF OrderInv, ClientOrdered
  <2>2. CASE Handle /\ LastOne(stream[Current].len)
    <3>1. pc' = "recv" /\ offset' = 0
      BY <2>2 DEF Handle, NextOffset
    <3>2. Current < Ahead(1)
      BY <1>1, FramedFacts
    <3>3. \A i \in 1 .. Len(handled') : handled'[i] < Ahead(1)
      BY <1>4, <2>1, <3>2
    <3> QED
      BY <1>2, <3>1, <3>3 DEF ClientOrdered
  <2>3. CASE Handle /\ ~LastOne(stream[Current].len)
    <3>1. pc' = "decode" /\ offset' = offset + stream[Current].len
      BY <2>3 DEF Handle, NextOffset
    <3>2. offset' < size /\ rbuf[offset'] = Current + 1
      <4>1. /\ offset \in Nat /\ size \in Nat /\ stream[Current].len \in Nat
            /\ offset + stream[Current].len <= size
            /\ offset + stream[Current].len < size =>
                 rbuf[offset + stream[Current].len] = Current + 1
        BY <1>1, FramedFacts
      <4>2. offset + stream[Current].len # size
        BY <2>3 DEF LastOne
      <4> QED
        BY <3>1, <4>1, <4>2
    <3>3. \A i \in 1 .. Len(handled') : handled'[i] < Current + 1
      BY <1>4
    <3>4. Current + 1 # 0
      BY <1>4
    <3>5. WholeInside'
      BY <1>1, <2>1 DEF WholeInside
    <3> QED
      BY <1>1, <1>2, <2>1, <3>1, <3>2, <3>3, <3>4, <3>5 DEF ClientOrdered
  <2>4. CASE Return
    <3>1. pc' \in Stopped
      BY <2>4 DEF Return, Ending, Stopped
    <3> QED
      BY <3>1 DEF ClientOrdered, Stopped
  <2> QED
    BY <2>2, <2>3, <2>4
<1> QED
  BY <1>3, <1>4, <1>5 DEF OrderInv

-----------------------------------------------------------------------------
THEOREM OrderInductive ==
  /\ Init => OrderInv
  /\ OrderInv /\ [Next]_vars => OrderInv'
<1>1. Init => OrderInv
  <2> SUFFICES ASSUME Init PROVE OrderInv
    OBVIOUS
  <2>1. TypeInv
    BY TypeInductive
  <2>2. KernelChained
    BY NoDataFacts DEF Init, KernelChained, QueueChained, SkbChained
  <2> QED
    BY <2>1, <2>2 DEF Init, OrderInv, QueueOrdered, ClientOrdered, InOrder
<1>2. OrderInv /\ [Next]_vars => OrderInv'
  <2> SUFFICES ASSUME OrderInv, [Next]_vars PROVE OrderInv'
    OBVIOUS
  <2>0. TypeInv'
    BY TypeInductive DEF OrderInv
  <2>1. CASE KPut
    <3>1. PICK m \in Msgs : /\ skb.size + m.len <= DgramMax
                            /\ skb' = Put(skb, m)
                            /\ stream' = Append(stream, m)
      BY <2>1 DEF KPut
    <3>2. m \in Message
      BY ClientAssumption
    <3> QED
      BY <2>0, <2>1, <3>1, <3>2, PutKeepsOrder DEF KPut
  <2>2. CASE KDone
    <3>1. DoneMsg \in Message
      BY ClientAssumption
    <3> QED
      BY <2>0, <2>2, <3>1, PutKeepsOrder DEF KDone
  <2>3. CASE KRefuse
    <3>1. skb.size = 0 /\ stream' = Append(stream, ErrorMsg) /\ ErrorMsg \in Message
      BY <2>3, ClientAssumption DEF KRefuse, OrderInv, TypeInv, KernelOrder
    <3>2. skb.size + ErrorMsg.len <= DgramMax
      BY <3>1, MessageFacts, ClientAssumption
    <3> QED
      BY <2>0, <2>3, <3>1, <3>2, PutKeepsOrder DEF KRefuse
  <2>4. CASE KFlush
    BY <2>0, <2>4, FlushKeepsOrder
  <2>5. CASE Recv
    BY <2>0, <2>5, RecvKeepsOrder
  <2>6. CASE Handle \/ Return
    BY <2>0, <2>6, DecodeKeepsOrder
  <2>7. CASE Request \/ SocketError \/ Unopened \/ Panic \/ UNCHANGED vars
    <3>1. UNCHANGED << stream, skb, queue, rbuf, size, offset, handled >>
      BY <2>7 DEF Request, SocketError, Unopened, Panic, vars, kvars, cvars
    <3>2. KernelChained' /\ QueueOrdered' /\ InOrder'
      BY <3>1 DEF OrderInv, KernelChained, QueueChained, SkbChained, QueueOrdered, Ahead, InOrder
    <3>3. ClientOrdered'
      <4>1. \/ pc = "request" /\ pc' = "recv"
            \/ pc' \in Stopped
            \/ pc' = pc
        BY <2>7 DEF Request, SocketError, Unopened, Panic, vars, cvars, Stopped
      <4> QED
        BY <3>1, <4>1 DEF OrderInv, ClientOrdered, WholeInside, Ahead, Stopped
    <3> QED
      BY <2>0, <3>2, <3>3 DEF OrderInv
  <2> QED
    BY <2>1, <2>2, <2>3, <2>4, <2>5, <2>6, <2>7 DEF Next, Kernel, Client
<1> QED
  BY <1>1, <1>2

(* Cut datagrams or not, every message the loop decodes lies in the        *)
(* datagram just received and is behind all it has handled.                *)
THEOREM NeverStale == Spec => []NothingStale
<1>1. Spec => []OrderInv
  BY OrderInductive, PTL DEF Spec
<1>2. OrderInv => NothingStale
  BY FramedFacts, HandledTypes DEF NothingStale, OrderInv
<1> QED
  BY <1>1, <1>2, PTL

(* Cut datagrams or not, no message is handled twice or out of order.      *)
THEOREM AlwaysInOrder == Spec => []InOrder
<1>1. Spec => []OrderInv
  BY OrderInductive, PTL DEF Spec
<1> QED
  BY <1>1, PTL DEF OrderInv

-----------------------------------------------------------------------------
(***************************************************************************)
(* Headway.  Messages are sent, queued, received and handled in order, so  *)
(* how far each of the four has come is the number of a message, and a     *)
(* step takes one of the four, or the client itself, further.              *)
(***************************************************************************)
(* Only messages that were sent are handled.                               *)
HandledSent == \A i \in 1 .. Len(handled) : handled[i] <= Len(stream)

LEMMA HandledSentInductive ==
  /\ Init => HandledSent
  /\ TypeInv /\ HandledSent /\ [Next]_vars => HandledSent'
<1>1. Init => HandledSent
  BY DEF Init, HandledSent
<1>2. TypeInv /\ HandledSent /\ [Next]_vars => HandledSent'
  <2> SUFFICES ASSUME TypeInv, HandledSent, [Next]_vars PROVE HandledSent'
    OBVIOUS
  <2>0. stream \in Seq(Message) /\ handled \in Seq(1 .. MaxMsgs + 1) /\ Len(stream) \in Nat
    BY DEF TypeInv, TypeOK
  <2>1. ASSUME UNCHANGED handled, stream' \in Seq(Message), Len(stream) <= Len(stream')
        PROVE  HandledSent'
    <3> SUFFICES ASSUME NEW i \in 1 .. Len(handled) PROVE handled[i] <= Len(stream')
      BY <2>1 DEF HandledSent
    <3>1. handled[i] <= Len(stream) /\ handled[i] \in Int
      BY <2>0, ClientAssumption DEF HandledSent
    <3> QED
      BY <2>0, <2>1, <3>1
  <2>2. CASE Kernel
    <3>1. UNCHANGED handled
      BY <2>2 DEF Kernel, KPut, KDone, KRefuse, KFlush, cvars
    <3>2. stream' \in Seq(Message)
      BY TypeInductive DEF TypeInv, TypeOK
    <3>3. CASE KPut
      <4>1. PICK m \in Msgs : stream' = Append(stream, m)
        BY <3>3 DEF KPut
      <4>2. Len(stream) <= Len(stream')
        BY <2>0, <4>1
      <4> QED
        BY <2>1, <3>1, <3>2, <4>2
    <3>4. CASE KDone
      BY <2>0, <2>1, <3>1, <3>2, <3>4 DEF KDone
    <3>5. CASE KRefuse
      BY <2>0, <2>1, <3>1, <3>2, <3>5 DEF KRefuse
    <3>6. CASE KFlush
      BY <2>0, <2>1, <3>1, <3>2, <3>6 DEF KFlush
    <3> QED
      BY <2>2, <3>3, <3>4, <3>5, <3>6 DEF Kernel
  <2>3. CASE Handle \/ Return
    <3>1. pc = "decode" /\ Framed /\ handled' = Append(handled, Current) /\ stream' = stream
      BY <2>3 DEF Handle, Return, kvars
    <3>2. Current \in 1 .. Len(stream)
      BY <2>0, <3>1, BufferFacts, ClientAssumption DEF Framed, Current, TypeInv, TypeOK
    <3>3. Current \in 1 .. MaxMsgs + 1
      BY <3>2, ClientAssumption DEF TypeInv, TypeOK
    <3>4. /\ Len(handled') = Len(handled) + 1 /\ Len(handled) \in Nat
          /\ \A i \in 1 .. Len(handled) : handled'[i] = handled[i]
          /\ handled'[Len(handled) + 1] = Current
      BY <2>0, <3>1, <3>3, AppendFacts
    <3> SUFFICES ASSUME NEW i \in 1 .. Len(handled') PROVE handled'[i] <= Len(stream)
      BY <3>1 DEF HandledSent
    <3>5. CASE i \in 1 .. Len(handled)
      BY <3>4, <3>5 DEF HandledSent
    <3>6. CASE i = Len(handled) + 1
      BY <3>2, <3>4, <3>6
    <3> QED
      BY <3>4, <3>5, <3>6
  <2>4. CASE Request \/ Recv \/ Panic \/ SocketError \/ Unopened \/ UNCHANGED vars
    <3>1. UNCHANGED << handled, stream >>
      BY <2>4 DEF Request, Recv, Panic, SocketError, Unopened, vars, kvars, cvars
    <3> QED
      BY <2>0, <2>1, <3>1
  <2> QED
    BY <2>2, <2>3, <2>4 DEF Next, Client
<1> QED
  BY <1>1, <1>2

LEMMA AheadFacts ==
  ASSUME TypeInv, KernelChained
  PROVE  /\ Len(stream) \in Nat /\ Len(queue) \in Nat
         /\ \A i \in 1 .. Len(queue) + 1 : Ahead(i) \in 1 .. Len(stream) + 1
         /\ skb.size > 0 => skb.at[0] \in 1 .. Len(stream)
         /\ Flushed \in 0 .. Len(stream) /\ Taken \in 0 .. Len(stream)
<1>1. /\ Len(stream) \in Nat /\ Len(queue) \in Nat /\ skb \in Datagram
      /\ \A i \in 1 .. Len(queue) : queue[i] \in Datagram
      /\ 0 \in 0 .. DgramMax - 1
  BY ClientAssumption DEF TypeInv, TypeOK
<1>2. \A d \in Datagram : d.at[0] \in Nat
  BY <1>1, DatagramFacts
<1>3. skb.size > 0 => skb.at[0] \in 1 .. Len(stream)
  <2>1. skb.at[0] <= Len(stream) /\ (skb.size > 0 => skb.at[0] # 0)
    BY <1>1 DEF TypeInv, Known, KernelChained, SkbChained
  <2> QED
    BY <1>1, <1>2, <2>1
<1>4. ASSUME NEW i \in 1 .. Len(queue) + 1 PROVE Ahead(i) \in 1 .. Len(stream) + 1
  <2>1. CASE i <= Len(queue)
    <3>1. i \in 1 .. Len(queue)
      BY <1>1, <2>1
    <3>2. queue[i].at[0] <= Len(stream) /\ queue[i].at[0] # 0 /\ queue[i].at[0] \in Nat
      BY <1>1, <1>2, <3>1 DEF TypeInv, Known, KernelChained, QueueChained
    <3>3. Ahead(i) = queue[i].at[0]
      BY <2>1 DEF Ahead
    <3> QED
      BY <1>1, <3>2, <3>3
  <2>2. CASE ~(i <= Len(queue)) /\ skb.size > 0
    <3>1. Ahead(i) = skb.at[0]
      BY <2>2 DEF Ahead
    <3> QED
      BY <1>1, <1>3, <2>2, <3>1
  <2>3. CASE ~(i <= Len(queue)) /\ ~(skb.size > 0)
    <3>1. Ahead(i) = Len(stream) + 1
      BY <2>3 DEF Ahead
    <3> QED
      BY <1>1, <3>1
  <2> QED
    BY <2>1, <2>2, <2>3
<1>5. Flushed \in 0 .. Len(stream)
  BY <1>1, <1>3 DEF Flushed
<1>6. Taken \in 0 .. Len(stream)
  <2>1. 1 \in 1 .. Len(queue) + 1
    BY <1>1
  <2>2. Ahead(1) \in 1 .. Len(stream) + 1
    BY <1>4, <2>1
  <2> QED
    BY <1>1, <2>2 DEF Taken
<1> QED
  BY <1>1, <1>3, <1>4, <1>5, <1>6

(* Numbers that grow from 1 on are at least as many as their places: the   *)
(* first that were not would follow one that was.                          *)
LEMMA NoMoreThanSent ==
  ASSUME TypeInv, InOrder, HandledSent
  PROVE  Len(handled) \in Nat /\ Len(handled) <= Len(stream)
<1> DEFINE n == Len(handled)
           R == {ss \in Nat \X Nat : ss[1] < ss[2]}
           T == {i \in 1 .. n : handled[i] < i}
<1>1. /\ n \in Nat /\ Len(stream) \in Nat /\ DOMAIN handled = 1 .. n
      /\ \A i \in 1 .. n : handled[i] \in Nat
  BY HandledTypes
<1>2. \A i \in 1 .. n : 1 <= handled[i]
  <2> SUFFICES ASSUME NEW i \in 1 .. n PROVE 1 <= handled[i]
    OBVIOUS
  <2>1. handled \in Seq(1 .. MaxMsgs + 1)
    BY DEF TypeInv, TypeOK
  <2>2. handled[i] \in 1 .. MaxMsgs + 1
    BY <2>1, ElementOfSeq
  <2> QED
    BY <2>2
<1>3. IsWellFoundedOn(R, Nat)
  BY NatLessThanWellFounded DEF OpToRel
<1> HIDE DEF n, R, T
<1>4. T = {}
  <2> SUFFICES ASSUME T # {} PROVE FALSE
    OBVIOUS
  <2>1. T \subseteq Nat
    BY <1>1 DEF T
  <2>2. PICK x \in T : \A y \in T : ~(<< y, x >> \in R)
    BY <1>3, <2>1, WFMin
  <2>3. x \in 1 .. n /\ handled[x] < x /\ handled[x] \in Nat /\ 1 <= handled[x]
    BY <1>1, <1>2, <2>2 DEF T
  <2> DEFINE y == x - 1
  <2>4. y \in 1 .. n /\ y < x /\ y \in Nat
    BY <1>1, <2>3
  <2>5. handled[y] < handled[x] /\ handled[y] \in Nat
    BY <1>1, <2>3, <2>4 DEF InOrder
  <2>6. handled[y] < y
    BY <2>3, <2>5
  <2>7. y \in T
    BY <2>4, <2>6 DEF T
  <2> HIDE DEF y
  <2>8. << y, x >> \in R
    BY <2>3, <2>4 DEF R
  <2> QED
    BY <2>2, <2>7, <2>8
<1>5. n <= Len(stream)
  <2>1. CASE n = 0
    BY <1>1, <2>1
  <2>2. CASE n # 0
    <3>1. n \in 1 .. n
      BY <1>1, <2>2
    <3>2. ~(handled[n] < n) /\ handled[n] <= Len(stream) /\ handled[n] \in Nat
      BY <1>1, <1>4, <3>1 DEF T, HandledSent, n
    <3> QED
      BY <1>1, <3>2
  <2> QED
    BY <2>1, <2>2
<1> QED
  BY <1>1, <1>5 DEF n

(* Where the four stand.                                                   *)
LEMMA ProgressFacts ==
  ASSUME OrderInv, HandledSent
  PROVE  /\ Len(stream) \in Nat /\ Len(handled) \in Nat /\ Len(handled) <= Len(stream)
         /\ Flushed \in Nat /\ Flushed <= Len(stream)
         /\ Taken \in Nat /\ Taken <= Len(stream)
         /\ Phase \in {0, 1, 2}
<1>1. TypeInv /\ KernelChained /\ InOrder
  BY DEF OrderInv
<1>2. /\ Len(stream) \in Nat /\ Flushed \in 0 .. Len(stream) /\ Taken \in 0 .. Len(stream)
  BY <1>1, AheadFacts
<1>3. Len(handled) \in Nat /\ Len(handled) <= Len(stream)
  BY <1>1, NoMoreThanSent
<1>4. Phase \in {0, 1, 2}
  BY DEF Phase
<1> QED
  BY <1>2, <1>3, <1>4

LEMMA PutProgress ==
  ASSUME OrderInv, NEW m \in Message, skb.size + m.len <= DgramMax,
         kernel = "dumping",
         skb' = Put(skb, m), stream' = Append(stream, m),
         UNCHANGED << queue, cvars >>
  PROVE  /\ Len(stream') = Len(stream) + 1
         /\ Flushed' = Flushed /\ Taken' = Taken /\ handled' = handled /\ Phase' = Phase
<1>1. \A i \in 1 .. Len(queue) + 1 : Ahead(i)' = Ahead(i)
  BY PutKeepsKernel DEF OrderInv
<1>2. 1 \in 1 .. Len(queue) + 1
  BY HandledTypes DEF OrderInv
<1>3. Taken' = Taken
  BY <1>1, <1>2 DEF Taken
<1>4. Len(stream') = Len(stream) + 1 /\ Len(stream) \in Nat
  BY AppendFacts DEF OrderInv, TypeInv, TypeOK
<1>5. Flushed' = Flushed
  <2> DEFINE i == Len(queue) + 1
  <2>1. i \in 1 .. Len(queue) + 1 /\ ~(i <= Len(queue))
    BY HandledTypes DEF OrderInv
  <2>2. queue' = queue
    OBVIOUS
  <2>3. Ahead(i)' = (IF skb'.size > 0 THEN skb'.at[0] ELSE Len(stream') + 1)
    BY <2>1, <2>2 DEF Ahead
  <2>4. Ahead(i) = IF skb.size > 0 THEN skb.at[0] ELSE Len(stream) + 1
    BY <2>1 DEF Ahead
  <2>5. Ahead(i)' = Ahead(i)
    BY <1>1, <2>1
  <2> HIDE DEF i
  <2>6. Flushed = Ahead(i) - 1
    BY <1>4, <2>4 DEF Flushed
  <2>7. Flushed' = Ahead(i)' - 1
    BY <1>4, <2>3 DEF Flushed
  <2> QED
    BY <2>5, <2>6, <2>7
<1>6. handled' = handled /\ Phase' = Phase
  BY DEF cvars, Phase
<1> QED
  BY <1>3, <1>4, <1>5, <1>6

LEMMA FlushProgress ==
  ASSUME OrderInv, KFlush
  PROVE  /\ stream' = stream /\ Flushed < Flushed' /\ Flushed \in Nat
         /\ Flushed' = Len(stream)
         /\ Taken' = Taken /\ handled' = handled /\ Phase' = Phase
<1>1. \A i \in 1 .. Len(queue) + 1 : Ahead(i)' = Ahead(i)
  BY FlushKeepsKernel DEF OrderInv
<1>2. 1 \in 1 .. Len(queue) + 1
  BY HandledTypes DEF OrderInv
<1>3. Taken' = Taken
  BY <1>1, <1>2 DEF Taken
<1>4. stream' = stream /\ handled' = handled /\ Phase' = Phase
  BY DEF KFlush, cvars, Phase
<1>5. Flushed' = Len(stream)
  <2>1. skb'.size = 0
    BY NoDataFacts DEF KFlush
  <2> QED
    BY <1>4, <2>1 DEF Flushed
<1>6. Flushed = skb.at[0] - 1 /\ skb.at[0] \in 1 .. Len(stream) /\ Len(stream) \in Nat
  BY AheadFacts DEF KFlush, Flushed, OrderInv
<1> QED
  BY <1>3, <1>4, <1>5, <1>6

(* The first message of the datagram received comes before the first of    *)
(* the next.                                                               *)
LEMMA RecvProgress ==
  ASSUME OrderInv, Recv
  PROVE  /\ stream' = stream /\ Flushed' = Flushed /\ Taken < Taken' /\ Taken' \in Int
         /\ handled' = handled /\ Phase' = Phase
<1>1. /\ stream' = stream /\ skb' = skb /\ handled' = handled
      /\ queue # << >> /\ queue' = Tail(queue) /\ pc = "recv" /\ pc' = "decode"
  BY DEF Recv, kvars
<1>2. /\ queue \in Seq(Datagram) /\ Len(queue) \in Nat /\ 1 <= Len(queue)
      /\ queue[1] \in Datagram
  BY <1>1 DEF OrderInv, TypeInv, TypeOK
<1>3. Ahead(1)' = Ahead(2)
  <2>1. Len(queue') = Len(queue) - 1
    BY <1>1, <1>2
  <2>2. CASE 2 <= Len(queue)
    <3>1. 1 <= Len(queue') /\ queue'[1] = queue[2]
      BY <1>1, <1>2, <2>1, <2>2
    <3> QED
      BY <2>2, <3>1 DEF Ahead
  <2>3. CASE ~(2 <= Len(queue))
    <3>1. ~(1 <= Len(queue'))
      BY <1>2, <2>1, <2>3
    <3> QED
      BY <1>1, <2>3, <3>1 DEF Ahead
  <2> QED
    BY <2>2, <2>3
<1>4. Ahead(1) = queue[1].at[0]
  BY <1>2 DEF Ahead
<1>5. queue[1].at[0] < Ahead(2)
  <2>1. 1 \in 1 .. Len(queue) /\ 1 + 1 = 2
    BY <1>2
  <2>2. queue[1].size > 0 /\ queue[1].size \in Nat
    BY <1>2, <2>1, DatagramFacts DEF OrderInv, KernelChained, QueueChained
  <2>3. Below(queue[1].at, queue[1].size, Ahead(2))
    BY <2>1 DEF OrderInv, QueueOrdered
  <2>4. 0 \in 0 .. queue[1].size - 1
    BY <2>2
  <2> QED
    BY <2>3, <2>4 DEF Below
<1>6. Ahead(1) \in Nat /\ Ahead(2) \in Nat
  <2>1. 1 \in 1 .. Len(queue) + 1 /\ 2 \in 1 .. Len(queue) + 1
    BY <1>2
  <2>2. Ahead(1) \in 1 .. Len(stream) + 1 /\ Ahead(2) \in 1 .. Len(stream) + 1
    BY <2>1, AheadFacts DEF OrderInv
  <2> QED
    BY <2>2
<1>7. Taken < Taken' /\ Taken' \in Int
  BY <1>3, <1>4, <1>5, <1>6 DEF Taken
<1>8. Flushed' = Flushed
  BY <1>1 DEF Flushed
<1>9. Phase' = Phase
  BY <1>1 DEF Phase, Stopped
<1> QED
  BY <1>1, <1>7, <1>8, <1>9

(* Handled, one message more.                                              *)
LEMMA DecodeProgress ==
  ASSUME OrderInv, Handle \/ Return
  PROVE  /\ stream' = stream /\ Flushed' = Flushed /\ Taken' = Taken
         /\ Len(handled') = Len(handled) + 1 /\ Len(handled) \in Nat
         /\ Phase = 1 /\ Phase' \in {1, 2}
<1>1. /\ pc = "decode" /\ Framed /\ handled' = Append(handled, Current)
      /\ UNCHANGED << stream, skb, queue >>
  BY DEF Handle, Return, kvars
<1>2. handled \in Seq(1 .. MaxMsgs + 1) /\ Current \in 1 .. MaxMsgs + 1
  <2>1. Current \in 1 .. Len(stream)
    BY <1>1, FramedFacts
  <2> QED
    BY <2>1, ClientAssumption DEF OrderInv, TypeInv, TypeOK
<1>3. Len(handled') = Len(handled) + 1 /\ Len(handled) \in Nat
  BY <1>1, <1>2, AppendFacts
<1>4. Flushed' = Flushed /\ Taken' = Taken
  BY <1>1 DEF Flushed, Taken, Ahead
<1>5. pc' \in {"recv", "decode"} \cup Stopped
  BY DEF Handle, Return, Ending, Stopped
<1>6. Phase = 1 /\ Phase' \in {1, 2}
  BY <1>1, <1>5 DEF Phase, Stopped
<1> QED
  BY <1>1, <1>3, <1>4, <1>6

LEMMA ClientProgress ==
  ASSUME Request \/ SocketError \/ Unopened \/ Panic
  PROVE  /\ stream' = stream /\ Flushed' = Flushed /\ Taken' = Taken
         /\ handled' = handled /\ Phase < Phase'
<1>1. UNCHANGED << stream, skb, queue, handled >>
  BY DEF Request, SocketError, Unopened, Panic, kvars
<1>2. \/ pc = "request" /\ pc' = "recv"
      \/ pc \in {"request", "recv", "decode"} /\ pc' \in Stopped
  BY DEF Request, SocketError, Unopened, Panic, Stopped
<1>3. Phase < Phase'
  BY <1>2 DEF Phase, Stopped
<1> QED
  BY <1>1, <1>3 DEF Flushed, Taken, Ahead

LEMMA StepProgress ==
  ASSUME OrderInv, HandledSent, Next
  PROVE  Progress < Progress'
<1>1. /\ Len(stream) \in Nat /\ Len(handled) \in Nat /\ Flushed \in Nat
      /\ Taken \in Nat /\ Phase \in {0, 1, 2}
  BY ProgressFacts
<1> USE DEF Progress
<1>2. CASE KPut
  <2>1. PICK m \in Msgs : /\ skb.size + m.len <= DgramMax
                          /\ skb' = Put(skb, m)
                          /\ stream' = Append(stream, m)
    BY <1>2 DEF KPut
  <2>2. m \in Message
    BY ClientAssumption
  <2>3. /\ Len(stream') = Len(stream) + 1
        /\ Flushed' = Flushed /\ Taken' = Taken /\ handled' = handled /\ Phase' = Phase
    BY <1>2, <2>1, <2>2, PutProgress DEF KPut
  <2> QED
    BY <1>1, <2>3
<1>3. CASE KDone
  <2>1. DoneMsg \in Message
    BY ClientAssumption
  <2>2. /\ Len(stream') = Len(stream) + 1
        /\ Flushed' = Flushed /\ Taken' = Taken /\ handled' = handled /\ Phase' = Phase
    BY <1>3, <2>1, PutProgress DEF KDone
  <2> QED
    BY <1>1, <2>2
<1>4. CASE KRefuse
  <2>1. skb.size = 0 /\ stream' = Append(stream, ErrorMsg) /\ ErrorMsg \in Message
    BY <1>4, ClientAssumption DEF KRefuse, OrderInv, TypeInv, KernelOrder
  <2>2. skb.size + ErrorMsg.len <= DgramMax
    BY <2>1, MessageFacts, ClientAssumption
  <2>3. /\ Len(stream') = Len(stream) + 1
        /\ Flushed' = Flushed /\ Taken' = Taken /\ handled' = handled /\ Phase' = Phase
    BY <1>4, <2>1, <2>2, PutProgress DEF KRefuse
  <2> QED
    BY <1>1, <2>3
<1>5. CASE KFlush
  <2>1. /\ stream' = stream /\ Flushed < Flushed' /\ Flushed' = Len(stream)
        /\ Taken' = Taken /\ handled' = handled /\ Phase' = Phase
    BY <1>5, FlushProgress
  <2> QED
    BY <1>1, <2>1
<1>6. CASE Recv
  <2>1. /\ stream' = stream /\ Flushed' = Flushed /\ Taken < Taken' /\ Taken' \in Int
        /\ handled' = handled /\ Phase' = Phase
    BY <1>6, RecvProgress
  <2> QED
    BY <1>1, <2>1
<1>7. CASE Handle \/ Return
  <2>1. /\ stream' = stream /\ Flushed' = Flushed /\ Taken' = Taken
        /\ Len(handled') = Len(handled) + 1 /\ Phase = 1 /\ Phase' \in {1, 2}
    BY <1>7, DecodeProgress
  <2> QED
    BY <1>1, <2>1
<1>8. CASE Request \/ SocketError \/ Unopened \/ Panic
  <2>1. /\ stream' = stream /\ Flushed' = Flushed /\ Taken' = Taken
        /\ handled' = handled /\ Phase < Phase'
    BY <1>8, ClientProgress
  <2>2. Phase' \in {0, 1, 2}
    BY DEF Phase
  <2> QED
    BY <1>1, <2>1, <2>2
<1> QED
  BY <1>2, <1>3, <1>4, <1>5, <1>6, <1>7, <1>8 DEF Next, Kernel, Client

(* Every step of kernel and client is headway, and there are at most four  *)
(* for a message and two more: cut datagrams or not, the loop cannot go    *)
(* round for ever on what it has received.                                 *)
THEOREM AlwaysHeadway == Spec => Headway
<1> DEFINE Inv == OrderInv /\ HandledSent
<1>1. Init => Inv
  BY OrderInductive, HandledSentInductive
<1>2. Inv /\ [Next]_vars => Inv'
  BY OrderInductive, HandledSentInductive DEF OrderInv
<1> DEFINE Bounded == Progress <= 4 * Len(stream) + 2
<1>3. Inv => Bounded
  BY ProgressFacts DEF Progress
<1>4. Inv /\ Bounded' /\ [Next]_vars =>
        [Progress < Progress' /\ Progress' <= 4 * Len(stream') + 2]_vars
  BY StepProgress
<1> QED
  BY <1>1, <1>2, <1>3, <1>4, PTL DEF Spec, Headway
=============================================================================
