---------------------------- MODULE SockDiagCodec ----------------------------
(***************************************************************************)
(* One message through the codec, step by step: the payload of a netlink   *)
(* message is decoded (parse of src/inet/response.rs, src/unix/response.rs,*)
(* src/inet/request.rs, src/unix/request.rs behind src/message.rs), what   *)
(* came out, or a message a program built itself, is sized and emitted     *)
(* into a buffer, and those bytes are decoded again, the way a relay and   *)
(* its peer would do it.                                                   *)
(*                                                                         *)
(* The steps are the iterations of the attribute loops; nothing but the    *)
(* caller's choice of a buffer is nondeterministic.                        *)
(***************************************************************************)
EXTENDS SockDiagMessage

CONSTANTS
  Payloads,   \* what may arrive: [reader, type, bytes, spans], where spans
              \* tells where the sender's attributes begin and end
  Messages,   \* what a program may build: [reader, msg]
  Slacks,     \* allocated length of a buffer minus buffer_len()
  Fills       \* what a buffer may hold before the message is emitted into
              \* it: a sequence of bytes, repeated if it is shorter

Nothing == [variant |-> "none", header |-> << >>, nlas |-> << >>]

(* A buffer byte no emit has written yet.                                  *)
Stale == 256

VARIABLES
  pc,       \* the step that comes next, or how it ended
  reader,   \* the Rust type the program reads and writes with
  type,     \* nlmsg_type of the payload being decoded
  wire,     \* that payload
  spans,    \* where the sender's attributes are in it
  pos,      \* cursor of the NlasIterator
  msg,      \* the message decoded so far, or being emitted
  ends,     \* running sums of buffer_len(): header, first attribute, ...
  buf,      \* the buffer being filled
  k,        \* attributes written to it
  sent      \* the message emitted earlier, if any

vars == << pc, reader, type, wire, spans, pos, msg, ends, buf, k, sent >>

Steps    == {"head", "nlas", "parsed", "size", "alloc", "emitHead", "emitNlas"}
Outcomes == {"refused", "panicked", "delivered"}

Span == [from : Nat, to : Nat]

ASSUME CodecAssumption ==
  /\ \A p \in Payloads : /\ p.reader \in Readers
                         /\ p.type \in Nat
                         /\ p.bytes \in Seq(Byte)
                         /\ p.spans \in Seq(Span)
  /\ \A m \in Messages : /\ m.msg \in Message
                         /\ m.reader \in MessageTypes
                              \cup ({m.msg.variant} \cap Requests)
  /\ Slacks \subseteq Int
  /\ Fills \subseteq Seq(Byte) \ {<< >>}

(* What "spans" are: the sender of a response put its attributes one after *)
(* the other behind the header, each with its length in front and padded;  *)
(* of the end of all this the payload may lack any number of bytes.        *)
SpanEnd(s) == s.from + AlignTo4(s.to - s.from)

SpansTell(p) ==
  LET variant == ReadAs(p.reader, p.type, p.bytes)
      last    == Len(p.spans)
  IN  variant # "none" =>
        /\ variant \in Responses
        /\ p.spans[1].from = HeaderLen(variant)
        /\ \A i \in 1 .. last - 1 : p.spans[i + 1].from = SpanEnd(p.spans[i])
        /\ \A i \in 1 .. last :
             /\ p.spans[i].from + NLA_HEADER_SIZE <= p.spans[i].to
             /\ p.spans[i].from + 2 <= Len(p.bytes) =>
                  NlaLength(p.bytes, p.spans[i].from) = p.spans[i].to - p.spans[i].from
        /\ Len(p.bytes) <= SpanEnd(p.spans[last])

ASSUME SpansAssumption ==
  \A p \in Payloads : p.spans # << >> => SpansTell(p)

-----------------------------------------------------------------------------
(***************************************************************************)
(* Decoding.                                                               *)
(***************************************************************************)
Variant == ReadAs(reader, type, wire)
Header  == ParseHeader(Variant, wire)

HeadOk == Variant # "none" /\ Header.ok

(* An iterator that stops, without an error, at what is not an attribute.  *)
AtEndOrBad(b, p) == ~NlaChecked(b, p)

AtEnd(b, p) == p >= Len(b)

(* An iterator that takes the length in the header for that of the value.  *)
NextNlaShort(b, p) == p + AlignTo4(NlaLength(b, p) - NLA_HEADER_SIZE)

(* The cursor moves past the attribute and its padding.                    *)
NextNla(b, p) == p + AlignTo4(NlaLength(b, p))

NlaHere == ParseNlaValue(msg.variant, NlaType(wire, pos), NlaValue(wire, pos))

NlaOk == NlaChecked(wire, pos) /\ NlaHere.ok

AcceptHead ==
  /\ pc = "head"
  /\ HeadOk
  /\ msg' = [variant |-> Variant, header |-> Header.val, nlas |-> << >>]
  /\ pos' = HeaderLen(Variant)
  /\ pc' = IF Variant \in Responses THEN "nlas" ELSE "parsed"
  /\ UNCHANGED << reader, type, wire, spans, ends, buf, k, sent >>

RefuseHead ==
  /\ pc = "head"
  /\ ~HeadOk
  /\ pc' = "refused"
  /\ UNCHANGED << reader, type, wire, spans, pos, msg, ends, buf, k, sent >>

(* A loop that puts each attribute in front of those it has.               *)
ParseNlaInFront ==
  /\ pc = "nlas"
  /\ ~AtEnd(wire, pos)
  /\ NlaOk
  /\ msg' = [msg EXCEPT !.nlas = << NlaHere.val >> \o @]
  /\ pos' = NextNla(wire, pos)
  /\ UNCHANGED << pc, reader, type, wire, spans, ends, buf, k, sent >>

ParseNla ==
  /\ pc = "nlas"
  /\ ~AtEnd(wire, pos)
  /\ NlaOk
  /\ msg' = [msg EXCEPT !.nlas = Append(@, NlaHere.val)]
  /\ pos' = NextNla(wire, pos)
  /\ UNCHANGED << pc, reader, type, wire, spans, ends, buf, k, sent >>

(* One bad attribute and the `?` of the loop drops the whole response.     *)
RefuseNla ==
  /\ pc = "nlas"
  /\ ~AtEnd(wire, pos)
  /\ ~NlaOk
  /\ pc' = "refused"
  /\ msg' = Nothing
  /\ UNCHANGED << reader, type, wire, spans, pos, ends, buf, k, sent >>

(* A loop that only ends when the cursor lands on the last byte.           *)
ParseEndExactly ==
  /\ pc = "nlas"
  /\ pos = Len(wire)
  /\ pc' = "parsed"
  /\ UNCHANGED << reader, type, wire, spans, pos, msg, ends, buf, k, sent >>

ParseEnd ==
  /\ pc = "nlas"
  /\ AtEnd(wire, pos)
  /\ pc' = "parsed"
  /\ UNCHANGED << reader, type, wire, spans, pos, msg, ends, buf, k, sent >>

-----------------------------------------------------------------------------
(***************************************************************************)
(* Sizing and emitting.                                                    *)
(***************************************************************************)
Total == ends[Len(ends)]

(* The relay's next step, once: what was decoded is to be emitted.  A      *)
(* second decoding is the end of the story.                                *)
Relay ==
  /\ pc = "parsed"
  /\ sent = Nothing
  /\ pc' = "size"
  /\ ends' = << HeaderLen(msg.variant) >>
  /\ UNCHANGED << reader, type, wire, spans, pos, msg, buf, k, sent >>

Deliver ==
  /\ pc = "parsed"
  /\ sent # Nothing
  /\ pc' = "delivered"
  /\ UNCHANGED << reader, type, wire, spans, pos, msg, ends, buf, k, sent >>

(* buffer_len() adds the attributes up one by one.                         *)
SizeNla ==
  /\ pc = "size"
  /\ Len(ends) <= Len(msg.nlas)
  /\ ends' = Append(ends, Total + NlaBufferLen(ValueLen(msg.variant, msg.nlas[Len(ends)])))
  /\ UNCHANGED << pc, reader, type, wire, spans, pos, msg, buf, k, sent >>

SizeEnd ==
  /\ pc = "size"
  /\ Len(ends) = Len(msg.nlas) + 1
  /\ pc' = "alloc"
  /\ UNCHANGED << reader, type, wire, spans, pos, msg, ends, buf, k, sent >>

(* The slice the message is emitted into is as long as the netlink header  *)
(* says: buffer_len() when finalize() has just been called.                *)
Allocate ==
  /\ pc = "alloc"
  /\ \E slack \in Slacks :
       /\ Total + slack >= 0
       /\ buf' = [i \in 1 .. Total + slack |-> Stale]
  /\ pc' = "emitHead"
  /\ k' = 0
  /\ UNCHANGED << reader, type, wire, spans, pos, msg, ends, sent >>

(* A response header goes to buf[..LEN]; a request is copied to the whole  *)
(* buffer, whose length must match.                                        *)
HeadRoomPrefix(variant, b) == Len(b) >= HeaderLen(variant)   \* a prefix copy for all

HeadRoom(variant, b) ==
  IF variant \in Requests THEN Len(b) = HeaderLen(variant) ELSE Len(b) >= HeaderLen(variant)

Write(b, off, bytes) ==
  Slice(b, 0, off) \o bytes \o SubSeq(b, off + Len(bytes) + 1, Len(b))

EmitHead ==
  /\ pc = "emitHead"
  /\ HeadRoom(msg.variant, buf)
  /\ buf' = Write(buf, 0, EmitHeader(msg))
  /\ pc' = "emitNlas"
  /\ UNCHANGED << reader, type, wire, spans, pos, msg, ends, k, sent >>

(* The slice of the attribute must be in the buffer, its length must fit   *)
(* 16 bits, and emit_value must not write more than the value_len() bytes  *)
(* it is given, nor less when it copies to all of them.                    *)
NlaEmittable(a) ==
  LET written == Len(EmitValue(msg.variant, a))
      given   == ValueLen(msg.variant, a)
  IN  /\ ends[k + 2] <= Len(buf)
      /\ NlaFits(given)
      /\ written <= given
      /\ FillsSlice(msg.variant, a) => written = given

(* What is in those bytes then: the rest of them is not touched.           *)
Untouched(n) == [i \in 1 .. n |-> Stale]

ValueSlice(variant, a) ==
  EmitValue(variant, a) \o Untouched(ValueLen(variant, a) - Len(EmitValue(variant, a)))

EmitNla ==
  /\ pc = "emitNlas"
  /\ k < Len(msg.nlas)
  /\ LET a == msg.nlas[k + 1]
     IN  /\ NlaEmittable(a)
         /\ buf' = Write(buf, ends[k + 1],
                         NlaBytes(Kind(msg.variant, a), ValueSlice(msg.variant, a)))
  /\ k' = k + 1
  /\ UNCHANGED << pc, reader, type, wire, spans, pos, msg, ends, sent >>

Panic ==
  /\ \/ pc = "emitHead" /\ ~HeadRoom(msg.variant, buf)
     \/ pc = "emitNlas" /\ k < Len(msg.nlas) /\ ~NlaEmittable(msg.nlas[k + 1])
  /\ pc' = "panicked"
  /\ UNCHANGED << reader, type, wire, spans, pos, msg, ends, buf, k, sent >>

(* The bytes travel to the peer, under the message type of the wrapper.    *)
EmitEnd ==
  /\ pc = "emitNlas"
  /\ k = Len(msg.nlas)
  /\ \E fill \in Fills :
       wire' = [i \in DOMAIN buf |->
                  IF buf[i] = Stale THEN fill[1 + ((i - 1) % Len(fill))] ELSE buf[i]]
  /\ type' = MessageType(reader)
  /\ sent' = msg
  /\ msg' = Nothing
  /\ pos' = 0
  /\ spans' = << >>
  /\ pc' = "head"
  /\ UNCHANGED << reader, ends, buf, k >>

-----------------------------------------------------------------------------
Arrive ==
  \E p \in Payloads :
    /\ reader = p.reader /\ type = p.type /\ wire = p.bytes /\ spans = p.spans
    /\ msg = Nothing /\ ends = << >> /\ pc = "head"

Build ==
  \E m \in Messages :
    /\ reader = m.reader /\ type = 0 /\ wire = << >> /\ spans = << >>
    /\ msg = m.msg /\ ends = << HeaderLen(m.msg.variant) >> /\ pc = "size"

Init ==
  /\ Arrive \/ Build
  /\ pos = 0 /\ buf = << >> /\ k = 0 /\ sent = Nothing

Next ==
  \/ AcceptHead \/ RefuseHead \/ ParseNla \/ RefuseNla \/ ParseEnd
  \/ Relay \/ Deliver \/ SizeNla \/ SizeEnd \/ Allocate
  \/ EmitHead \/ EmitNla \/ Panic \/ EmitEnd

(* The calls are synchronous: once begun, each runs to its end.            *)
Spec == Init /\ [][Next]_vars /\ WF_vars(Next)

-----------------------------------------------------------------------------
(* The types of the variables: in particular every emitter writes bytes.   *)
TypeOK ==
  /\ pc \in Steps \cup Outcomes
  /\ reader \in Readers
  /\ type \in Nat
  /\ wire \in Seq(Byte)
  /\ spans \in Seq(Span)
  /\ pos \in Nat
  /\ {msg, sent} \subseteq Message \cup {Nothing}
  /\ ends \in Seq(Nat)
  /\ buf \in Seq(Byte \cup {Stale})
  /\ k \in Nat

(* Budget of the NlasIterator loops: every attribute costs its header, and *)
(* the cursor never runs past the payload by more than padding, so n bytes *)
(* decode to at most (n - header) / 4 + 1 attributes and the loop ends.    *)
Budget ==
  pc \in {"nlas", "parsed", "delivered"} /\ msg.variant \in Responses =>
    /\ HeaderLen(msg.variant) + NLA_HEADER_SIZE * Len(msg.nlas) <= pos
    /\ pos <= Len(wire) + 3

(* What a value must be like to be parsed as an attribute of its kind: an  *)
(* integer is as long as it is, a structure may have grown, a text is      *)
(* UTF-8, and an unknown attribute is anything.                            *)
InetAcceptable(kind, v) ==
  /\ kind = INET_DIAG_MEMINFO           => Len(v) >= LegacyMemInfoLen
  /\ kind = INET_DIAG_SKMEMINFO         => Len(v) >= MemInfoLen
  /\ kind = INET_DIAG_INFO /\ RichNlas  => Len(v) >= TcpInfoLen
  /\ kind = INET_DIAG_CONG              => IsUtf8(WithoutNul(v))
  /\ kind \in {INET_DIAG_MARK, INET_DIAG_CLASS_ID} => Len(v) = 4
  /\ kind \in {INET_DIAG_TOS, INET_DIAG_TCLASS, INET_DIAG_SHUTDOWN,
               INET_DIAG_PROTOCOL, INET_DIAG_SKV6ONLY} => Len(v) = 1

UnixAcceptable(kind, v) ==
  /\ kind = UNIX_DIAG_NAME     => /\ v # << >>
                                  /\ v[1] = 0 \/ {i \in DOMAIN v : v[i] = 0} = {Len(v)}
  /\ kind = UNIX_DIAG_VFS      => Len(v) >= VfsLen
  /\ kind = UNIX_DIAG_PEER     => Len(v) = 4
  /\ kind = UNIX_DIAG_ICONS    => Len(v) % 4 = 0
  /\ kind = UNIX_DIAG_RQLEN    => Len(v) = 8
  /\ kind = UNIX_DIAG_MEMINFO  => Len(v) >= UnixMemInfoLen
  /\ kind = UNIX_DIAG_SHUTDOWN => Len(v) = 1

Acceptable(variant, ntype, v) ==
  IF variant \in InetVariants
  THEN InetAcceptable(NlaKind(ntype), v) ELSE UnixAcceptable(NlaKind(ntype), v)

(* The sender's attributes, where the sender put them: of the payload some *)
(* of the last may be missing, in part or altogether.                      *)
TypeSent(i)  == NlaType(wire, spans[i].from)
ValueSent(i) == Slice(wire, spans[i].from + NLA_HEADER_SIZE,
                      spans[i].to - (spans[i].from + NLA_HEADER_SIZE))

Begun(i) == spans[i].from < Len(wire)
Whole(i) == spans[i].to <= Len(wire)
Good(i)  == Whole(i) /\ Acceptable(Variant, TypeSent(i), ValueSent(i))

(* Nothing half: what is decoded from a payload cut anywhere, in a receive *)
(* buffer too small for it say, are the attributes of the sender that are  *)
(* whole in it, one for one, each of its type and value; none of them was  *)
(* cut, and none was one that must be refused.                             *)
WholeAttributes ==
  pc = "parsed" /\ spans # << >> =>
    /\ \A i \in DOMAIN spans : Begun(i) => Good(i)
    /\ DOMAIN msg.nlas = {i \in DOMAIN spans : Whole(i)}
    /\ \A i \in DOMAIN msg.nlas :
         msg.nlas[i] = ParseNlaValue(Variant, TypeSent(i), ValueSent(i)).val

(* And nothing is refused that need not be: only a payload too short for   *)
(* its header or read as the wrong thing, an attribute that is cut, or one *)
(* that must be refused.  A structure longer than the crate knows it, from *)
(* a newer kernel, is none of these.                                       *)
RefusedForCause ==
  pc = "refused" /\ spans # << >> =>
    \/ Variant = "none" \/ Len(wire) < HeaderLen(Variant)
    \/ \E i \in DOMAIN spans : Begun(i) /\ ~Good(i)

(* emit panics when and only when its buffer is not the one buffer_len()   *)
(* asked for or an attribute outgrows its 16-bit length: in an exact       *)
(* buffer no emitter of the crate overruns, or falls short of, its slice.  *)
Emittable(m) ==
  /\ IF m.variant \in Requests THEN Len(buf) = Total ELSE Len(buf) >= Total
  /\ \A i \in DOMAIN m.nlas : NlaFits(ValueLen(m.variant, m.nlas[i]))

PanicExactly ==
  /\ pc = "panicked" => ~Emittable(msg)
  /\ sent # Nothing  => Emittable(sent)

(* Every byte up to buffer_len() is written: nothing of what the buffer    *)
(* held before goes out in a padding, between two attributes, or in a      *)
(* value shorter than the value_len() it was given.                        *)
FullyWritten ==
  sent # Nothing => \A i \in 1 .. Total : buf[i] # Stale

(* The messages that come back as they went out: read by the type they     *)
(* were written with, which must not be SockDiagDestroy, nor, for a        *)
(* request, SockDiagMessage; addresses of the family of the header; a      *)
(* Duration of at most 2^32 - 1 whole milliseconds; a path without NUL     *)
(* bytes and not empty; no unknown attribute under the kind of a known     *)
(* one; and in a request no flag that has no name.                         *)
InetStatesNamed(s) == s[1] % 2 = 0 /\ s[2] < 16 /\ s[3] = 0 /\ s[4] = 0
UnixStatesNamed(s) == s[1] \in {0, 2} /\ s[2] \in {0, 4} /\ s[3] = 0 /\ s[4] = 0
ShowNamed(s)       == s[1] < 64 /\ s[2] = 0 /\ s[3] = 0 /\ s[4] = 0

FlagsNamed(m) ==
  CASE m.variant = "InetRequest" -> InetStatesNamed(m.header.states)
    [] m.variant = "UnixRequest" -> /\ UnixStatesNamed(m.header.state_flags)
                                    /\ ShowNamed(m.header.show_flags)
    [] OTHER                     -> TRUE

AddressesAgree(h) ==
  /\ h.family \in {AF_INET, AF_INET6}
  /\ \A a \in {h.socket_id.source_address, h.socket_id.destination_address} :
       Len(a) = IF h.family = AF_INET THEN 4 ELSE 16

KnownKinds(variant) ==
  IF variant \in InetVariants
  THEN {InetKindOf[tag] : tag \in DOMAIN InetKindOf}
  ELSE {UnixKindOf[tag] : tag \in DOMAIN UnixKindOf}

NlaSurvives(variant, a) ==
  CASE a.tag = "Pathname" -> a.val # << >> /\ \A i \in DOMAIN a.val : a.val[i] # 0
    [] a.tag = "Other"    -> NlaKind(a.kind) \notin KnownKinds(variant)
    [] OTHER              -> TRUE

Faithful(program, m) ==
  /\ program = IF m.variant \in Requests THEN m.variant ELSE "SockDiagMessage"
  /\ FlagsNamed(m)
  /\ m.variant \in InetVariants => AddressesAgree(m.header)
  /\ m.variant = "InetResponse" => m.header.timer.duration.beyond = 0
  /\ \A i \in DOMAIN m.nlas : NlaSurvives(m.variant, m.nlas[i])

Survives(m) == Faithful(reader, m)

(* What a program builds comes back unchanged exactly if it Survives; else *)
(* the peer refuses it or reads something else.                            *)
RoundTrip ==
  pc \in {"delivered", "refused"} /\ sent # Nothing /\ Len(buf) = Total =>
    (pc = "delivered" /\ msg = sent) <=> Survives(sent)

(* What was decoded can be relayed, whatever the sender had put in the     *)
(* payload: it is one of the messages that come back as they went out, and *)
(* emit does not panic on it.  There is one exception: a congestion name   *)
(* that fills an attribute and has no NUL, to which emit_value adds one.   *)
(* SockDiagDestroy decodes a payload of type 20 and emits it as type 21,   *)
(* which nothing in the crate decodes.                                     *)
FullName(a) == a.tag = "Congestion" /\ Len(a.val) = U16_MAX - NLA_HEADER_SIZE

DecodedSurvives ==
  pc = "parsed" /\ reader # "SockDiagDestroy" =>
    /\ Survives(msg)
    /\ \A i \in DOMAIN msg.nlas :
         NlaFits(ValueLen(msg.variant, msg.nlas[i])) <=> ~FullName(msg.nlas[i])

(* Whatever a longer buffer holds behind the message, what was sent comes  *)
(* first and unchanged: the peer refuses the left-over bytes, or takes     *)
(* them for more attributes behind those of the sender (4, 0, 99, 0 is an  *)
(* unknown one without a value), but they never touch what was emitted.    *)
SentComesFirst ==
  pc = "delivered" /\ Survives(sent) =>
    /\ msg.variant = sent.variant /\ msg.header = sent.header
    /\ \A i \in DOMAIN sent.nlas : i \in DOMAIN msg.nlas /\ msg.nlas[i] = sent.nlas[i]

(* Decoding, sizing and emitting all come to an end.                       *)
Termination == <>(pc \in Outcomes)

(* Which step of which of the two rounds this is, and what its loop has    *)
(* left to do: bytes to decode, attributes to size, attributes to emit.    *)
Stage ==
  [head |-> 1, nlas |-> 2, parsed |-> 3, size |-> 4, alloc |-> 5, emitHead |-> 6, emitNlas |-> 7,
   refused |-> 8, panicked |-> 8, delivered |-> 8][pc] + (IF sent = Nothing THEN 0 ELSE 7)

Left ==
  CASE pc = "nlas"     -> Len(wire) + 4 - pos
    [] pc = "size"     -> Len(msg.nlas) + 1 - Len(ends)
    [] pc = "emitNlas" -> Len(msg.nlas) - k
    [] OTHER           -> 0

(* No loop goes round without getting on, and none is entered twice: an    *)
(* attribute that claims no length at all would keep the cursor in place.  *)
GetsOn ==
  [][ \/ Stage < Stage'
      \/ Stage = Stage' /\ Left' \in Nat /\ Left' < Left ]_vars

=============================================================================
