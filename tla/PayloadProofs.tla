----------------------------- MODULE PayloadProofs -----------------------------
(***************************************************************************)
(* What is decoded from the payload of a sender that was cut somewhere,    *)
(* and when it is refused.                                                 *)
(***************************************************************************)
EXTENDS SockDiagCodecProofs, WellFoundedInduction

(* What comes of attribute i of the sender, if it was decoded.             *)
Told(i) == Good(i) /\ msg.nlas[i] = ParseNlaValue(Variant, TypeSent(i), ValueSent(i)).val

-----------------------------------------------------------------------------
(***************************************************************************)
(* Cut payloads.  The cursor goes from one attribute of the sender to the  *)
(* next, every one it has passed was whole, and where it stops there is    *)
(* nothing left, or only what is lacking.                                  *)
(***************************************************************************)
AtSpans ==
  spans # << >> =>
    /\ SpansTell([reader |-> reader, type |-> type, bytes |-> wire, spans |-> spans])
    /\ pc \in {"nlas", "parsed"} =>
         /\ ReadAs(reader, type, wire) # "none"
         /\ msg.variant = Variant
         /\ Len(msg.nlas) <= Len(spans)
         /\ \A i \in 1 .. Len(msg.nlas) : Told(i)
         /\ Len(msg.nlas) < Len(spans) => pos = spans[Len(msg.nlas) + 1].from
         /\ Len(msg.nlas) = Len(spans) => pos >= Len(wire)
    /\ pc = "parsed" => pos >= Len(wire)
    /\ RefusedForCause

LEMMA ToldStays ==
  ASSUME UNCHANGED << reader, type, wire, spans >>, NEW i
  PROVE  /\ Begun(i)' = Begun(i) /\ Good(i)' = Good(i) /\ Variant' = Variant
         /\ Told(i) /\ msg'.nlas[i] = msg.nlas[i] => Told(i)'
<1>1. Variant' = Variant /\ TypeSent(i)' = TypeSent(i) /\ ValueSent(i)' = ValueSent(i)
  BY DEF Variant, TypeSent, ValueSent
<1>2. Begun(i)' = Begun(i) /\ Whole(i)' = Whole(i)
  BY DEF Begun, Whole
<1>3. Good(i)' = Good(i)
  BY <1>1, <1>2 DEF Good
<1> QED
  BY <1>1, <1>2, <1>3 DEF Told

(* A header that is there is accepted.                                     *)
LEMMA HeaderAccepted ==
  ASSUME TypeInv, Variant \in Responses, ~(Len(wire) < HeaderLen(Variant))
  PROVE  HeadOk
<1>1. Header = ParseHeader(Variant, wire) /\ Variant # "none"
  BY DEF Header, Responses
<1>2. CASE Variant = "InetResponse"
  <2>1. VariantOf(type, wire) = "InetResponse"
    BY <1>2 DEF Variant, ReadAs, Requests
  <2>2. wire[1] \in {AF_INET, AF_INET6}
    BY <2>1 DEF VariantOf
  <2>3. ParseSocketId(Slice(wire, 4, SocketIdLen), wire[1]).ok
    BY <2>2 DEF ParseSocketId, Ok
  <2>4. ~(Len(wire) < InetResponseHeaderLen) /\ Header = ParseInetHeader(wire)
    BY <1>1, <1>2 DEF ParseHeader, HeaderLen
  <2>5. Header.ok
    BY <2>3, <2>4 DEF ParseInetHeader, Ok
  <2> QED
    BY <1>1, <2>5 DEF HeadOk
<1>3. CASE Variant = "UnixResponse"
  <2>1. ~(Len(wire) < UnixResponseHeaderLen) /\ Header = ParseUnixHeader(wire)
    BY <1>1, <1>3 DEF ParseHeader, HeaderLen
  <2>2. Header.ok
    BY <2>1 DEF ParseUnixHeader, Ok
  <2> QED
    BY <1>1, <2>2 DEF HeadOk
<1> QED
  BY <1>2, <1>3 DEF Responses

(* Each attribute of the sender begins behind the one before, so behind    *)
(* all before: the first that did not would follow another such.           *)
LEMMA SpansInOrder ==
  ASSUME NEW s \in Seq(Span),
         \A i \in 1 .. Len(s) - 1 : s[i + 1].from = SpanEnd(s[i]),
         \A i \in 1 .. Len(s) : s[i].from + 4 <= s[i].to
  PROVE  \A i, j \in 1 .. Len(s) : i < j => s[i].to <= s[j].from
<1> DEFINE n == Len(s)
           R == {ss \in Nat \X Nat : ss[1] < ss[2]}
           T == {j \in 1 .. n : \E i \in 1 .. n : i < j /\ ~(s[i].to <= s[j].from)}
<1>1. n \in Nat
  OBVIOUS
<1>2. ASSUME NEW i \in 1 .. n PROVE s[i].from \in Nat /\ s[i].to \in Nat /\ s[i].from <= s[i].to
  <2>1. s[i] \in Span
    BY <1>2, ElementOfSeq
  <2>2. s[i].from \in Nat /\ s[i].to \in Nat
    BY <2>1 DEF Span
  <2> QED
    BY <2>2
<1>3. ASSUME NEW i \in 1 .. n, i + 1 \in 1 .. n PROVE s[i].to <= s[i + 1].from
  <2>1. s[i].to - s[i].from \in Nat
    BY <1>2
  <2>2. /\ AlignTo4(s[i].to - s[i].from) \in Nat
        /\ s[i].to - s[i].from <= AlignTo4(s[i].to - s[i].from)
    BY <2>1, AlignFacts
  <2>3. s[i + 1].from = s[i].from + AlignTo4(s[i].to - s[i].from)
    BY <1>1, <1>3 DEF SpanEnd
  <2> QED
    BY <2>2, <2>3, <1>2
<1>4. IsWellFoundedOn(R, Nat)
  BY NatLessThanWellFounded DEF OpToRel
<1>5. ASSUME NEW x \in Nat, NEW y \in Nat, y < x PROVE << y, x >> \in R
  BY <1>5
<1> HIDE DEF n, R, T
<1>6. T = {}
  <2> SUFFICES ASSUME T # {} PROVE FALSE
    OBVIOUS
  <2>1. T \subseteq Nat
    BY <1>1 DEF T
  <2>2. PICK x \in T : \A y \in T : ~(<< y, x >> \in R)
    BY <1>4, <2>1, WFMin
  <2>3. PICK i \in 1 .. n : x \in 1 .. n /\ i < x /\ ~(s[i].to <= s[x].from)
    BY <2>2 DEF T
  <2> DEFINE y == x - 1
  <2>4. y \in 1 .. n /\ y + 1 = x /\ y < x /\ y \in Nat /\ x \in Nat
    BY <1>1, <2>3
  <2> HIDE DEF y
  <2>5. s[y].to <= s[x].from
    BY <1>3, <2>3, <2>4
  <2>6. i < y
    BY <1>1, <2>3, <2>4, <2>5
  <2>7. s[i].to <= s[y].from
    <3>1. y \notin T
      BY <1>5, <2>2, <2>4
    <3> QED
      BY <3>1, <2>4, <2>6 DEF T
  <2> QED
    BY <1>2, <2>3, <2>4, <2>5, <2>7
<1> QED
  BY <1>6 DEF T, n

LEMMA SpansFacts ==
  ASSUME TypeInv, spans # << >>, ReadAs(reader, type, wire) # "none",
         SpansTell([reader |-> reader, type |-> type, bytes |-> wire, spans |-> spans])
  PROVE  /\ Len(spans) \in Nat /\ 1 <= Len(spans) /\ DOMAIN spans = 1 .. Len(spans)
         /\ Len(wire) \in Nat
         /\ ReadAs(reader, type, wire) \in Responses
         /\ spans[1].from = HeaderLen(ReadAs(reader, type, wire))
         /\ \A i \in 1 .. Len(spans) - 1 : spans[i + 1].from = SpanEnd(spans[i])
         /\ \A i, j \in 1 .. Len(spans) : i < j => spans[i].to <= spans[j].from
         /\ \A i \in 1 .. Len(spans) :
              /\ spans[i].from \in Nat /\ spans[i].to \in Nat
              /\ spans[i].from + 4 <= spans[i].to
              /\ spans[i].from + 2 <= Len(wire) =>
                   NlaLength(wire, spans[i].from) = spans[i].to - spans[i].from
         /\ Len(wire) <= SpanEnd(spans[Len(spans)])
<1>1. spans \in Seq(Span) /\ wire \in Seq(Byte)
  BY DEF TypeInv, TypeOK
<1>2. Len(spans) \in Nat /\ 1 <= Len(spans) /\ DOMAIN spans = 1 .. Len(spans) /\ Len(wire) \in Nat
  BY <1>1
<1>3. \A i \in 1 .. Len(spans) : spans[i].from \in Nat /\ spans[i].to \in Nat
  <2> SUFFICES ASSUME NEW i \in 1 .. Len(spans)
               PROVE  spans[i].from \in Nat /\ spans[i].to \in Nat
    OBVIOUS
  <2>1. spans[i] \in Span
    BY <1>1, ElementOfSeq
  <2> QED
    BY <2>1 DEF Span
<1>4. /\ \A i \in 1 .. Len(spans) - 1 : spans[i + 1].from = SpanEnd(spans[i])
      /\ \A i \in 1 .. Len(spans) : spans[i].from + 4 <= spans[i].to
  BY DEF SpansTell, NLA_HEADER_SIZE
<1>5. \A i, j \in 1 .. Len(spans) : i < j => spans[i].to <= spans[j].from
  BY <1>1, <1>4, SpansInOrder
<1> QED
  BY <1>2, <1>3, <1>5 DEF SpansTell, NLA_HEADER_SIZE

(* The attribute at the cursor is the next one of the sender, and the      *)
(* parser accepts it exactly if it is good.                                *)
LEMMA NextOne ==
  ASSUME TypeInv, AtSpans, pc = "nlas", ~AtEnd(wire, pos), spans # << >>
  PROVE  LET n == Len(msg.nlas)
         IN  /\ n \in Nat /\ n < Len(spans) /\ n + 1 \in 1 .. Len(spans)
             /\ pos = spans[n + 1].from /\ Begun(n + 1)
             /\ NlaOk <=> Good(n + 1)
             /\ NlaOk => /\ NextNla(wire, pos) = SpanEnd(spans[n + 1])
                         /\ NlaHere.val = ParseNlaValue(Variant, TypeSent(n + 1), ValueSent(n + 1)).val
<1> DEFINE n  == Len(msg.nlas)
           l  == Len(spans)
           s  == spans[n + 1]
           w  == Len(wire)
           nl == NlaLength(wire, pos)
<1>1. /\ msg \in Message /\ msg.variant \in Responses /\ wire \in Seq(Byte) /\ pos \in Nat
      /\ n \in Nat
  BY MessageShape DEF TypeInv, TypeOK, Phases
<1>2. /\ SpansTell([reader |-> reader, type |-> type, bytes |-> wire, spans |-> spans])
      /\ ReadAs(reader, type, wire) # "none" /\ msg.variant = Variant
      /\ n <= l
      /\ n < l => pos = spans[n + 1].from
      /\ n = l => pos >= w
  BY DEF AtSpans
<1>3. /\ l \in Nat /\ w \in Nat
      /\ \A i \in 1 .. l :
           /\ spans[i].from \in Nat /\ spans[i].to \in Nat
           /\ spans[i].from + 4 <= spans[i].to
           /\ spans[i].from + 2 <= w =>
                NlaLength(wire, spans[i].from) = spans[i].to - spans[i].from
  BY <1>2, SpansFacts
<1>4. ~(pos >= w)
  BY DEF AtEnd
<1> HIDE DEF n, l, w
<1>5. n < l /\ n + 1 \in 1 .. l /\ pos = spans[n + 1].from /\ pos < w
  BY <1>1, <1>2, <1>3, <1>4
<1>6. /\ s.from \in Nat /\ s.to \in Nat /\ s.from + 4 <= s.to /\ pos = s.from
      /\ pos + 2 <= w => nl = s.to - pos
  BY <1>3, <1>5
<1>7. Begun(n + 1) /\ (Whole(n + 1) <=> s.to <= w)
  BY <1>5 DEF Begun, Whole, w
<1>8. TypeSent(n + 1) = NlaType(wire, pos)
  BY <1>5 DEF TypeSent
<1>9. ValueSent(n + 1) = Slice(wire, pos + 4, s.to - (pos + 4))
  BY <1>5 DEF ValueSent, NLA_HEADER_SIZE
<1> HIDE DEF s, nl
<1>10. NlaChecked(wire, pos) <=> s.to <= w
  <2>1. NlaChecked(wire, pos) <=> w - pos >= 4 /\ nl \in 4 .. (w - pos)
    BY DEF NlaChecked, NLA_HEADER_SIZE, w, nl
  <2>2. CASE s.to <= w
    <3>1. w - pos >= 4 /\ pos + 2 <= w
      BY <1>1, <1>3, <1>6, <2>2
    <3>2. nl = s.to - pos
      BY <1>6, <3>1
    <3>3. nl \in 4 .. (w - pos)
      BY <3>2, <1>1, <1>3, <1>6, <2>2
    <3> QED
      BY <2>1, <2>2, <3>1, <3>3
  <2>3. CASE ~(s.to <= w)
    <3>1. w - pos >= 4 => nl = s.to - pos
      BY <1>1, <1>3, <1>6
    <3>2. w - pos >= 4 => ~(nl \in 4 .. (w - pos))
      BY <3>1, <1>1, <1>3, <1>6, <2>3
    <3> QED
      BY <2>1, <2>3, <3>2
  <2> QED
    BY <2>2, <2>3
<1>11. NlaChecked(wire, pos) => nl = s.to - s.from /\ ValueSent(n + 1) = NlaValue(wire, pos)
  <2> SUFFICES ASSUME NlaChecked(wire, pos)
               PROVE  nl = s.to - s.from /\ ValueSent(n + 1) = NlaValue(wire, pos)
    OBVIOUS
  <2>1. pos + 2 <= w
    BY <1>10, <1>1, <1>3, <1>6
  <2>2. nl = s.to - pos
    BY <2>1, <1>6
  <2>3. nl - 4 = s.to - (pos + 4)
    BY <2>2, <1>1, <1>6
  <2>4. NlaValue(wire, pos) = Slice(wire, pos + 4, nl - 4)
    BY DEF NlaValue, NLA_HEADER_SIZE, nl
  <2> QED
    BY <2>2, <2>3, <2>4, <1>6, <1>9
<1>12. NlaChecked(wire, pos) =>
         /\ NlaHere = ParseNlaValue(Variant, TypeSent(n + 1), ValueSent(n + 1))
         /\ NlaHere.ok <=> Acceptable(Variant, TypeSent(n + 1), ValueSent(n + 1))
  <2> SUFFICES ASSUME NlaChecked(wire, pos)
               PROVE  /\ NlaHere = ParseNlaValue(Variant, TypeSent(n + 1), ValueSent(n + 1))
                      /\ NlaHere.ok <=> Acceptable(Variant, TypeSent(n + 1), ValueSent(n + 1))
    OBVIOUS
  <2>1. NlaHere = ParseNlaValue(Variant, TypeSent(n + 1), ValueSent(n + 1))
    BY <1>2, <1>8, <1>11 DEF NlaHere
  <2>2. ValueSent(n + 1) \in Seq(Byte) /\ Variant \in Responses
    BY <1>1, <1>2, <1>11, NlaCheckedFacts
  <2> QED
    BY <2>1, <2>2, NlaAcceptable
<1>13. NlaOk <=> Good(n + 1)
  BY <1>7, <1>10, <1>12 DEF NlaOk, Good
<1>14. NlaOk => NextNla(wire, pos) = SpanEnd(s)
  BY <1>6, <1>11 DEF NlaOk, NextNla, SpanEnd, nl
<1>15. NlaOk => NlaHere.val = ParseNlaValue(Variant, TypeSent(n + 1), ValueSent(n + 1)).val
  BY <1>12 DEF NlaOk
<1> QED
  BY <1>1, <1>5, <1>7, <1>13, <1>14, <1>15 DEF n, l, s

LEMMA NextAtSpans ==
  ASSUME TypeInv, AtSpans, [Next]_vars
  PROVE  AtSpans'
<1> SUFFICES ASSUME spans' # << >> PROVE AtSpans'
  BY DEF AtSpans
<1> DEFINE Sender == SpansTell([reader |-> reader, type |-> type, bytes |-> wire, spans |-> spans])
<1>1. CASE AcceptHead
  <2>1. /\ Variant \in Variants /\ Variant = ReadAs(reader, type, wire)
        /\ msg'.nlas = << >> /\ msg'.variant = Variant /\ pos' = HeaderLen(Variant)
        /\ (pc' = "nlas" <=> Variant \in Responses) /\ pc' \in {"nlas", "parsed"}
        /\ UNCHANGED << reader, type, wire, spans, ends, buf, k, sent >>
    BY <1>1, AcceptHeadFacts
  <2>2. ReadAs(reader, type, wire) # "none" /\ Variant' = Variant
    BY <2>1, VariantSets, ToldStays
  <2>3. Sender
    BY <2>1 DEF AtSpans
  <2>4. /\ Variant \in Responses /\ spans[1].from = HeaderLen(Variant)
        /\ Len(spans) \in Nat /\ 1 <= Len(spans)
    BY <2>1, <2>2, <2>3, SpansFacts
  <2>5. Len(msg'.nlas) = 0 /\ 1 .. 0 = {} /\ 0 + 1 = 1 /\ 0 < Len(spans)
    BY <2>1, <2>4
  <2>6. RefusedForCause'
    BY <2>1 DEF RefusedForCause
  <2> QED
    BY <2>1, <2>2, <2>3, <2>4, <2>5, <2>6 DEF AtSpans
<1>2. CASE ParseNla
  <2> DEFINE n == Len(msg.nlas)
             l == Len(spans)
             s == spans[n + 1]
  <2>1. /\ pc = "nlas" /\ pc' = "nlas" /\ Len(msg'.nlas) = n + 1
        /\ msg'.variant = msg.variant
        /\ \A i \in 1 .. n : msg'.nlas[i] = msg.nlas[i]
        /\ msg'.nlas[n + 1] = NlaHere.val
        /\ pos' = NextNla(wire, pos)
        /\ UNCHANGED << reader, type, wire, spans, ends, buf, k, sent >>
    BY <1>2, ParseNlaFacts
  <2>2. /\ Sender /\ ReadAs(reader, type, wire) # "none" /\ msg.variant = Variant
        /\ \A i \in 1 .. n : Told(i)
    BY <2>1 DEF AtSpans
  <2>3. NlaOk /\ ~AtEnd(wire, pos)
    BY <1>2 DEF ParseNla
  <2>4. /\ n \in Nat /\ n < l /\ n + 1 \in 1 .. l
        /\ Good(n + 1) /\ pos' = SpanEnd(s)
        /\ msg'.nlas[n + 1] = ParseNlaValue(Variant, TypeSent(n + 1), ValueSent(n + 1)).val
    BY <2>1, <2>3, NextOne
  <2>5. /\ l \in Nat /\ Len(wire) \in Nat
        /\ \A i \in 1 .. l - 1 : spans[i + 1].from = SpanEnd(spans[i])
        /\ \A i \in 1 .. l : spans[i].from \in Nat /\ spans[i].to \in Nat /\ spans[i].from + 4 <= spans[i].to
        /\ Len(wire) <= SpanEnd(spans[l])
    BY <2>1, <2>2, SpansFacts
  <2> HIDE DEF n, l, s, Sender
  <2>6. ASSUME NEW i \in 1 .. n + 1 PROVE Told(i)'
    <3>1. CASE i \in 1 .. n
      BY <2>1, <2>2, <3>1, ToldStays
    <3>2. CASE i \notin 1 .. n
      <4>1. i = n + 1
        BY <2>4, <3>2
      <4>2. /\ Good(i)' = Good(i) /\ Variant' = Variant
            /\ TypeSent(i)' = TypeSent(i) /\ ValueSent(i)' = ValueSent(i)
        BY <2>1, ToldStays DEF TypeSent, ValueSent
      <4> QED
        BY <2>4, <4>1, <4>2 DEF Told
    <3> QED
      BY <3>1, <3>2
  <2>7. n + 1 < l => pos' = spans[(n + 1) + 1].from
    <3> SUFFICES ASSUME n + 1 < l PROVE pos' = spans[(n + 1) + 1].from
      OBVIOUS
    <3>1. n + 1 \in 1 .. l - 1
      BY <2>4, <2>5
    <3> QED
      BY <3>1, <2>4, <2>5 DEF s
  <2>8. n + 1 = l => pos' >= Len(wire)
    <3>1. SpanEnd(s) \in Int
      <4>1. s.to - s.from \in Nat /\ s.from \in Nat
        BY <2>4, <2>5 DEF s
      <4>2. AlignTo4(s.to - s.from) \in Nat
        BY <4>1, AlignFacts
      <4> QED
        BY <4>1, <4>2 DEF SpanEnd
    <3> QED
      BY <3>1, <2>4, <2>5 DEF s
  <2>9. n + 1 <= l /\ Variant' = Variant
    BY <2>1, <2>4, <2>5, ToldStays
  <2>10. Sender' /\ RefusedForCause' /\ ReadAs(reader, type, wire)' # "none"
    BY <2>1, <2>2 DEF RefusedForCause, Sender
  <2> QED
    BY <2>1, <2>2, <2>6, <2>7, <2>8, <2>9, <2>10 DEF AtSpans, l, Sender
<1>3. CASE ParseEnd
  <2>1. /\ pc = "nlas" /\ pc' = "parsed" /\ pos >= Len(wire)
        /\ UNCHANGED << reader, type, wire, spans, pos, msg, ends, buf, k, sent >>
    BY <1>3 DEF ParseEnd, AtEnd
  <2>2. RefusedForCause' /\ Variant' = Variant
    BY <2>1, ToldStays DEF RefusedForCause
  <2>3. \A i : Told(i) => Told(i)'
    BY <2>1, ToldStays
  <2> QED
    BY <2>1, <2>2, <2>3 DEF AtSpans
<1>4. CASE EmitEnd
  BY <1>4 DEF EmitEnd
<1>5. CASE RefuseHead
  <2>1. /\ ~HeadOk /\ pc' = "refused"
        /\ UNCHANGED << reader, type, wire, spans, pos, msg, ends, buf, k, sent >>
    BY <1>5 DEF RefuseHead
  <2>2. Sender
    BY <2>1 DEF AtSpans
  <2>3. Variant = "none" \/ Variant \in Responses
    BY <2>2 DEF SpansTell, Variant
  <2>4. Variant = "none" \/ Len(wire) < HeaderLen(Variant)
    BY <2>1, <2>3, HeaderAccepted
  <2>5. RefusedForCause'
    BY <2>1, <2>4, ToldStays DEF RefusedForCause
  <2> QED
    BY <2>1, <2>2, <2>5 DEF AtSpans
<1>6. CASE RefuseNla
  <2>1. /\ pc = "nlas" /\ ~NlaOk /\ ~AtEnd(wire, pos) /\ pc' = "refused"
        /\ UNCHANGED << reader, type, wire, spans, pos, ends, buf, k, sent >>
    BY <1>6 DEF RefuseNla
  <2>2. Sender
    BY <2>1 DEF AtSpans
  <2>3. PICK i \in 1 .. Len(spans) : Begun(i) /\ ~Good(i)
    BY <2>1, NextOne
  <2>4. i \in DOMAIN spans' /\ Begun(i)' /\ ~Good(i)'
    <3>1. DOMAIN spans = 1 .. Len(spans)
      BY DEF TypeInv, TypeOK
    <3> QED
      BY <2>1, <2>3, <3>1, ToldStays
  <2>5. RefusedForCause'
    BY <2>4 DEF RefusedForCause
  <2> QED
    BY <2>1, <2>2, <2>5 DEF AtSpans
<1>7. CASE Relay \/ Deliver \/ SizeNla \/ SizeEnd \/ Allocate \/ EmitHead \/ EmitNla \/ Panic
  <2>1. pc' \notin {"nlas", "parsed", "refused"} /\ UNCHANGED << reader, type, wire, spans >>
    BY <1>7 DEF Relay, Deliver, SizeNla, SizeEnd, Allocate, EmitHead, EmitNla, Panic
  <2> QED
    BY <2>1 DEF AtSpans, RefusedForCause
<1>8. CASE UNCHANGED vars
  <2>1. UNCHANGED << pc, reader, type, wire, spans, pos, msg >>
    BY <1>8 DEF vars
  <2>2. (\A i : Told(i) => Told(i)') /\ Variant' = Variant
    BY <2>1, ToldStays
  <2>3. \A i : Begun(i)' = Begun(i) /\ Good(i)' = Good(i)
    BY <2>1, ToldStays
  <2>4. RefusedForCause => RefusedForCause'
    BY <2>1, <2>2, <2>3 DEF RefusedForCause
  <2> QED
    BY <2>1, <2>2, <2>4 DEF AtSpans
<1> QED
  BY <1>1, <1>2, <1>3, <1>4, <1>5, <1>6, <1>7, <1>8 DEF Next

LEMMA InitAtSpans == Init => AtSpans
<1> SUFFICES ASSUME Init, spans # << >> PROVE AtSpans
  BY DEF AtSpans
<1>1. PICK p \in Payloads : /\ reader = p.reader /\ type = p.type
                            /\ wire = p.bytes /\ spans = p.spans /\ pc = "head"
  BY DEF Init, Arrive, Build
<1>2. SpansTell(p)
  BY <1>1, SpansAssumption
<1>3. SpansTell([reader |-> reader, type |-> type, bytes |-> wire, spans |-> spans])
  BY <1>1, <1>2 DEF SpansTell
<1> QED
  BY <1>1, <1>3 DEF AtSpans, RefusedForCause

LEMMA AtSpansHolds == Spec => [](TypeInv /\ AtSpans)
<1>1. Init => TypeInv /\ AtSpans
  BY InitTypes, InitAtSpans
<1>2. (TypeInv /\ AtSpans) /\ [Next]_vars => (TypeInv /\ AtSpans)'
  BY NextTypes, NextAtSpans
<1> QED
  BY <1>1, <1>2, PTL DEF Spec

(* A payload cut anywhere decodes, if it does, to exactly the attributes   *)
(* of the sender that are whole in it, each with its type and its value.   *)
THEOREM WholeAttributesHold == Spec => []WholeAttributes
<1>1. ASSUME TypeInv, AtSpans PROVE WholeAttributes
  <2> SUFFICES ASSUME pc = "parsed", spans # << >>
               PROVE  /\ \A i \in DOMAIN spans : Begun(i) => Good(i)
                      /\ DOMAIN msg.nlas = {i \in DOMAIN spans : Whole(i)}
                      /\ \A i \in DOMAIN msg.nlas :
                           msg.nlas[i] = ParseNlaValue(Variant, TypeSent(i), ValueSent(i)).val
    BY DEF WholeAttributes
  <2> DEFINE n == Len(msg.nlas)
             l == Len(spans)
             w == Len(wire)
  <2>1. /\ SpansTell([reader |-> reader, type |-> type, bytes |-> wire, spans |-> spans])
        /\ ReadAs(reader, type, wire) # "none"
        /\ n <= l /\ \A i \in 1 .. n : Told(i)
        /\ n < l => pos = spans[n + 1].from
        /\ pos >= w
    BY <1>1 DEF AtSpans
  <2>2. n \in Nat /\ DOMAIN msg.nlas = 1 .. n /\ pos \in Nat
    BY <1>1, MessageShape DEF TypeInv, TypeOK, Phases
  <2>3. /\ l \in Nat /\ DOMAIN spans = 1 .. l /\ w \in Nat
        /\ \A i, j \in 1 .. l : i < j => spans[i].to <= spans[j].from
        /\ \A i \in 1 .. l : /\ spans[i].from \in Nat /\ spans[i].to \in Nat
                             /\ spans[i].from + 4 <= spans[i].to
    BY <1>1, <2>1, SpansFacts
  <2>4. \A i : (Begun(i) <=> spans[i].from < w) /\ (Whole(i) <=> spans[i].to <= w)
    BY DEF Begun, Whole
  <2> HIDE DEF n, l, w
  <2>5. ASSUME NEW i \in 1 .. l, i \notin 1 .. n
        PROVE  ~Begun(i) /\ ~Whole(i)
    <3>1. n < l /\ n + 1 \in 1 .. l /\ (i = n + 1 \/ n + 1 < i)
      BY <2>2, <2>3, <2>5
    <3>2. spans[n + 1].from >= w
      BY <3>1, <2>1
    <3>3. /\ spans[n + 1].from \in Nat /\ spans[n + 1].to \in Nat
          /\ spans[n + 1].from + 4 <= spans[n + 1].to
          /\ spans[i].from \in Nat /\ spans[i].to \in Nat
          /\ spans[i].from + 4 <= spans[i].to
      BY <3>1, <2>3
    <3>4. spans[i].from >= w
      <4>1. CASE i = n + 1
        BY <3>2, <4>1
      <4>2. CASE n + 1 < i
        <5>1. spans[n + 1].to <= spans[i].from
          BY <3>1, <4>2, <2>3
        <5> QED
          BY <5>1, <3>2, <3>3, <2>3
      <4> QED
        BY <3>1, <4>1, <4>2
    <3>5. ~(spans[i].from < w) /\ ~(spans[i].to <= w)
      BY <3>3, <3>4, <2>3
    <3> QED
      BY <3>5, <2>4
  <2>6. \A i \in 1 .. n : i \in 1 .. l /\ Good(i) /\ Whole(i)
    <3>1. 1 .. n \subseteq 1 .. l
      BY <2>1, <2>2, <2>3
    <3> QED
      BY <3>1, <2>1 DEF Told, Good
  <2>7. {i \in 1 .. l : Whole(i)} = 1 .. n
    BY <2>5, <2>6
  <2>8. \A i \in 1 .. l : Begun(i) => Good(i)
    BY <2>5, <2>6
  <2>9. \A i \in 1 .. n : msg.nlas[i] = ParseNlaValue(Variant, TypeSent(i), ValueSent(i)).val
    BY <2>1 DEF Told
  <2> QED
    BY <2>2, <2>3, <2>7, <2>8, <2>9
<1> QED
  BY <1>1, AtSpansHolds, PTL

(* A payload is refused only if it has to be: for its header, for an       *)
(* attribute that is cut, or for one whose value no parser may accept.     *)
THEOREM RefusedForCauseHolds == Spec => []RefusedForCause
<1>1. TypeInv /\ AtSpans => RefusedForCause
  BY DEF AtSpans, RefusedForCause
<1> QED
  BY <1>1, AtSpansHolds, PTL
=============================================================================
