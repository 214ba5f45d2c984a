--------------------------- MODULE UnixReportProofs ---------------------------
(***************************************************************************)
(* The accessors of UnixResponse, for sockets bound to any name, connected *)
(* to any inode, with any backlog and any amount of data.                  *)
(***************************************************************************)
EXTENDS UnixReport, SequenceTheorems, WellFoundedInduction, TLAPS

-----------------------------------------------------------------------------
(***************************************************************************)
(* find_map, on a list that grows at its end.                              *)
(***************************************************************************)
Hits(nlas, tag) == {i \in DOMAIN nlas : nlas[i].tag = tag}

(* A set of positions has a first one.                                     *)
LEMMA MinIs ==
  ASSUME NEW T \in SUBSET Nat, T # {}
  PROVE  Min(T) \in T /\ \A i \in T : Min(T) <= i
<1> DEFINE R == {ss \in Nat \X Nat : ss[1] < ss[2]}
<1>1. IsWellFoundedOn(R, Nat)
  BY NatLessThanWellFounded DEF OpToRel
<1> HIDE DEF R
<1>2. PICK x \in T : \A y \in T : ~(<< y, x >> \in R)
  BY <1>1, WFMin
<1>3. ASSUME NEW y \in T PROVE x <= y
  <2>1. << y, x >> \in Nat \X Nat /\ << y, x >>[1] = y /\ << y, x >>[2] = x
    OBVIOUS
  <2>2. ~(y < x)
    BY <1>2, <2>1 DEF R
  <2> QED
    BY <2>2
<1> QED
  BY <1>3 DEF Min

LEMMA FirstOfNone ==
  ASSUME NEW nlas, NEW tag
  PROVE  FirstOf(nlas, tag) = None <=> Hits(nlas, tag) = {}
BY DEF FirstOf, Hits, None, Some

LEMMA FirstOfIf ==
  ASSUME NEW c, NEW nla, NEW tag
  PROVE  FirstOf(If(c, nla), tag) = IF c /\ nla.tag = tag THEN Some(nla.val) ELSE None
<1>1. CASE c /\ nla.tag = tag
  <2>1. If(c, nla) = << nla >> /\ DOMAIN << nla >> = {1} /\ << nla >>[1] = nla
    BY <1>1 DEF If
  <2>2. {i \in DOMAIN << nla >> : << nla >>[i].tag = tag} = {1}
    BY <1>1, <2>1
  <2>3. Min({1}) = 1
    BY DEF Min
  <2> QED
    BY <1>1, <2>1, <2>2, <2>3 DEF FirstOf
<1>2. CASE ~(c /\ nla.tag = tag)
  <2>1. Hits(If(c, nla), tag) = {}
    BY <1>2 DEF Hits, If
  <2> QED
    BY <1>2, <2>1, FirstOfNone
<1> QED
  BY <1>1, <1>2

(* One attribute more is found if it is the one looked for and there was   *)
(* none before, and changes nothing otherwise.                             *)
LEMMA FirstOfBehind ==
  ASSUME NEW S, NEW s \in Seq(S), NEW c, NEW nla \in S, NEW tag
  PROVE  /\ s \o If(c, nla) \in Seq(S)
         /\ FirstOf(s \o If(c, nla), tag) =
              IF FirstOf(s, tag) # None THEN FirstOf(s, tag)
              ELSE IF c /\ nla.tag = tag THEN Some(nla.val) ELSE None
<1> DEFINE u == If(c, nla)
           w == s \o u
<1>1. u \in Seq(S) /\ (~c => u = << >>) /\ (c => Len(u) = 1 /\ u[1] = nla)
  BY DEF If
<1>2. /\ w \in Seq(S) /\ Len(w) = Len(s) + Len(u)
      /\ \A i \in 1 .. Len(s) + Len(u) : w[i] = IF i <= Len(s) THEN s[i] ELSE u[i - Len(s)]
  BY <1>1, ConcatProperties
<1> HIDE DEF u, w
<1>3. /\ DOMAIN w = 1 .. Len(s) + Len(u) /\ DOMAIN s = 1 .. Len(s)
      /\ Len(s) \in Nat /\ Len(u) \in Nat
  BY <1>1, <1>2
<1>4. \A i \in DOMAIN s : i \in DOMAIN w /\ w[i] = s[i]
  BY <1>2, <1>3
<1> DEFINE H == Hits(s, tag)
<1>5. /\ H \in SUBSET Nat /\ H \subseteq DOMAIN s
      /\ H # {} => Min(H) \in H /\ \A i \in H : Min(H) <= i
  <2>1. H \subseteq DOMAIN s /\ H \in SUBSET Nat
    BY <1>3 DEF Hits
  <2> HIDE DEF H
  <2> QED
    BY <2>1, MinIs
<1>6. CASE ~c
  <2>1. w = s
    BY <1>6, <1>1 DEF w
  <2> QED
    BY <1>1, <1>2, <1>6, <2>1 DEF u, w
<1>7. CASE c
  <2>1. DOMAIN w = DOMAIN s \cup {Len(s) + 1} /\ w[Len(s) + 1] = nla /\ Len(s) + 1 \notin DOMAIN s
    <3>1. Len(u) = 1 /\ u[1] = nla
      BY <1>7, <1>1
    <3>2. DOMAIN w = 1 .. Len(s) + 1 /\ Len(s) + 1 \in 1 .. Len(s) + Len(u)
      BY <3>1, <1>3
    <3>3. w[Len(s) + 1] = u[(Len(s) + 1) - Len(s)]
      BY <3>2, <1>2, <1>3
    <3> QED
      BY <3>1, <3>2, <3>3, <1>3
  <2>2. CASE nla.tag # tag
    <3>1. Hits(w, tag) = Hits(s, tag)
      BY <1>4, <2>1, <2>2 DEF Hits
    <3>2. CASE Hits(s, tag) = {}
      BY <2>2, <3>1, <3>2, <1>2, FirstOfNone DEF u, w
    <3>3. CASE Hits(s, tag) # {}
      <4>1. Min(Hits(s, tag)) \in DOMAIN s
        BY <3>3, <1>5
      <4>2. FirstOf(w, tag) = FirstOf(s, tag)
        BY <3>1, <3>3, <4>1, <1>4 DEF FirstOf, Hits
      <4> QED
        BY <4>2, <3>3, <1>2, FirstOfNone DEF u, w
    <3> QED
      BY <3>2, <3>3
  <2>3. CASE nla.tag = tag /\ Hits(s, tag) = {}
    <3>1. Hits(w, tag) = {Len(s) + 1}
      BY <1>4, <2>1, <2>3 DEF Hits
    <3>2. Min({Len(s) + 1}) = Len(s) + 1
      BY <1>3 DEF Min
    <3>3. FirstOf(w, tag) = Some(nla.val)
      BY <3>1, <3>2, <2>1 DEF FirstOf, Hits
    <3> QED
      BY <3>3, <2>3, <1>2, <1>7, FirstOfNone DEF u, w
  <2>4. CASE nla.tag = tag /\ Hits(s, tag) # {}
    <3> DEFINE T == Hits(w, tag)
               m == Min(Hits(s, tag))
    <3>1. T = Hits(s, tag) \cup {Len(s) + 1}
      BY <1>4, <2>1, <2>4 DEF Hits
    <3>2. /\ m \in Hits(s, tag) /\ m \in DOMAIN s /\ m \in T
          /\ \A i \in Hits(s, tag) : m <= i
      BY <2>4, <3>1, <1>5
    <3>3. Min(T) \in T /\ (\A i \in T : Min(T) <= i) /\ T # {}
      <4>1. T \in SUBSET Nat /\ T # {}
        BY <1>3, <1>5, <3>1
      <4> HIDE DEF T
      <4> QED
        BY <4>1, MinIs
    <3> HIDE DEF T, m
    <3>4. Min(T) = m
      <4>1. Min(T) <= m /\ m <= Len(s) /\ m \in Nat
        BY <3>2, <3>3, <1>3
      <4>2. Min(T) \in Hits(s, tag)
        BY <3>1, <3>3, <4>1, <1>3
      <4>3. Min(T) \in Nat /\ m <= Min(T)
        BY <4>2, <3>2, <1>3 DEF Hits
      <4> QED
        BY <4>1, <4>3
    <3>5. FirstOf(w, tag) = FirstOf(s, tag)
      BY <3>2, <3>3, <3>4, <2>4, <1>4 DEF FirstOf, Hits, T, m
    <3> QED
      BY <3>5, <2>4, <1>2, FirstOfNone DEF u, w
  <2> QED
    BY <2>2, <2>3, <2>4
<1> QED
  BY <1>7, <1>6
-----------------------------------------------------------------------------
(***************************************************************************)
(* The response.                                                           *)
(***************************************************************************)
(* What find_map finds in the response, for each attribute.                *)
LEMMA Reported ==
  ASSUME NEW show, NEW tag
  PROVE  FirstOf(Report(show).nlas, tag) =
           CASE tag = "Name" -> IF "NAME" \in show /\ name # None THEN Some(name) ELSE None
             [] tag = "Vfs" ->
                  IF "VFS" \in show /\ name # None /\ name[1] \in Paths
                  THEN Some(name) ELSE None
             [] tag = "Peer" -> IF "PEER" \in show /\ peer # None THEN Some(peer) ELSE None
             [] tag = "PendingConnections" ->
                  IF "ICONS" \in show /\ state = TCP_LISTEN THEN Some(pending) ELSE None
             [] tag = "ReceiveQueueLength" -> IF "RQLEN" \in show THEN Some(RqLen) ELSE None
             [] tag = "MemInfo" ->
                  IF "MEMINFO" \in show
                  THEN Some(MemInfoOf(SkMemInfo)) ELSE None
             [] tag = "Shutdown" -> Some(ShutdownByte(down))
             [] OTHER -> None
<1> DEFINE n1 == Nla("Name", name)
           n2 == Nla("Peer", peer)
           n3 == Nla("PendingConnections", pending)
           n4 == Nla("ReceiveQueueLength", RqLen)
           n5 == Nla("MemInfo", MemInfoOf(SkMemInfo))
           n6 == Nla("Shutdown", ShutdownByte(down))
           n7 == Nla("Vfs", name)
           c1 == "NAME" \in show /\ name # None
           c2 == "PEER" \in show /\ peer # None
           c3 == "ICONS" \in show /\ state = TCP_LISTEN
           c4 == "RQLEN" \in show
           c5 == "MEMINFO" \in show
           c6 == TRUE
           c7 == "VFS" \in show /\ name # None /\ name[1] \in Paths
           S  == {n1, n2, n3, n4, n5, n6, n7}
           s1 == If(c1, n1)
           s7 == s1 \o If(c7, n7)
           s2 == s7 \o If(c2, n2)
           s3 == s2 \o If(c3, n3)
           s4 == s3 \o If(c4, n4)
           s5 == s4 \o If(c5, n5)
           s6 == s5 \o If(c6, n6)
<1>1. Report(show).nlas = s6
  BY DEF Report, If
<1>2. /\ n1 \in S /\ n2 \in S /\ n3 \in S /\ n4 \in S /\ n5 \in S /\ n6 \in S
      /\ n7 \in S
  OBVIOUS
<1>3. /\ n1.tag = "Name" /\ n2.tag = "Peer" /\ n3.tag = "PendingConnections"
      /\ n4.tag = "ReceiveQueueLength" /\ n5.tag = "MemInfo" /\ n6.tag = "Shutdown"
      /\ n1.val = name /\ n2.val = peer /\ n3.val = pending /\ n4.val = RqLen
      /\ n5.val = MemInfoOf(SkMemInfo) /\ n6.val = ShutdownByte(down)
      /\ n7.tag = "Vfs" /\ n7.val = name
  BY DEF Nla
<1> HIDE DEF n1, n2, n3, n4, n5, n6, n7, c1, c2, c3, c4, c5, c6, c7, S
<1>4. s1 \in Seq(S) /\ FirstOf(s1, tag) = IF c1 /\ tag = "Name" THEN Some(name) ELSE None
  <2>1. s1 \in Seq(S)
    <3>1. << n1 >> \in Seq(S) /\ << >> \in Seq(S)
      BY <1>2
    <3>2. s1 = << n1 >> \/ s1 = << >>
      BY DEF If
    <3> QED
      BY <3>1, <3>2
  <2>2. FirstOf(s1, tag) = IF c1 /\ n1.tag = tag THEN Some(n1.val) ELSE None
    <3> HIDE DEF If
    <3> QED
      BY FirstOfIf
  <2> QED
    BY <2>1, <2>2, <1>3
<1> HIDE DEF s1
<1>11. /\ s7 \in Seq(S)
       /\ FirstOf(s7, tag) = IF FirstOf(s1, tag) # None THEN FirstOf(s1, tag)
                             ELSE IF c7 /\ n7.tag = tag THEN Some(n7.val) ELSE None
  BY <1>2, <1>4, FirstOfBehind
<1> HIDE DEF s7
<1>5. /\ s2 \in Seq(S)
      /\ FirstOf(s2, tag) = IF FirstOf(s7, tag) # None THEN FirstOf(s7, tag)
                            ELSE IF c2 /\ n2.tag = tag THEN Some(n2.val) ELSE None
  BY <1>2, <1>11, FirstOfBehind
<1> HIDE DEF s2
<1>6. /\ s3 \in Seq(S)
      /\ FirstOf(s3, tag) = IF FirstOf(s2, tag) # None THEN FirstOf(s2, tag)
                            ELSE IF c3 /\ n3.tag = tag THEN Some(n3.val) ELSE None
  BY <1>2, <1>5, FirstOfBehind
<1> HIDE DEF s3
<1>7. /\ s4 \in Seq(S)
      /\ FirstOf(s4, tag) = IF FirstOf(s3, tag) # None THEN FirstOf(s3, tag)
                            ELSE IF c4 /\ n4.tag = tag THEN Some(n4.val) ELSE None
  BY <1>2, <1>6, FirstOfBehind
<1> HIDE DEF s4
<1>8. /\ s5 \in Seq(S)
      /\ FirstOf(s5, tag) = IF FirstOf(s4, tag) # None THEN FirstOf(s4, tag)
                            ELSE IF c5 /\ n5.tag = tag THEN Some(n5.val) ELSE None
  BY <1>2, <1>7, FirstOfBehind
<1> HIDE DEF s5
<1>9. FirstOf(s6, tag) = IF FirstOf(s5, tag) # None THEN FirstOf(s5, tag)
                         ELSE IF n6.tag = tag THEN Some(n6.val) ELSE None
  <2>1. FirstOf(s6, tag) = IF FirstOf(s5, tag) # None THEN FirstOf(s5, tag)
                           ELSE IF c6 /\ n6.tag = tag THEN Some(n6.val) ELSE None
    BY <1>2, <1>8, FirstOfBehind
  <2> QED
    BY <2>1 DEF c6
<1> HIDE DEF s6
<1>10. \A v : Some(v) # None
  BY DEF Some, None
<1> QED
  BY <1>1, <1>3, <1>4, <1>5, <1>6, <1>7, <1>8, <1>9, <1>10, <1>11 DEF c1, c2, c3, c4, c5, c7

(* A response at hand describes the socket as it is, for what was asked.   *)
Fresh == response # None => response = Some(Report(shown))

LEMMA NextFresh == Fresh /\ [Next]_vars => Fresh'
<1> SUFFICES ASSUME Fresh, [Next]_vars PROVE Fresh'
  OBVIOUS
<1>1. CASE Bind \/ Listen \/ Connect \/ PeerConnects \/ Accept \/ Traffic \/ Shutdown
  BY <1>1 DEF Bind, Listen, Connect, PeerConnects, Accept, Traffic, Shutdown, Stale, Fresh
<1>2. CASE Dump
  <2>1. /\ response' = Some(Report(shown'))
        /\ UNCHANGED << state, name, pending, incoming, outgoing, down, peer >>
    BY <1>2 DEF Dump, socket
  <2>2. Report(shown)' = Report(shown')
    BY <2>1 DEF Report, RqLen, SkMemInfo
  <2> QED
    BY <2>1, <2>2 DEF Fresh
<1>3. CASE UNCHANGED vars
  <2>1. /\ response' = response /\ shown' = shown
        /\ UNCHANGED << state, name, pending, incoming, outgoing, down, peer >>
    BY <1>3 DEF vars, socket
  <2>2. Report(shown)' = Report(shown)
    BY <2>1 DEF Report, RqLen, SkMemInfo
  <2> QED
    BY <2>1, <2>2 DEF Fresh
<1> QED
  BY <1>1, <1>2, <1>3 DEF Next

(* Each accessor but send_queue_size and memory_used_for_outgoing_data     *)
(* tells its own quantity of the socket: never the one of another, and     *)
(* never one the socket does not have.                                     *)
THEOREM AccessorsTellHolds == Spec => []AccessorsTell
<1>1. Init => Fresh
  BY DEF Init, Fresh
<1>2. ASSUME Fresh PROVE AccessorsTell
  <2> SUFFICES ASSUME response # None PROVE AccessorsTell
    BY DEF AccessorsTell
  <2> DEFINE r == response[1]
  <2>1. r = Report(shown) /\ r.state = state
    <3>1. response = Some(Report(shown))
      BY <1>2 DEF Fresh
    <3>2. Some(Report(shown))[1] = Report(shown)
      BY DEF Some
    <3>3. Report(shown).state = state
      BY DEF Report
    <3> QED
      BY <3>1, <3>2, <3>3
  <2>2. /\ Find(r, "Name") = IF "NAME" \in shown /\ name # None THEN Some(name) ELSE None
        /\ Find(r, "Peer") = IF "PEER" \in shown /\ peer # None THEN Some(peer) ELSE None
        /\ Find(r, "PendingConnections") =
             IF "ICONS" \in shown /\ state = TCP_LISTEN THEN Some(pending) ELSE None
        /\ Find(r, "ReceiveQueueLength") = IF "RQLEN" \in shown THEN Some(RqLen) ELSE None
        /\ Find(r, "MemInfo") =
             IF "MEMINFO" \in shown
             THEN Some(MemInfoOf(SkMemInfo)) ELSE None
        /\ Find(r, "Shutdown") = Some(ShutdownByte(down))
    <3>1. \A tag : Find(r, tag) = FirstOf(Report(shown).nlas, tag)
      BY <2>1 DEF Find
    <3> HIDE DEF r
    <3>2. Find(r, "Name") = IF "NAME" \in shown /\ name # None THEN Some(name) ELSE None
      BY <3>1, Reported
    <3>3. Find(r, "Peer") = IF "PEER" \in shown /\ peer # None THEN Some(peer) ELSE None
      BY <3>1, Reported
    <3>4. Find(r, "PendingConnections") =
            IF "ICONS" \in shown /\ state = TCP_LISTEN THEN Some(pending) ELSE None
      BY <3>1, Reported
    <3>5. Find(r, "ReceiveQueueLength") = IF "RQLEN" \in shown THEN Some(RqLen) ELSE None
      BY <3>1, Reported
    <3>6. Find(r, "MemInfo") =
            IF "MEMINFO" \in shown
            THEN Some(MemInfoOf(SkMemInfo)) ELSE None
      BY <3>1, Reported
    <3>7. Find(r, "Shutdown") = Some(ShutdownByte(down))
      BY <3>1, Reported
    <3> QED
      BY <3>2, <3>3, <3>4, <3>5, <3>6, <3>7
  <2> HIDE DEF r
  <2>3. \A v : Some(v) # None /\ Some(v)[1] = v
    BY DEF Some, None
  <2>4. /\ NumberOfPendingConnection(r) =
             IF state = TCP_LISTEN THEN Asked("RQLEN", Len(pending)) ELSE None
        /\ MaxNumberOfPendingConnection(r) =
             IF state = TCP_LISTEN THEN Asked("RQLEN", Backlog) ELSE None
        /\ ReceiveQueueSize(r) = IF state = TCP_LISTEN THEN None ELSE Asked("RQLEN", incoming)
    BY <2>1, <2>2, <2>3 DEF NumberOfPendingConnection, MaxNumberOfPendingConnection,
         ReceiveQueueSize, ReceiveQueueLength, Map, First, Second, Asked, RqLen
  <2>5. PendingConnections(r) = IF state = TCP_LISTEN THEN Asked("ICONS", pending) ELSE None
    BY <2>2 DEF PendingConnections, Asked
  <2>6. /\ Peer(r) = IF peer = None THEN None ELSE Asked("PEER", peer[1])
        /\ Name(r) = IF name = None THEN None ELSE Asked("NAME", name[1])
    BY <2>2, <2>3 DEF Peer, Name, Map, First, Asked
  <2>7. MaxDatagramSize(r) = Asked("MEMINFO", SndBuf)
    <3>1. MemInfoOf(SkMemInfo).max_datagram_size = SndBuf
      BY DEF MemInfoOf, SkMemInfo
    <3> QED
      BY <3>1, <2>2, <2>3 DEF MaxDatagramSize, Map, Asked
  <2>8. ShutdownState(r) = Some(ShutdownByte(down))
    BY <2>2 DEF ShutdownState
  <2> QED
    BY <2>4, <2>5, <2>6, <2>7, <2>8 DEF AccessorsTell, r
<1> QED
  BY <1>1, <1>2, NextFresh, PTL DEF Spec
=============================================================================
