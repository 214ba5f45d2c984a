----------------------------- MODULE HeaderProofs -----------------------------
(***************************************************************************)
(* The fixed structures: every emitter writes exactly the length of its    *)
(* structure, what a parser accepts is a value the emitter can be given,   *)
(* and it reads back what the emitter wrote.                               *)
(***************************************************************************)
EXTENDS SockDiagCodec, WireProofs

LEMMA FourBytes ==
  ASSUME NEW w \in Byte, NEW x \in Byte, NEW y \in Byte, NEW z \in Byte
  PROVE  << w, x, y, z >> \in Bytes(4)
<1>1. << w, x, y, z >> \in Seq(Byte) /\ Len(<< w, x, y, z >>) = 4
  OBVIOUS
<1> QED
  BY <1>1 DEF Bytes

LEMMA HoldsFour ==
  ASSUME NEW b, NEW w, NEW x, NEW y, NEW z, Holds(b, 0, << w, x, y, z >>)
  PROVE  b[1] = w /\ b[2] = x /\ b[3] = y /\ b[4] = z
BY DEF Holds

LEMMA FirstBytes ==
  ASSUME NEW b \in Seq(Byte), Len(b) >= 4
  PROVE  b[1] \in Byte /\ b[2] \in Byte /\ b[3] \in Byte /\ b[4] \in Byte
BY ElementOfSeq

-----------------------------------------------------------------------------
(***************************************************************************)
(* Flags.                                                                  *)
(***************************************************************************)
LEMMA KeepFacts ==
  ASSUME NEW n \in Word16
  PROVE  /\ KeepBits(n, 1, 11) \in Word16
         /\ KeepBits(KeepBits(n, 1, 11), 1, 11) = KeepBits(n, 1, 11)
         /\ KeepBits(n, 0, 5) \in Word16
         /\ KeepBits(KeepBits(n, 0, 5), 0, 5) = KeepBits(n, 0, 5)
<1>1. /\ KeepBits(n, 1, 11) = (n % 4096) - (n % 2)
      /\ KeepBits(n, 0, 5) = (n % 64) - (n % 1)
  BY DEF KeepBits, Word16
<1>2. KeepBits(n, 1, 11) \in Word16 /\ KeepBits(n, 0, 5) \in Word16
  BY <1>1 DEF Word16
<1>3. /\ KeepBits(KeepBits(n, 1, 11), 1, 11)
           = (((n % 4096) - (n % 2)) % 4096) - (((n % 4096) - (n % 2)) % 2)
      /\ KeepBits(KeepBits(n, 0, 5), 0, 5)
           = (((n % 64) - (n % 1)) % 64) - (((n % 64) - (n % 1)) % 1)
  BY <1>1, <1>2 DEF KeepBits, Word16
<1>4. /\ (((n % 4096) - (n % 2)) % 4096) - (((n % 4096) - (n % 2)) % 2) = (n % 4096) - (n % 2)
      /\ (((n % 64) - (n % 1)) % 64) - (((n % 64) - (n % 1)) % 1) = (n % 64) - (n % 1)
  BY DEF Word16
<1> QED
  BY <1>1, <1>2, <1>3, <1>4

LEMMA KeepTwoFacts ==
  ASSUME NEW n \in Word16
  PROVE  LET keep(x) == KeepBits(x, 1, 1) + KeepBits(x, 10, 10)
         IN  keep(n) \in Word16 /\ keep(keep(n)) = keep(n)
<1> DEFINE keep(x) == KeepBits(x, 1, 1) + KeepBits(x, 10, 10)
           low  == (n % 4) - (n % 2)
           high == (n % 2048) - (n % 1024)
<1>1. \A x \in Word16 : keep(x) = ((x % 4) - (x % 2)) + ((x % 2048) - (x % 1024))
  BY DEF KeepBits, Word16
<1>2. low \in {0, 2} /\ high \in {0, 1024}
  BY DEF Word16
<1>3. keep(n) = low + high
  BY <1>1
<1> HIDE DEF low, high
<1>4. low + high \in {0, 2, 1024, 1026}
  BY <1>2
<1>5. \A x \in {0, 2, 1024, 1026} :
        x \in Word16 /\ ((x % 4) - (x % 2)) + ((x % 2048) - (x % 1024)) = x
  BY DEF Word16
<1> HIDE DEF keep
<1>6. keep(n) \in Word16 /\ keep(keep(n)) = keep(n)
  BY <1>1, <1>3, <1>4, <1>5
<1> QED
  BY <1>6 DEF keep

(* The 16-bit number in front of two zeros.                                *)
LEMMA WordBytes ==
  ASSUME NEW n \in Word16
  PROVE  /\ U16Bytes(n) \o Zeros(2) \in Bytes(4)
         /\ U16(U16Bytes(n) \o Zeros(2), 0) = n
<1> DEFINE b == U16Bytes(n) \o Zeros(2)
<1>1. U16Bytes(n) \in Bytes(2) /\ Zeros(2) \in Bytes(2)
  BY U16Facts, ZerosBytes
<1>2. b \in Bytes(4)
  BY <1>1, BytesConcat, 2 \in Nat, 2 + 2 = 4
<1>3. b \in Seq(Byte)
  BY <1>2 DEF Bytes
<1>4. Holds(b, 0, U16Bytes(n) \o Zeros(2))
  BY <1>3, HoldsItself
<1> HIDE DEF b
<1>5. Holds(b, 0, U16Bytes(n))
  BY <1>1, <1>3, <1>4, HoldsParts, 0 \in Nat, 2 \in Nat
<1>6. U16(b, 0) = n
  BY <1>5, U16Read, 0 \in Nat
<1> QED
  BY <1>2, <1>6 DEF b

LEMMA StatesFacts ==
  ASSUME NEW s \in Bytes(4)
  PROVE  /\ TruncateStates(s) \in {t \in Bytes(4) : t = TruncateStates(t)}
         /\ TruncateUnixStates(s) \in {t \in Bytes(4) : t = TruncateUnixStates(t)}
         /\ TruncateShow(s) \in {t \in Bytes(4) : t = TruncateShow(t)}
<1>1. U16(s, 0) \in Word16
  <2>1. s \in Seq(Byte) /\ Len(s) = 4
    BY DEF Bytes
  <2> QED
    BY <2>1, U16Range, 0 \in Nat, 0 + 2 <= 4
<1>2. \A x : /\ TruncateStates(x) = U16Bytes(KeepBits(U16(x, 0), 1, 11)) \o Zeros(2)
             /\ TruncateShow(x) = U16Bytes(KeepBits(U16(x, 0), 0, 5)) \o Zeros(2)
  BY DEF TruncateStates, TruncateShow, TCP_ESTABLISHED, TCP_CLOSING, UNIX_DIAG_NAME,
         UNIX_DIAG_MEMINFO
<1> DEFINE keep(x) == KeepBits(x, 1, 1) + KeepBits(x, 10, 10)
<1>3. \A x : TruncateUnixStates(x) = U16Bytes(keep(U16(x, 0))) \o Zeros(2)
  BY DEF TruncateUnixStates, TCP_ESTABLISHED, TCP_LISTEN
<1>4. /\ keep(U16(s, 0)) \in Word16
      /\ keep(keep(U16(s, 0))) = keep(U16(s, 0))
  BY <1>1, KeepTwoFacts
<1> HIDE DEF keep
<1>5. /\ KeepBits(U16(s, 0), 1, 11) \in Word16
      /\ KeepBits(KeepBits(U16(s, 0), 1, 11), 1, 11) = KeepBits(U16(s, 0), 1, 11)
      /\ KeepBits(U16(s, 0), 0, 5) \in Word16
      /\ KeepBits(KeepBits(U16(s, 0), 0, 5), 0, 5) = KeepBits(U16(s, 0), 0, 5)
  BY <1>1, KeepFacts
<1>6. TruncateStates(s) \in Bytes(4) /\ TruncateStates(TruncateStates(s)) = TruncateStates(s)
  BY <1>2, <1>5, WordBytes
<1>7. TruncateShow(s) \in Bytes(4) /\ TruncateShow(TruncateShow(s)) = TruncateShow(s)
  BY <1>2, <1>5, WordBytes
<1>8. /\ TruncateUnixStates(s) \in Bytes(4)
      /\ TruncateUnixStates(TruncateUnixStates(s)) = TruncateUnixStates(s)
  BY <1>3, <1>4, WordBytes
<1> QED
  BY <1>6, <1>7, <1>8

(* The flags of four bytes all have a name exactly if none is dropped.     *)
LEMMA WordAlike ==
  ASSUME NEW n \in Word16, NEW s \in Bytes(4)
  PROVE  U16Bytes(n) \o Zeros(2) = s <=> U16(s, 0) = n /\ s[3] = 0 /\ s[4] = 0
<1> DEFINE t == U16Bytes(n) \o Zeros(2)
<1>1. t \in Bytes(4) /\ U16(t, 0) = n
  BY WordBytes
<1>2. /\ U16Bytes(n) \in Seq(Byte) /\ Len(U16Bytes(n)) = 2
      /\ Zeros(2) \in Seq(Byte) /\ Len(Zeros(2)) = 2
  BY U16Facts, ZerosBytes, 2 \in Nat DEF Bytes
<1>3. t[3] = Zeros(2)[1] /\ t[4] = Zeros(2)[2]
  <2> DEFINE p == U16Bytes(n)
             q == Zeros(2)
  <2>1. /\ p \in Seq(Byte) /\ Len(p) = 2
        /\ q \in Seq(Byte) /\ Len(q) = 2
    BY <1>2
  <2> HIDE DEF p, q
  <2>2. \A i \in 1 .. Len(p) + Len(q) :
          (p \o q)[i] = IF i <= Len(p) THEN p[i] ELSE q[i - Len(p)]
    BY <2>1, ConcatProperties
  <2>3. /\ 3 \in 1 .. Len(p) + Len(q) /\ 4 \in 1 .. Len(p) + Len(q)
        /\ ~(3 <= Len(p)) /\ ~(4 <= Len(p))
        /\ 3 - Len(p) = 1 /\ 4 - Len(p) = 2
    BY <2>1
  <2>4. (p \o q)[3] = q[3 - Len(p)] /\ (p \o q)[4] = q[4 - Len(p)]
    BY <2>2, <2>3
  <2>5. (p \o q)[3] = q[1] /\ (p \o q)[4] = q[2]
    BY <2>3, <2>4
  <2> QED
    BY <2>5 DEF p, q
<1>8. Zeros(2)[1] = 0 /\ Zeros(2)[2] = 0
  BY DEF Zeros
<1>4. t[3] = 0 /\ t[4] = 0
  BY <1>3, <1>8
<1> HIDE DEF t
<1>5. \A u \in Bytes(4) : /\ u = << u[1], u[2], u[3], u[4] >>
                          /\ u[1] \in Byte /\ u[2] \in Byte
                          /\ U16(u, 0) = u[1] + (256 * u[2])
  <2> SUFFICES ASSUME NEW u \in Bytes(4)
               PROVE  /\ u = << u[1], u[2], u[3], u[4] >>
                      /\ u[1] \in Byte /\ u[2] \in Byte
                      /\ U16(u, 0) = u[1] + (256 * u[2])
    OBVIOUS
  <2>0. u \in Seq(Byte) /\ Len(u) = 4
    BY DEF Bytes
  <2>1. u \in Seq(Byte) /\ Len(u) = 4 /\ Len(u) >= 4
    BY <2>0
  <2>2. u[1] \in Byte /\ u[2] \in Byte
    BY <2>1, FirstBytes
  <2> QED
    BY <2>1, <2>2 DEF U16
<1>6. \A w1, x1, w2, x2 \in Byte : w1 + (256 * x1) = w2 + (256 * x2) => w1 = w2 /\ x1 = x2
  BY ByteIs
<1>7. ASSUME U16(s, 0) = n, s[3] = 0, s[4] = 0 PROVE t = s
  <2>1. t[1] = s[1] /\ t[2] = s[2]
    BY <1>1, <1>5, <1>6, <1>7
  <2> QED
    BY <1>1, <1>4, <1>5, <1>7, <2>1
<1> QED
  BY <1>1, <1>4, <1>7 DEF t

LEMMA NamedBits ==
  ASSUME NEW w \in Byte, NEW x \in Byte, NEW n, n = w + (256 * x)
  PROVE  /\ KeepBits(n, 1, 11) = n <=> w % 2 = 0 /\ x < 16
         /\ KeepBits(n, 0, 5) = n <=> w < 64 /\ x = 0
         /\ KeepBits(n, 1, 1) + KeepBits(n, 10, 10) = n <=> w \in {0, 2} /\ x \in {0, 4}
<1>1. w \in Int /\ 0 <= w /\ w <= 255 /\ x \in Int /\ 0 <= x /\ x <= 255
  BY ByteIs
<1>2. n \in Nat
  BY <1>1
<1>3. /\ KeepBits(n, 1, 11) = (n % 4096) - (n % 2)
      /\ KeepBits(n, 0, 5) = (n % 64) - (n % 1)
      /\ KeepBits(n, 1, 1) = (n % 4) - (n % 2)
      /\ KeepBits(n, 10, 10) = (n % 2048) - (n % 1024)
  BY <1>2 DEF KeepBits
<1>4. (n % 4096) - (n % 2) = n <=> w % 2 = 0 /\ x < 16
  <2>1. n % 2 = w % 2
    BY <1>1
  <2>2. n % 4096 = n <=> n < 4096
    BY <1>2
  <2>3. n % 4096 <= n /\ n % 2 >= 0
    BY <1>2
  <2>4. n < 4096 <=> x < 16
    BY <1>1
  <2> QED
    BY <1>1, <1>2, <2>1, <2>2, <2>3, <2>4
<1>5. (n % 64) - (n % 1) = n <=> w < 64 /\ x = 0
  <2>1. n % 1 = 0 /\ (n % 64 = n <=> n < 64)
    BY <1>2
  <2>2. n < 64 <=> w < 64 /\ x = 0
    BY <1>1
  <2> QED
    BY <1>2, <2>1, <2>2
<1>6. ((n % 4) - (n % 2)) + ((n % 2048) - (n % 1024)) = n <=> w \in {0, 2} /\ x \in {0, 4}
  <2> DEFINE low  == (n % 4) - (n % 2)
             high == (n % 2048) - (n % 1024)
  <2>1. low \in {0, 2} /\ high \in {0, 1024}
    BY <1>2
  <2>2. ASSUME w \in {0, 2}, x \in {0, 4} PROVE low + high = n
    BY <2>2
  <2> HIDE DEF low, high
  <2>3. ASSUME low + high = n PROVE w \in {0, 2} /\ x \in {0, 4}
    <3>1. n \in {0, 2, 1024, 1026}
      BY <2>1, <2>3
    <3> QED
      BY <1>1, <3>1
  <2>4. low + high = n <=> w \in {0, 2} /\ x \in {0, 4}
    BY <2>2, <2>3
  <2> QED
    BY <2>4 DEF low, high
<1> QED
  BY <1>3, <1>4, <1>5, <1>6

LEMMA NamedFacts ==
  ASSUME NEW s \in Bytes(4)
  PROVE  /\ TruncateStates(s) = s <=> InetStatesNamed(s)
         /\ TruncateUnixStates(s) = s <=> UnixStatesNamed(s)
         /\ TruncateShow(s) = s <=> ShowNamed(s)
<1> DEFINE n == U16(s, 0)
           both == KeepBits(n, 1, 1) + KeepBits(n, 10, 10)
<1>1. s \in Seq(Byte) /\ Len(s) = 4
  BY DEF Bytes
<1>2. s[1] \in Byte /\ s[2] \in Byte /\ n = s[1] + (256 * s[2])
  BY <1>1, FirstBytes DEF U16
<1>3. n \in Word16
  BY <1>1, U16Range, 0 \in Nat, 0 + 2 <= 4
<1>4. /\ TruncateStates(s) = U16Bytes(KeepBits(n, 1, 11)) \o Zeros(2)
      /\ TruncateShow(s) = U16Bytes(KeepBits(n, 0, 5)) \o Zeros(2)
      /\ TruncateUnixStates(s) = U16Bytes(both) \o Zeros(2)
  BY DEF TruncateStates, TruncateShow, TruncateUnixStates, TCP_ESTABLISHED, TCP_CLOSING,
         TCP_LISTEN, UNIX_DIAG_NAME, UNIX_DIAG_MEMINFO
<1>5. KeepBits(n, 1, 11) \in Word16 /\ KeepBits(n, 0, 5) \in Word16 /\ both \in Word16
  BY <1>3, KeepFacts, KeepTwoFacts
<1>6. /\ KeepBits(n, 1, 11) = n <=> s[1] % 2 = 0 /\ s[2] < 16
      /\ KeepBits(n, 0, 5) = n <=> s[1] < 64 /\ s[2] = 0
      /\ both = n <=> s[1] \in {0, 2} /\ s[2] \in {0, 4}
  BY <1>2, NamedBits
<1> HIDE DEF n, both
<1>7. /\ TruncateStates(s) = s <=> n = KeepBits(n, 1, 11) /\ s[3] = 0 /\ s[4] = 0
      /\ TruncateShow(s) = s <=> n = KeepBits(n, 0, 5) /\ s[3] = 0 /\ s[4] = 0
      /\ TruncateUnixStates(s) = s <=> n = both /\ s[3] = 0 /\ s[4] = 0
  BY <1>4, <1>5, WordAlike DEF n
<1> QED
  BY <1>6, <1>7 DEF InetStatesNamed, UnixStatesNamed, ShowNamed

(* What a parser has truncated has only flags with a name.                 *)
LEMMA TruncatedNamed ==
  ASSUME NEW s \in Bytes(4)
  PROVE  /\ TruncateStates(s) \in Bytes(4) /\ InetStatesNamed(TruncateStates(s))
         /\ TruncateUnixStates(s) \in Bytes(4) /\ UnixStatesNamed(TruncateUnixStates(s))
         /\ TruncateShow(s) \in Bytes(4) /\ ShowNamed(TruncateShow(s))
<1>1. /\ TruncateStates(s) \in Bytes(4)
      /\ TruncateStates(TruncateStates(s)) = TruncateStates(s)
      /\ TruncateUnixStates(s) \in Bytes(4)
      /\ TruncateUnixStates(TruncateUnixStates(s)) = TruncateUnixStates(s)
      /\ TruncateShow(s) \in Bytes(4)
      /\ TruncateShow(TruncateShow(s)) = TruncateShow(s)
  BY StatesFacts
<1> QED
  BY <1>1, NamedFacts

(* There is a flag for each of the eight bits of the extensions.           *)
LEMMA ExtensionsFacts ==
  \A e \in Byte : TruncateExtensions(e) = e
BY ByteIs DEF TruncateExtensions, KeepBits, INET_DIAG_MEMINFO, INET_DIAG_SHUTDOWN

-----------------------------------------------------------------------------
(***************************************************************************)
(* src/inet/socket_id.rs.                                                  *)
(***************************************************************************)
LEMMA PortFacts ==
  ASSUME NEW p \in Word16
  PROVE  /\ PortToBe(p) \in Bytes(2)
         /\ \A b, off : off \in Nat /\ Holds(b, off, PortToBe(p)) => PortFromBe(b, off) = p
<1>1. p % 256 \in Byte /\ p \div 256 \in Byte /\ (256 * (p \div 256)) + (p % 256) = p
  BY ByteIs DEF Word16
<1>2. /\ PortToBe(p) \in Seq(Byte) /\ Len(PortToBe(p)) = 2
      /\ PortToBe(p)[1] = p \div 256 /\ PortToBe(p)[2] = p % 256
  BY <1>1 DEF PortToBe
<1>3. ASSUME NEW b, NEW off \in Nat, Holds(b, off, PortToBe(p))
      PROVE  PortFromBe(b, off) = p
  <2>1. b[off + 1] = p \div 256 /\ b[off + 2] = p % 256
    BY <1>2, <1>3 DEF Holds
  <2> QED
    BY <2>1, <1>1 DEF PortFromBe
<1> QED
  BY <1>2, <1>3 DEF Bytes

LEMMA PortRange ==
  ASSUME NEW b \in Seq(Byte), NEW off \in Nat, off + 2 <= Len(b)
  PROVE  PortFromBe(b, off) \in Word16
<1>1. b[off + 1] \in Byte /\ b[off + 2] \in Byte
  BY ElementOfSeq
<1> QED
  BY <1>1, ByteIs DEF PortFromBe, Word16

LEMMA OctetsFacts ==
  ASSUME NEW a \in IpAddr
  PROVE  /\ Octets(a) \in Bytes(16)
         /\ \A b \in Seq(Byte) : \A off \in Nat :
              Holds(b, off, Octets(a)) => Slice(b, off, Len(a)) = a
<1>1. a \in Seq(Byte) /\ Len(a) \in {4, 16}
  BY DEF IpAddr, Bytes
<1>2. 16 - Len(a) \in Nat /\ Len(a) + (16 - Len(a)) = 16 /\ Len(a) \in Nat
  <2>1. \A n \in {4, 16} : 16 - n \in Nat /\ n + (16 - n) = 16 /\ n \in Nat
    OBVIOUS
  <2> QED
    BY <1>1, <2>1
<1>3. a \in Bytes(Len(a)) /\ Zeros(16 - Len(a)) \in Bytes(16 - Len(a))
  BY <1>1, <1>2, ZerosBytes DEF Bytes
<1>4. Octets(a) \in Bytes(16)
  BY <1>2, <1>3, BytesConcat DEF Octets
<1>5. ASSUME NEW b \in Seq(Byte), NEW off \in Nat, Holds(b, off, Octets(a))
      PROVE  Slice(b, off, Len(a)) = a
  <2>1. Holds(b, off, a)
    BY <1>2, <1>3, <1>5, HoldsParts DEF Octets
  <2> QED
    BY <1>1, <2>1, HoldsSlice
<1> QED
  BY <1>4, <1>5

LEMMA SocketIdShape ==
  ASSUME NEW id \in SocketId
  PROVE  /\ id.source_port \in Word16 /\ id.destination_port \in Word16
         /\ id.source_address \in IpAddr /\ id.destination_address \in IpAddr
         /\ id.interface_id \in Bytes(4) /\ id.cookie \in Bytes(8)
         /\ id = [source_port         |-> id.source_port,
                  destination_port    |-> id.destination_port,
                  source_address      |-> id.source_address,
                  destination_address |-> id.destination_address,
                  interface_id        |-> id.interface_id,
                  cookie              |-> id.cookie]
BY DEF SocketId

(* The six fields of an emitted SocketId and where they are.               *)
LEMMA SocketIdFacts ==
  ASSUME NEW id \in SocketId
  PROVE  LET e == EmitSocketId(id)
         IN  /\ e \in Bytes(48)
             /\ PortFromBe(e, 0) = id.source_port
             /\ PortFromBe(e, 2) = id.destination_port
             /\ Slice(e, 4, Len(id.source_address)) = id.source_address
             /\ Slice(e, 20, Len(id.destination_address)) = id.destination_address
             /\ Slice(e, 36, 4) = id.interface_id
             /\ Slice(e, 40, 8) = id.cookie
<1> DEFINE p1 == PortToBe(id.source_port)
           p2 == PortToBe(id.destination_port)
           o1 == Octets(id.source_address)
           o2 == Octets(id.destination_address)
           i  == id.interface_id
           c  == id.cookie
           e  == EmitSocketId(id)
<1>1. /\ p1 \in Bytes(2) /\ p2 \in Bytes(2) /\ o1 \in Bytes(16) /\ o2 \in Bytes(16)
      /\ i \in Bytes(4) /\ c \in Bytes(8)
  BY SocketIdShape, PortFacts, OctetsFacts
<1>2. e = p1 \o p2 \o o1 \o o2 \o i \o c
  BY DEF EmitSocketId
<1> HIDE DEF p1, p2, o1, o2, i, c, e
<1>3. p1 \o p2 \in Bytes(4)
  BY <1>1, BytesConcat, 2 + 2 = 4, 2 \in Nat
<1>4. p1 \o p2 \o o1 \in Bytes(20)
  BY <1>1, <1>3, BytesConcat, 4 + 16 = 20, 4 \in Nat, 16 \in Nat
<1>5. p1 \o p2 \o o1 \o o2 \in Bytes(36)
  BY <1>1, <1>4, BytesConcat, 20 + 16 = 36, 20 \in Nat, 16 \in Nat
<1>6. p1 \o p2 \o o1 \o o2 \o i \in Bytes(40)
  BY <1>1, <1>5, BytesConcat, 36 + 4 = 40, 36 \in Nat, 4 \in Nat
<1>7. e \in Bytes(48)
  BY <1>1, <1>2, <1>6, BytesConcat, 40 + 8 = 48, 40 \in Nat, 8 \in Nat
<1>8. e \in Seq(Byte)
  BY <1>7 DEF Bytes
<1>9. Holds(e, 0, p1 \o p2 \o o1 \o o2 \o i \o c)
  BY <1>2, <1>8, HoldsItself
<1>10. Holds(e, 0, p1 \o p2 \o o1 \o o2 \o i) /\ Holds(e, 40, c)
  BY <1>1, <1>6, <1>8, <1>9, HoldsParts, 0 \in Nat, 40 \in Nat, 8 \in Nat, 0 + 40 = 40
<1>11. Holds(e, 0, p1 \o p2 \o o1 \o o2) /\ Holds(e, 36, i)
  BY <1>1, <1>5, <1>8, <1>10, HoldsParts, 0 \in Nat, 36 \in Nat, 4 \in Nat, 0 + 36 = 36
<1>12. Holds(e, 0, p1 \o p2 \o o1) /\ Holds(e, 20, o2)
  BY <1>1, <1>4, <1>8, <1>11, HoldsParts, 0 \in Nat, 20 \in Nat, 16 \in Nat, 0 + 20 = 20
<1>13. Holds(e, 0, p1 \o p2) /\ Holds(e, 4, o1)
  BY <1>1, <1>3, <1>8, <1>12, HoldsParts, 0 \in Nat, 4 \in Nat, 16 \in Nat, 0 + 4 = 4
<1>14. Holds(e, 0, p1) /\ Holds(e, 2, p2)
  BY <1>1, <1>8, <1>13, HoldsParts, 0 \in Nat, 2 \in Nat, 0 + 2 = 2
<1>15. PortFromBe(e, 0) = id.source_port /\ PortFromBe(e, 2) = id.destination_port
  BY <1>14, SocketIdShape, PortFacts, 0 \in Nat, 2 \in Nat DEF p1, p2
<1>16. /\ Slice(e, 4, Len(id.source_address)) = id.source_address
       /\ Slice(e, 20, Len(id.destination_address)) = id.destination_address
  BY <1>8, <1>12, <1>13, SocketIdShape, OctetsFacts, 4 \in Nat, 20 \in Nat DEF o1, o2
<1>17. Slice(e, 36, 4) = i /\ Slice(e, 40, 8) = c
  BY <1>1, <1>8, <1>10, <1>11, HoldsBytes, 36 \in Nat, 40 \in Nat, 4 \in Nat, 8 \in Nat
<1> QED
  BY <1>7, <1>15, <1>16, <1>17 DEF e, i, c

(* The addresses of a SocketId are of the family that is named with it.    *)
IdAgrees(id, af) ==
  /\ af \in {AF_INET, AF_INET6}
  /\ \A a \in {id.source_address, id.destination_address} :
       Len(a) = IF af = AF_INET THEN 4 ELSE 16

LEMMA SocketIdBack ==
  ASSUME NEW id \in SocketId, NEW af, IdAgrees(id, af)
  PROVE  ParseSocketId(EmitSocketId(id), af) = Ok(id)
<1> DEFINE n == IF af = AF_INET THEN 4 ELSE 16
           e == EmitSocketId(id)
<1>1. Len(id.source_address) = n /\ Len(id.destination_address) = n
  BY DEF IdAgrees
<1>2. /\ PortFromBe(e, 0) = id.source_port
      /\ PortFromBe(e, 2) = id.destination_port
      /\ Slice(e, 4, n) = id.source_address
      /\ Slice(e, 20, n) = id.destination_address
      /\ Slice(e, 36, 4) = id.interface_id
      /\ Slice(e, 40, 8) = id.cookie
  BY <1>1, SocketIdFacts
<1>3. af \in {AF_INET, AF_INET6}
  BY DEF IdAgrees
<1> HIDE DEF e
<1>4. ParseSocketId(e, af) =
        Ok([source_port         |-> id.source_port,
            destination_port    |-> id.destination_port,
            source_address      |-> id.source_address,
            destination_address |-> id.destination_address,
            interface_id        |-> id.interface_id,
            cookie              |-> id.cookie])
  BY <1>2, <1>3 DEF ParseSocketId
<1> QED
  BY <1>4, SocketIdShape DEF e

LEMMA SocketIdTyped ==
  ASSUME NEW raw \in Bytes(48), NEW af, ParseSocketId(raw, af).ok
  PROVE  /\ ParseSocketId(raw, af).val \in SocketId
         /\ IdAgrees(ParseSocketId(raw, af).val, af)
<1> DEFINE n == IF af = AF_INET THEN 4 ELSE 16
<1>1. raw \in Seq(Byte) /\ Len(raw) = 48
  BY DEF Bytes
<1>2. n \in {4, 16} /\ n \in Nat /\ 4 + n <= 48 /\ 20 + n <= 48
  OBVIOUS
<1>3. /\ PortFromBe(raw, 0) \in Word16 /\ PortFromBe(raw, 2) \in Word16
  BY <1>1, PortRange, 0 \in Nat, 2 \in Nat, 0 + 2 <= 48, 2 + 2 <= 48
<1>4. /\ Slice(raw, 4, n) \in Bytes(n) /\ Slice(raw, 20, n) \in Bytes(n)
      /\ Slice(raw, 36, 4) \in Bytes(4) /\ Slice(raw, 40, 8) \in Bytes(8)
  <2> HIDE DEF n
  <2>1. n \in Nat /\ 4 + n <= Len(raw) /\ 20 + n <= Len(raw)
    BY <1>1, <1>2
  <2>2. Slice(raw, 36, 4) \in Bytes(4)
    BY <1>1, SliceBytes, 4 \in Nat, 36 \in Nat, 36 + 4 <= 48
  <2>3. Slice(raw, 40, 8) \in Bytes(8)
    BY <1>1, SliceBytes, 8 \in Nat, 40 \in Nat, 40 + 8 <= 48
  <2>4. Slice(raw, 4, n) \in Bytes(n)
    BY <1>1, <2>1, SliceBytes, 4 \in Nat
  <2>5. Slice(raw, 20, n) \in Bytes(n)
    BY <1>1, <2>1, SliceBytes, 20 \in Nat
  <2> QED
    BY <2>2, <2>3, <2>4, <2>5
<1>5. /\ Slice(raw, 4, n) \in IpAddr /\ Len(Slice(raw, 4, n)) = n
      /\ Slice(raw, 20, n) \in IpAddr /\ Len(Slice(raw, 20, n)) = n
  BY <1>2, <1>4 DEF IpAddr, Bytes
<1>6. /\ af \in {AF_INET, AF_INET6}
      /\ ParseSocketId(raw, af).val =
           [source_port         |-> PortFromBe(raw, 0),
            destination_port    |-> PortFromBe(raw, 2),
            source_address      |-> Slice(raw, 4, n),
            destination_address |-> Slice(raw, 20, n),
            interface_id        |-> Slice(raw, 36, 4),
            cookie              |-> Slice(raw, 40, 8)]
  BY DEF ParseSocketId, Ok, Err
<1> HIDE DEF n
<1>7. ParseSocketId(raw, af).val \in SocketId
  BY <1>3, <1>4, <1>5, <1>6 DEF SocketId
<1>8. /\ ParseSocketId(raw, af).val.source_address = Slice(raw, 4, n)
      /\ ParseSocketId(raw, af).val.destination_address = Slice(raw, 20, n)
  BY <1>6
<1> QED
  BY <1>5, <1>6, <1>7, <1>8 DEF IdAgrees, n

LEMMA AgreesAlike ==
  ASSUME NEW h
  PROVE  AddressesAgree(h) <=> IdAgrees(h.socket_id, h.family)
BY DEF AddressesAgree, IdAgrees

-----------------------------------------------------------------------------
(***************************************************************************)
(* src/inet/request.rs.                                                    *)
(***************************************************************************)
LEMMA InetRequestShape ==
  ASSUME NEW r \in InetRequest
  PROVE  /\ r.family \in Byte /\ r.protocol \in Byte
         /\ r.extensions \in Byte /\ TruncateExtensions(r.extensions) = r.extensions
         /\ r.states \in Bytes(4)
         /\ r.socket_id \in SocketId
         /\ r = [family     |-> r.family,
                 protocol   |-> r.protocol,
                 extensions |-> r.extensions,
                 states     |-> r.states,
                 socket_id  |-> r.socket_id]
BY ExtensionsFacts DEF InetRequest

LEMMA InetRequestFacts ==
  ASSUME NEW r \in InetRequest
  PROVE  /\ EmitInetRequest(r) \in Bytes(56)
         /\ \A b \in Seq(Byte) : Holds(b, 0, EmitInetRequest(r)) =>
              /\ b[1] = r.family
              /\ AddressesAgree(r) /\ InetStatesNamed(r.states) => ParseInetRequest(b) = Ok(r)
<1> DEFINE h == << r.family, r.protocol, r.extensions, 0 >>
           s == r.states
           i == EmitSocketId(r.socket_id)
<1>1. h \in Bytes(4) /\ s \in Bytes(4) /\ i \in Bytes(48)
  <2>1. 0 \in Byte
    BY ByteIs
  <2>2. h \in Bytes(4)
    BY <2>1, InetRequestShape, FourBytes
  <2> QED
    BY <2>2, InetRequestShape, SocketIdFacts
<1>2. EmitInetRequest(r) = h \o s \o i
  BY DEF EmitInetRequest
<1> HIDE DEF s, i
<1>3. h \o s \in Bytes(8)
  BY <1>1, BytesConcat, 4 \in Nat, 4 + 4 = 8
<1>4. EmitInetRequest(r) \in Bytes(56)
  BY <1>1, <1>2, <1>3, BytesConcat, 8 \in Nat, 48 \in Nat, 8 + 48 = 56
<1>5. ASSUME NEW b \in Seq(Byte), Holds(b, 0, EmitInetRequest(r))
      PROVE  /\ b[1] = r.family
             /\ AddressesAgree(r) /\ InetStatesNamed(r.states) => ParseInetRequest(b) = Ok(r)
  <2> HIDE DEF h
  <2>1. Len(b) >= 56
    <3>1. Len(EmitInetRequest(r)) = 56 /\ Len(b) \in Nat
      BY <1>4 DEF Bytes
    <3> QED
      BY <1>5, <3>1 DEF Holds
  <2>2. Holds(b, 0, h \o s) /\ Holds(b, 8, i)
    BY <1>1, <1>2, <1>3, <1>5, HoldsParts, 0 \in Nat, 8 \in Nat, 48 \in Nat, 0 + 8 = 8
  <2>3. Holds(b, 0, h) /\ Holds(b, 4, s)
    BY <1>1, <2>2, HoldsParts, 0 \in Nat, 4 \in Nat, 0 + 4 = 4
  <2>4. b[1] = r.family /\ b[2] = r.protocol /\ b[3] = r.extensions
    BY <2>3, HoldsFour DEF h
  <2>5. Slice(b, 4, 4) = r.states /\ Slice(b, 8, 48) = EmitSocketId(r.socket_id)
    BY <1>1, <2>2, <2>3, HoldsBytes, 4 \in Nat, 8 \in Nat, 48 \in Nat DEF s, i
  <2>6. ASSUME AddressesAgree(r), InetStatesNamed(r.states) PROVE ParseInetRequest(b) = Ok(r)
    <3>1. ParseSocketId(Slice(b, 8, 48), b[1]) = Ok(r.socket_id)
      BY <2>4, <2>5, <2>6, AgreesAlike, SocketIdBack, InetRequestShape
    <3>2. ~(Len(b) < InetRequestLen) /\ SocketIdLen = 48
      BY <2>1 DEF InetRequestLen, SocketIdLen
    <3>3. ParseInetRequest(b) = Ok([family     |-> b[1],
                                    protocol   |-> b[2],
                                    extensions |-> TruncateExtensions(b[3]),
                                    states     |-> TruncateStates(Slice(b, 4, 4)),
                                    socket_id  |-> r.socket_id])
      <4>1. /\ ParseSocketId(Slice(b, 8, SocketIdLen), b[1]).ok
            /\ ParseSocketId(Slice(b, 8, SocketIdLen), b[1]).val = r.socket_id
        BY <3>1, <3>2 DEF Ok
      <4> QED
        BY <3>2, <4>1 DEF ParseInetRequest
    <3>4. TruncateStates(r.states) = r.states
      BY <2>6, InetRequestShape, NamedFacts
    <3> QED
      BY <3>3, <3>4, <2>4, <2>5, InetRequestShape
  <2> QED
    BY <2>4, <2>6
<1> QED
  BY <1>4, <1>5

LEMMA InetRequestTyped ==
  ASSUME NEW b \in Seq(Byte), ParseInetRequest(b).ok
  PROVE  /\ ParseInetRequest(b).val \in InetRequest
         /\ AddressesAgree(ParseInetRequest(b).val)
         /\ InetStatesNamed(ParseInetRequest(b).val.states)
<1> DEFINE id == ParseSocketId(Slice(b, 8, 48), b[1])
           r  == ParseInetRequest(b).val
<1>1. SocketIdLen = 48 /\ InetRequestLen = 56
  BY DEF SocketIdLen, InetRequestLen
<1>2. /\ Len(b) >= 56 /\ id.ok
      /\ r = [family     |-> b[1],
              protocol   |-> b[2],
              extensions |-> TruncateExtensions(b[3]),
              states     |-> TruncateStates(Slice(b, 4, 4)),
              socket_id  |-> id.val]
  BY <1>1 DEF ParseInetRequest, Ok, Err
<1>3. Slice(b, 8, 48) \in Bytes(48) /\ Slice(b, 4, 4) \in Bytes(4)
  <2>1. 8 + 48 <= Len(b) /\ 4 + 4 <= Len(b)
    BY <1>2
  <2> QED
    BY <2>1, SliceBytes, 8 \in Nat, 48 \in Nat, 4 \in Nat
<1>4. id.val \in SocketId /\ IdAgrees(id.val, b[1])
  BY <1>2, <1>3, SocketIdTyped
<1>5. b[1] \in Byte /\ b[2] \in Byte /\ b[3] \in Byte
  BY <1>2, FirstBytes
<1>6. /\ TruncateStates(Slice(b, 4, 4)) \in Bytes(4)
      /\ InetStatesNamed(TruncateStates(Slice(b, 4, 4)))
  BY <1>3, TruncatedNamed
<1>9. TruncateExtensions(b[3]) \in Byte
  BY <1>5, ExtensionsFacts
<1> HIDE DEF id, r
<1>7. r \in InetRequest /\ InetStatesNamed(r.states)
  BY <1>9, <1>2, <1>4, <1>5, <1>6 DEF InetRequest
<1>8. AddressesAgree(r)
  BY <1>2, <1>4, AgreesAlike
<1> QED
  BY <1>7, <1>8 DEF r

-----------------------------------------------------------------------------
(***************************************************************************)
(* The header of src/inet/response.rs.                                     *)
(***************************************************************************)
LEMMA TimerFacts ==
  ASSUME NEW t \in Timer
  PROVE  /\ TimerCode[t.kind] \in Byte
         /\ t.retransmits \in Byte
         /\ t.duration.expires \in Bytes(4)
         /\ t.duration.beyond = 0
              => ParseTimer(TimerCode[t.kind], t.duration.expires, t.retransmits) = t
<1>1. NoDuration.expires \in Bytes(4) /\ NoDuration.beyond = 0
      /\ NoDuration = Duration(NoDuration.expires)
  BY ZerosBytes DEF NoDuration, Duration
<1>2. 0 \in Byte /\ 1 \in Byte /\ 2 \in Byte /\ 3 \in Byte /\ 4 \in Byte
  BY ByteIs
<1>3. \A d \in Durations : d.expires \in Bytes(4) /\ (d.beyond = 0 => Duration(d.expires) = d)
  BY DEF Durations, Duration
<1>4. CASE t \in [kind : {"None", "TimeWait"}, duration : {NoDuration}, retransmits : {0}]
  BY <1>1, <1>2, <1>4 DEF TimerCode, ParseTimer, TimerOf
<1>5. CASE t \in [kind : {"KeepAlive", "Probe"}, duration : Durations, retransmits : {0}]
  <2>1. /\ t.duration.expires \in Bytes(4)
        /\ (t.duration.beyond = 0 => Duration(t.duration.expires) = t.duration)
    BY <1>3, <1>5
  <2> QED
    BY <2>1, <1>2, <1>5 DEF TimerCode, ParseTimer, TimerOf
<1>6. CASE t \in [kind : {"Retransmit"}, duration : Durations, retransmits : Byte]
  <2>1. /\ t.duration.expires \in Bytes(4)
        /\ (t.duration.beyond = 0 => Duration(t.duration.expires) = t.duration)
    BY <1>3, <1>6
  <2> QED
    BY <2>1, <1>2, <1>6 DEF TimerCode, ParseTimer, TimerOf
<1> QED
  BY <1>4, <1>5, <1>6 DEF Timer

LEMMA TimerTyped ==
  ASSUME NEW code \in Byte, NEW e \in Bytes(4), NEW n \in Byte
  PROVE  ParseTimer(code, e, n) \in Timer /\ ParseTimer(code, e, n).duration.beyond = 0
<1>1. Duration(e) \in Durations /\ Duration(e).beyond = 0 /\ NoDuration.beyond = 0
  BY DEF Duration, Durations, NoDuration
<1> QED
  BY <1>1 DEF ParseTimer, TimerOf, Timer

LEMMA InetHeaderShape ==
  ASSUME NEW h \in InetResponseHeader
  PROVE  /\ h.family \in Byte /\ h.state \in Byte /\ h.timer \in Timer
         /\ h.socket_id \in SocketId /\ h.words \in Bytes(16)
         /\ h = [family    |-> h.family,
                 state     |-> h.state,
                 timer     |-> h.timer,
                 socket_id |-> h.socket_id,
                 words     |-> h.words]
BY DEF InetResponseHeader

LEMMA InetHeaderFacts ==
  ASSUME NEW h \in InetResponseHeader
  PROVE  /\ EmitInetHeader(h) \in Bytes(72)
         /\ \A b \in Seq(Byte) : Holds(b, 0, EmitInetHeader(h)) =>
              /\ b[1] = h.family
              /\ AddressesAgree(h) /\ h.timer.duration.beyond = 0
                   => ParseInetHeader(b) = Ok(h)
<1> DEFINE f == << h.family, h.state, TimerCode[h.timer.kind], h.timer.retransmits >>
           i == EmitSocketId(h.socket_id)
           x == h.timer.duration.expires
           w == h.words
<1>1. f \in Bytes(4) /\ i \in Bytes(48) /\ x \in Bytes(4) /\ w \in Bytes(16)
  <2>1. f \in Bytes(4)
    BY InetHeaderShape, TimerFacts, FourBytes
  <2> QED
    BY <2>1, InetHeaderShape, TimerFacts, SocketIdFacts
<1>2. EmitInetHeader(h) = f \o i \o x \o w
  BY DEF EmitInetHeader
<1> HIDE DEF i, x, w
<1>3. f \o i \in Bytes(52)
  BY <1>1, BytesConcat, 4 \in Nat, 48 \in Nat, 4 + 48 = 52
<1>4. f \o i \o x \in Bytes(56)
  BY <1>1, <1>3, BytesConcat, 52 \in Nat, 4 \in Nat, 52 + 4 = 56
<1>5. EmitInetHeader(h) \in Bytes(72)
  BY <1>1, <1>2, <1>4, BytesConcat, 56 \in Nat, 16 \in Nat, 56 + 16 = 72
<1>6. ASSUME NEW b \in Seq(Byte), Holds(b, 0, EmitInetHeader(h))
      PROVE  /\ b[1] = h.family
             /\ AddressesAgree(h) /\ h.timer.duration.beyond = 0
                  => ParseInetHeader(b) = Ok(h)
  <2> HIDE DEF f
  <2>1. Len(b) >= 72
    <3>1. Len(EmitInetHeader(h)) = 72 /\ Len(b) \in Nat
      BY <1>5 DEF Bytes
    <3> QED
      BY <1>6, <3>1 DEF Holds
  <2>2. Holds(b, 0, f \o i \o x) /\ Holds(b, 56, w)
    BY <1>1, <1>2, <1>4, <1>6, HoldsParts, 0 \in Nat, 56 \in Nat, 16 \in Nat, 0 + 56 = 56
  <2>3. Holds(b, 0, f \o i) /\ Holds(b, 52, x)
    BY <1>1, <1>3, <2>2, HoldsParts, 0 \in Nat, 52 \in Nat, 4 \in Nat, 0 + 52 = 52
  <2>4. Holds(b, 0, f) /\ Holds(b, 4, i)
    BY <1>1, <2>3, HoldsParts, 0 \in Nat, 4 \in Nat, 48 \in Nat, 0 + 4 = 4
  <2>5. /\ b[1] = h.family /\ b[2] = h.state
        /\ b[3] = TimerCode[h.timer.kind] /\ b[4] = h.timer.retransmits
    BY <2>4, HoldsFour DEF f
  <2>6. /\ Slice(b, 4, 48) = EmitSocketId(h.socket_id)
        /\ Slice(b, 52, 4) = h.timer.duration.expires
        /\ Slice(b, 56, 16) = h.words
    BY <1>1, <2>2, <2>3, <2>4, HoldsBytes, 4 \in Nat, 48 \in Nat, 52 \in Nat, 56 \in Nat,
       16 \in Nat
       DEF i, x, w
  <2>7. ASSUME AddressesAgree(h), h.timer.duration.beyond = 0 PROVE ParseInetHeader(b) = Ok(h)
    <3>1. ParseSocketId(Slice(b, 4, 48), b[1]) = Ok(h.socket_id)
      BY <2>5, <2>6, <2>7, AgreesAlike, SocketIdBack, InetHeaderShape
    <3>2. ParseTimer(b[3], Slice(b, 52, 4), b[4]) = h.timer
      BY <2>5, <2>6, <2>7, TimerFacts, InetHeaderShape
    <3>3. ~(Len(b) < InetResponseHeaderLen) /\ SocketIdLen = 48
      BY <2>1 DEF InetResponseHeaderLen, SocketIdLen
    <3>4. ParseInetHeader(b) = Ok([family    |-> b[1],
                                   state     |-> b[2],
                                   timer     |-> ParseTimer(b[3], Slice(b, 52, 4), b[4]),
                                   socket_id |-> h.socket_id,
                                   words     |-> Slice(b, 56, 16)])
      <4>1. /\ ParseSocketId(Slice(b, 4, SocketIdLen), b[1]).ok
            /\ ParseSocketId(Slice(b, 4, SocketIdLen), b[1]).val = h.socket_id
        BY <3>1, <3>3 DEF Ok
      <4> QED
        BY <3>3, <4>1 DEF ParseInetHeader
    <3> QED
      BY <3>2, <3>4, <2>5, <2>6, InetHeaderShape
  <2> QED
    BY <2>5, <2>7
<1> QED
  BY <1>5, <1>6

LEMMA InetHeaderTyped ==
  ASSUME NEW b \in Seq(Byte), ParseInetHeader(b).ok
  PROVE  /\ ParseInetHeader(b).val \in InetResponseHeader
         /\ AddressesAgree(ParseInetHeader(b).val)
         /\ ParseInetHeader(b).val.timer.duration.beyond = 0
<1> DEFINE id == ParseSocketId(Slice(b, 4, 48), b[1])
           t  == ParseTimer(b[3], Slice(b, 52, 4), b[4])
           r  == ParseInetHeader(b).val
<1>1. SocketIdLen = 48 /\ InetResponseHeaderLen = 72
  BY DEF SocketIdLen, InetResponseHeaderLen
<1>2. /\ Len(b) >= 72 /\ id.ok
      /\ r = [family    |-> b[1],
              state     |-> b[2],
              timer     |-> t,
              socket_id |-> id.val,
              words     |-> Slice(b, 56, 16)]
  BY <1>1 DEF ParseInetHeader, Ok, Err
<1>3. Slice(b, 4, 48) \in Bytes(48) /\ Slice(b, 52, 4) \in Bytes(4) /\ Slice(b, 56, 16) \in Bytes(16)
  <2>1. 4 + 48 <= Len(b) /\ 52 + 4 <= Len(b) /\ 56 + 16 <= Len(b)
    BY <1>2
  <2> QED
    BY <2>1, SliceBytes, 4 \in Nat, 48 \in Nat, 52 \in Nat, 56 \in Nat, 16 \in Nat
<1>4. id.val \in SocketId /\ IdAgrees(id.val, b[1])
  BY <1>2, <1>3, SocketIdTyped
<1>5. b[1] \in Byte /\ b[2] \in Byte /\ b[3] \in Byte /\ b[4] \in Byte
  BY <1>2, FirstBytes
<1>6. t \in Timer /\ t.duration.beyond = 0
  BY <1>3, <1>5, TimerTyped
<1> HIDE DEF id, t, r
<1>7. r \in InetResponseHeader /\ r.timer.duration.beyond = 0
  BY <1>2, <1>3, <1>4, <1>5, <1>6 DEF InetResponseHeader
<1>8. AddressesAgree(r)
  BY <1>2, <1>4, AgreesAlike
<1> QED
  BY <1>7, <1>8 DEF r

-----------------------------------------------------------------------------
(***************************************************************************)
(* src/unix/request.rs and the header of src/unix/response.rs.             *)
(***************************************************************************)
LEMMA UnixRequestFacts ==
  ASSUME NEW r \in UnixRequest
  PROVE  /\ EmitUnixRequest(r) \in Bytes(24)
         /\ UnixStatesNamed(r.state_flags) /\ ShowNamed(r.show_flags) =>
              \A b \in Seq(Byte) : Holds(b, 0, EmitUnixRequest(r)) => ParseUnixRequest(b) = Ok(r)
<1> DEFINE f  == << AF_UNIX, 0, 0, 0 >>
           s1 == r.state_flags
           i  == r.inode
           s2 == r.show_flags
           c  == r.cookie
<1>1. s1 \in Bytes(4) /\ i \in Bytes(4) /\ s2 \in Bytes(4) /\ c \in Bytes(8)
  BY DEF UnixRequest
<1>0. r = [state_flags |-> s1, inode |-> i, show_flags |-> s2, cookie |-> c]
  BY DEF UnixRequest
<1>2. f \in Bytes(4)
  <2>1. AF_UNIX \in Byte /\ 0 \in Byte
    BY ByteIs DEF AF_UNIX
  <2> QED
    BY <2>1, FourBytes
<1>3. EmitUnixRequest(r) = f \o s1 \o i \o s2 \o c
  BY DEF EmitUnixRequest
<1> HIDE DEF f, s1, i, s2, c
<1>4. f \o s1 \in Bytes(8)
  BY <1>1, <1>2, BytesConcat, 4 \in Nat, 4 + 4 = 8
<1>5. f \o s1 \o i \in Bytes(12)
  BY <1>1, <1>4, BytesConcat, 4 \in Nat, 8 \in Nat, 8 + 4 = 12
<1>6. f \o s1 \o i \o s2 \in Bytes(16)
  BY <1>1, <1>5, BytesConcat, 4 \in Nat, 12 \in Nat, 12 + 4 = 16
<1>7. EmitUnixRequest(r) \in Bytes(24)
  BY <1>1, <1>3, <1>6, BytesConcat, 8 \in Nat, 16 \in Nat, 16 + 8 = 24
<1>8. ASSUME UnixStatesNamed(s1), ShowNamed(s2),
             NEW b \in Seq(Byte), Holds(b, 0, EmitUnixRequest(r))
      PROVE  ParseUnixRequest(b) = Ok(r)
  <2>1. Len(b) >= 24
    <3>1. Len(EmitUnixRequest(r)) = 24 /\ Len(b) \in Nat
      BY <1>7 DEF Bytes
    <3> QED
      BY <1>8, <3>1 DEF Holds
  <2>2. Holds(b, 0, f \o s1 \o i \o s2) /\ Holds(b, 16, c)
    BY <1>1, <1>3, <1>6, <1>8, HoldsParts, 0 \in Nat, 16 \in Nat, 8 \in Nat, 0 + 16 = 16
  <2>3. Holds(b, 0, f \o s1 \o i) /\ Holds(b, 12, s2)
    BY <1>1, <1>5, <2>2, HoldsParts, 0 \in Nat, 12 \in Nat, 4 \in Nat, 0 + 12 = 12
  <2>4. Holds(b, 0, f \o s1) /\ Holds(b, 8, i)
    BY <1>1, <1>4, <2>3, HoldsParts, 0 \in Nat, 8 \in Nat, 4 \in Nat, 0 + 8 = 8
  <2>5. Holds(b, 4, s1)
    BY <1>1, <1>2, <2>4, HoldsParts, 0 \in Nat, 4 \in Nat, 0 + 4 = 4
  <2>6. Slice(b, 4, 4) = s1 /\ Slice(b, 8, 4) = i /\ Slice(b, 12, 4) = s2 /\ Slice(b, 16, 8) = c
    BY <1>1, <2>2, <2>3, <2>4, <2>5, HoldsBytes, 4 \in Nat, 8 \in Nat, 12 \in Nat, 16 \in Nat
  <2>7. ~(Len(b) < UnixRequestLen)
    BY <2>1 DEF UnixRequestLen
  <2>8. TruncateUnixStates(s1) = s1 /\ TruncateShow(s2) = s2
    BY <1>1, <1>8, NamedFacts
  <2> QED
    BY <1>0, <2>6, <2>7, <2>8 DEF ParseUnixRequest
<1> QED
  BY <1>7, <1>8 DEF s1, s2

LEMMA UnixRequestTyped ==
  ASSUME NEW b \in Seq(Byte), ParseUnixRequest(b).ok
  PROVE  /\ ParseUnixRequest(b).val \in UnixRequest
         /\ UnixStatesNamed(ParseUnixRequest(b).val.state_flags)
         /\ ShowNamed(ParseUnixRequest(b).val.show_flags)
<1>1. UnixRequestLen = 24
  BY DEF UnixRequestLen
<1>2. /\ Len(b) >= 24
      /\ ParseUnixRequest(b).val = [state_flags |-> TruncateUnixStates(Slice(b, 4, 4)),
                                    inode       |-> Slice(b, 8, 4),
                                    show_flags  |-> TruncateShow(Slice(b, 12, 4)),
                                    cookie      |-> Slice(b, 16, 8)]
  BY <1>1 DEF ParseUnixRequest, Ok, Err
<1>3. /\ Slice(b, 4, 4) \in Bytes(4) /\ Slice(b, 8, 4) \in Bytes(4)
      /\ Slice(b, 12, 4) \in Bytes(4) /\ Slice(b, 16, 8) \in Bytes(8)
  <2>1. 4 + 4 <= Len(b) /\ 8 + 4 <= Len(b) /\ 12 + 4 <= Len(b) /\ 16 + 8 <= Len(b)
    BY <1>2
  <2> QED
    BY <2>1, SliceBytes, 4 \in Nat, 8 \in Nat, 12 \in Nat, 16 \in Nat
<1>4. /\ TruncateUnixStates(Slice(b, 4, 4)) \in Bytes(4)
      /\ UnixStatesNamed(TruncateUnixStates(Slice(b, 4, 4)))
      /\ TruncateShow(Slice(b, 12, 4)) \in Bytes(4)
      /\ ShowNamed(TruncateShow(Slice(b, 12, 4)))
  BY <1>3, TruncatedNamed
<1> QED
  BY <1>2, <1>3, <1>4 DEF UnixRequest

LEMMA UnixHeaderFacts ==
  ASSUME NEW h \in UnixResponseHeader
  PROVE  /\ EmitUnixHeader(h) \in Bytes(16)
         /\ \A b \in Seq(Byte) : Holds(b, 0, EmitUnixHeader(h)) =>
              b[1] = AF_UNIX /\ ParseUnixHeader(b) = Ok(h)
<1> DEFINE f == << AF_UNIX, h.kind, h.state, 0 >>
           i == h.inode
           c == h.cookie
<1>1. /\ h.kind \in Byte /\ h.state \in Byte /\ i \in Bytes(4) /\ c \in Bytes(8)
  BY DEF UnixResponseHeader
<1>0. h = [kind |-> h.kind, state |-> h.state, inode |-> i, cookie |-> c]
  BY DEF UnixResponseHeader
<1>2. f \in Bytes(4)
  <2>1. AF_UNIX \in Byte /\ 0 \in Byte
    BY ByteIs DEF AF_UNIX
  <2> QED
    BY <1>1, <2>1, FourBytes
<1>3. EmitUnixHeader(h) = f \o i \o c
  BY DEF EmitUnixHeader
<1> HIDE DEF i, c
<1>4. f \o i \in Bytes(8)
  BY <1>1, <1>2, BytesConcat, 4 \in Nat, 4 + 4 = 8
<1>5. EmitUnixHeader(h) \in Bytes(16)
  BY <1>1, <1>3, <1>4, BytesConcat, 8 \in Nat, 8 + 8 = 16
<1>6. ASSUME NEW b \in Seq(Byte), Holds(b, 0, EmitUnixHeader(h))
      PROVE  b[1] = AF_UNIX /\ ParseUnixHeader(b) = Ok(h)
  <2> HIDE DEF f
  <2>1. Len(b) >= 16
    <3>1. Len(EmitUnixHeader(h)) = 16 /\ Len(b) \in Nat
      BY <1>5 DEF Bytes
    <3> QED
      BY <1>6, <3>1 DEF Holds
  <2>2. Holds(b, 0, f \o i) /\ Holds(b, 8, c)
    BY <1>1, <1>3, <1>4, <1>6, HoldsParts, 0 \in Nat, 8 \in Nat, 0 + 8 = 8
  <2>3. Holds(b, 0, f) /\ Holds(b, 4, i)
    BY <1>1, <1>2, <2>2, HoldsParts, 0 \in Nat, 4 \in Nat, 0 + 4 = 4
  <2>4. b[1] = AF_UNIX /\ b[2] = h.kind /\ b[3] = h.state
    BY <2>3, HoldsFour DEF f
  <2>5. Slice(b, 4, 4) = i /\ Slice(b, 8, 8) = c
    BY <1>1, <2>2, <2>3, HoldsBytes, 4 \in Nat, 8 \in Nat
  <2>6. ~(Len(b) < UnixResponseHeaderLen)
    BY <2>1 DEF UnixResponseHeaderLen
  <2> QED
    BY <1>0, <2>4, <2>5, <2>6 DEF ParseUnixHeader
<1> QED
  BY <1>5, <1>6

LEMMA UnixHeaderTyped ==
  ASSUME NEW b \in Seq(Byte), ParseUnixHeader(b).ok
  PROVE  ParseUnixHeader(b).val \in UnixResponseHeader
<1>1. UnixResponseHeaderLen = 16
  BY DEF UnixResponseHeaderLen
<1>2. /\ Len(b) >= 16
      /\ ParseUnixHeader(b).val = [kind   |-> b[2],
                                   state  |-> b[3],
                                   inode  |-> Slice(b, 4, 4),
                                   cookie |-> Slice(b, 8, 8)]
  BY <1>1 DEF ParseUnixHeader, Ok, Err
<1>3. Slice(b, 4, 4) \in Bytes(4) /\ Slice(b, 8, 8) \in Bytes(8)
  <2>1. 4 + 4 <= Len(b) /\ 8 + 8 <= Len(b)
    BY <1>2
  <2> QED
    BY <2>1, SliceBytes, 4 \in Nat, 8 \in Nat
<1>4. b[2] \in Byte /\ b[3] \in Byte
  BY <1>2, FirstBytes
<1> QED
  BY <1>2, <1>3, <1>4 DEF UnixResponseHeader

-----------------------------------------------------------------------------
(***************************************************************************)
(* The four structures under the names of SockDiagMessage.                 *)
(***************************************************************************)
HeaderSet(variant) ==
  CASE variant = "InetRequest"  -> InetRequest
    [] variant = "InetResponse" -> InetResponseHeader
    [] variant = "UnixRequest"  -> UnixRequest
    [] variant = "UnixResponse" -> UnixResponseHeader

(* What Survives() asks of the header.                                     *)
HeaderSurvives(variant, h) ==
  /\ variant = "InetRequest" => InetStatesNamed(h.states)
  /\ variant = "UnixRequest" => UnixStatesNamed(h.state_flags) /\ ShowNamed(h.show_flags)
  /\ variant \in InetVariants => AddressesAgree(h)
  /\ variant = "InetResponse" => h.timer.duration.beyond = 0

LEMMA HeaderLens ==
  /\ HeaderLen("InetRequest") = 56 /\ HeaderLen("InetResponse") = 72
  /\ HeaderLen("UnixRequest") = 24 /\ HeaderLen("UnixResponse") = 16
  /\ \A variant \in Variants : HeaderLen(variant) \in Nat /\ HeaderLen(variant) > 0
BY DEF HeaderLen, InetRequestLen, InetResponseHeaderLen, UnixRequestLen,
       UnixResponseHeaderLen, Variants, Requests, Responses

LEMMA HeaderBytes ==
  ASSUME NEW m, m.variant \in Variants, m.header \in HeaderSet(m.variant)
  PROVE  EmitHeader(m) \in Bytes(HeaderLen(m.variant))
<1>1. CASE m.variant = "InetRequest"
  <2>1. m.header \in InetRequest /\ EmitHeader(m) = EmitInetRequest(m.header)
    BY <1>1 DEF HeaderSet, EmitHeader
  <2> QED
    BY <1>1, <2>1, HeaderLens, InetRequestFacts
<1>2. CASE m.variant = "InetResponse"
  <2>1. m.header \in InetResponseHeader /\ EmitHeader(m) = EmitInetHeader(m.header)
    BY <1>2 DEF HeaderSet, EmitHeader
  <2> QED
    BY <1>2, <2>1, HeaderLens, InetHeaderFacts
<1>3. CASE m.variant = "UnixRequest"
  <2>1. m.header \in UnixRequest /\ EmitHeader(m) = EmitUnixRequest(m.header)
    BY <1>3 DEF HeaderSet, EmitHeader
  <2> QED
    BY <1>3, <2>1, HeaderLens, UnixRequestFacts
<1>4. CASE m.variant = "UnixResponse"
  <2>1. m.header \in UnixResponseHeader /\ EmitHeader(m) = EmitUnixHeader(m.header)
    BY <1>4 DEF HeaderSet, EmitHeader
  <2> QED
    BY <1>4, <2>1, HeaderLens, UnixHeaderFacts
<1> QED
  BY <1>1, <1>2, <1>3, <1>4 DEF Variants, Requests, Responses

(* A header is read back from any buffer it was written to the front of,   *)
(* and the message is told by its family.                                  *)
LEMMA HeaderBack ==
  ASSUME NEW m, m.variant \in Variants, m.header \in HeaderSet(m.variant),
         HeaderSurvives(m.variant, m.header),
         NEW b \in Seq(Byte), Holds(b, 0, EmitHeader(m))
  PROVE  /\ ParseHeader(m.variant, b) = Ok(m.header)
         /\ m.variant \in Responses => VariantOf(SOCK_DIAG_BY_FAMILY, b) = m.variant
<1>1. Len(b) \in Nat /\ HeaderLen(m.variant) <= Len(b)
  <2>1. Len(EmitHeader(m)) = HeaderLen(m.variant)
    BY HeaderBytes DEF Bytes
  <2> QED
    BY <2>1, HeaderLens DEF Holds
<1>2. CASE m.variant = "InetRequest"
  <2>1. m.header \in InetRequest /\ EmitHeader(m) = EmitInetRequest(m.header)
    BY <1>2 DEF HeaderSet, EmitHeader
  <2>2. ParseInetRequest(b) = Ok(m.header)
    BY <1>2, <2>1, InetRequestFacts DEF HeaderSurvives, InetVariants
  <2> QED
    BY <1>1, <1>2, <2>2, HeaderLens DEF ParseHeader, Responses
<1>3. CASE m.variant = "InetResponse"
  <2>1. m.header \in InetResponseHeader /\ EmitHeader(m) = EmitInetHeader(m.header)
    BY <1>3 DEF HeaderSet, EmitHeader
  <2>2. ParseInetHeader(b) = Ok(m.header) /\ b[1] = m.header.family
    BY <1>3, <2>1, InetHeaderFacts DEF HeaderSurvives, InetVariants
  <2>3. b[1] \in {AF_INET, AF_INET6}
    BY <1>3, <2>2 DEF HeaderSurvives, InetVariants, AddressesAgree
  <2>4. ~(Len(b) < 72) /\ ~(Len(b) < 2)
    BY <1>1, <1>3, HeaderLens
  <2>5. ParseHeader(m.variant, b) = Ok(m.header)
    BY <1>3, <2>2, <2>4, HeaderLens DEF ParseHeader
  <2>6. VariantOf(SOCK_DIAG_BY_FAMILY, b) = "InetResponse"
    BY <2>3, <2>4 DEF VariantOf, AF_UNIX, AF_INET, AF_INET6
  <2> QED
    BY <1>3, <2>5, <2>6
<1>4. CASE m.variant = "UnixRequest"
  <2>1. m.header \in UnixRequest /\ EmitHeader(m) = EmitUnixRequest(m.header)
    BY <1>4 DEF HeaderSet, EmitHeader
  <2>2. ParseUnixRequest(b) = Ok(m.header)
    BY <1>4, <2>1, UnixRequestFacts DEF HeaderSurvives
  <2> QED
    BY <1>1, <1>4, <2>2, HeaderLens DEF ParseHeader, Responses
<1>5. CASE m.variant = "UnixResponse"
  <2>1. m.header \in UnixResponseHeader /\ EmitHeader(m) = EmitUnixHeader(m.header)
    BY <1>5 DEF HeaderSet, EmitHeader
  <2>2. ParseUnixHeader(b) = Ok(m.header) /\ b[1] = AF_UNIX
    BY <2>1, UnixHeaderFacts
  <2>3. ~(Len(b) < 16) /\ ~(Len(b) < 2)
    BY <1>1, <1>5, HeaderLens
  <2>4. ParseHeader(m.variant, b) = Ok(m.header)
    BY <1>5, <2>2, <2>3, HeaderLens DEF ParseHeader
  <2>5. VariantOf(SOCK_DIAG_BY_FAMILY, b) = "UnixResponse"
    BY <2>2, <2>3 DEF VariantOf, AF_UNIX, AF_INET, AF_INET6
  <2> QED
    BY <1>5, <2>4, <2>5
<1> QED
  BY <1>2, <1>3, <1>4, <1>5 DEF Variants, Requests, Responses

LEMMA HeaderTyped ==
  ASSUME NEW variant \in Variants, NEW b \in Seq(Byte), ParseHeader(variant, b).ok
  PROVE  /\ ParseHeader(variant, b).val \in HeaderSet(variant)
         /\ HeaderSurvives(variant, ParseHeader(variant, b).val)
         /\ HeaderLen(variant) <= Len(b)
<1>1. ~(Len(b) < HeaderLen(variant)) /\ HeaderLen(variant) <= Len(b)
  BY HeaderLens DEF ParseHeader, Err
<1>2. CASE variant = "InetRequest"
  <2>1. ParseHeader(variant, b) = ParseInetRequest(b)
    BY <1>1, <1>2 DEF ParseHeader
  <2> QED
    BY <1>1, <1>2, <2>1, InetRequestTyped DEF HeaderSet, HeaderSurvives
<1>3. CASE variant = "InetResponse"
  <2>1. ParseHeader(variant, b) = ParseInetHeader(b)
    BY <1>1, <1>3 DEF ParseHeader
  <2> QED
    BY <1>1, <1>3, <2>1, InetHeaderTyped DEF HeaderSet, HeaderSurvives
<1>4. CASE variant = "UnixRequest"
  <2>1. ParseHeader(variant, b) = ParseUnixRequest(b)
    BY <1>1, <1>4 DEF ParseHeader
  <2> QED
    BY <1>1, <1>4, <2>1, UnixRequestTyped DEF HeaderSet, HeaderSurvives, InetVariants
<1>5. CASE variant = "UnixResponse"
  <2>1. ParseHeader(variant, b) = ParseUnixHeader(b)
    BY <1>1, <1>5 DEF ParseHeader
  <2> QED
    BY <1>1, <1>5, <2>1, UnixHeaderTyped DEF HeaderSet, HeaderSurvives, InetVariants
<1> QED
  BY <1>2, <1>3, <1>4, <1>5 DEF Variants, Requests, Responses
=============================================================================
