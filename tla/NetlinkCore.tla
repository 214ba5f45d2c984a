----------------------------- MODULE NetlinkCore -----------------------------
(***************************************************************************)
(* What this crate takes from netlink-packet-core: the framing of netlink  *)
(* attributes (NLAs), the iterator over them and the small value parsers.  *)
(* The crate is not part of the repository: the definitions are read off   *)
(* the uses in src/ and off the byte arrays of the tests.                  *)
(*                                                                         *)
(* A buffer is a sequence of bytes.  Integers are stored little endian, as *)
(* on the hosts the byte arrays of the tests were recorded on.             *)
(***************************************************************************)
EXTENDS Constants, Sequences

Byte     == 0 .. 255
Word16   == {n \in Nat : n <= 65535}
Bytes(n) == {b \in Seq(Byte) : Len(b) = n}

(* Result<T, DecodeError>; the text of an error is not modelled.           *)
Err   == [ok |-> FALSE]
Ok(v) == [ok |-> TRUE, val |-> v]

(* buffer[off .. off + n], with the 0-based offset of the code.            *)
Slice(b, off, n) == SubSeq(b, off + 1, off + n)

Zeros(n) == [i \in 1 .. n |-> 0]

U16(b, off)  == b[off + 1] + (256 * b[off + 2])
U16Bytes(n)  == << n % 256, n \div 256 >>

(* bitflags: n & mask, for the mask of the bits lo to hi.                  *)
KeepBits(n, lo, hi) == (n % 2^(hi + 1)) - (n % 2^lo)

(***************************************************************************)
(* The constants of the attribute framing.                                 *)
(***************************************************************************)
NLA_HEADER_SIZE == 4
U16_MAX         == 65535

AlignTo4(n) == ((n + 3) \div 4) * 4

(* Nla::buffer_len: header, value and padding.                             *)
NlaBufferLen(valueLen) == NLA_HEADER_SIZE + AlignTo4(valueLen)

(* The 16-bit length of an attribute counts its header and its value.  A   *)
(* value that does not fit makes Nla::emit panic: on the addition in a     *)
(* debug build, on the value slice of the wrapped length in a release one. *)
NlaFits(valueLen) == NLA_HEADER_SIZE + valueLen <= U16_MAX

(* The two high bits of a type are flags: kind() masks them out, only a    *)
(* DefaultNla keeps the type as it is.                                     *)
NlaLength(b, pos) == U16(b, pos)
NlaType(b, pos)   == U16(b, pos + 2)
NlaKind(type)     == type % 16384
NlaValue(b, pos)  == Slice(b, pos + NLA_HEADER_SIZE, NlaLength(b, pos) - NLA_HEADER_SIZE)

(* NlaBuffer::new_checked on what is left of the buffer, and a check that  *)
(* forgets that the length counts the header.                              *)
NlaCheckedLoosely(b, pos) ==
  LET left == Len(b) - pos
  IN  left >= NLA_HEADER_SIZE /\ NlaLength(b, pos) <= left

NlaChecked(b, pos) ==
  LET left == Len(b) - pos
  IN  /\ left >= NLA_HEADER_SIZE
      /\ NlaLength(b, pos) \in NLA_HEADER_SIZE .. left

(* What an attribute looks like on the wire.                               *)
NlaBytes(type, value) ==
  U16Bytes(NLA_HEADER_SIZE + Len(value)) \o U16Bytes(type) \o value
    \o Zeros(AlignTo4(Len(value)) - Len(value))

(***************************************************************************)
(* Attribute values.  A parsed attribute is its variant ("tag") and the    *)
(* bytes the variant keeps; an unknown one also keeps its type.            *)
(***************************************************************************)
Attr(tag, val)   == [tag |-> tag, val |-> val]
Other(type, val) == [tag |-> "Other", kind |-> type, val |-> val]

DefaultNla == [tag : {"Other"}, kind : Word16, val : Seq(Byte)]

(* parse_u8 and parse_u32 want exactly the integer's width.                *)
Exactly(tag, n, v) == IF Len(v) = n THEN Ok(Attr(tag, v)) ELSE Err

(* ref_from_prefix wants at least the structure and drops what follows;    *)
(* a parser that reads structures as it reads integers would not.          *)
JustAsLong(tag, n, v) == Exactly(tag, n, v)
AtLeast(tag, n, v) == IF Len(v) >= n THEN Ok(Attr(tag, Slice(v, 0, n))) ELSE Err

(***************************************************************************)
(* Strings are UTF-8.  A leading byte tells how many bytes its character   *)
(* has and what the second may be; a continuation byte belongs to one of   *)
(* the three before it.                                                    *)
(***************************************************************************)
Continuation == 128 .. 191

CharLen(lead) ==
  CASE lead \in 0 .. 127   -> 1
    [] lead \in 194 .. 223 -> 2
    [] lead \in 224 .. 239 -> 3
    [] lead \in 240 .. 244 -> 4
    [] OTHER               -> 0

SecondBytes(lead) ==
  CASE lead = 224 -> 160 .. 191      \* no overlong form,
    [] lead = 237 -> 128 .. 159      \* no surrogate,
    [] lead = 240 -> 144 .. 191
    [] lead = 244 -> 128 .. 143      \* nothing above U+10FFFF
    [] OTHER      -> Continuation

CharAt(s, i) ==
  /\ CharLen(s[i]) > 0
  /\ i + CharLen(s[i]) - 1 <= Len(s)
  /\ CharLen(s[i]) > 1 => s[i + 1] \in SecondBytes(s[i])
  /\ \A j \in i + 1 .. i + CharLen(s[i]) - 1 : s[j] \in Continuation

IsUtf8(s) ==
  \A i \in 1 .. Len(s) :
    IF s[i] \in Continuation
    THEN \E j \in 1 .. i - 1 : j >= i - 3 /\ j + CharLen(s[j]) > i
    ELSE CharAt(s, i)

String == {s \in Seq(Byte) : IsUtf8(s)}

(* parse_string: one trailing NUL is dropped, the rest must be UTF-8; and  *)
(* a parser that trusts the sender, String::from_utf8_unchecked.           *)
WithoutNul(v) ==
  LET n == Len(v) IN IF n > 0 /\ v[n] = 0 THEN Slice(v, 0, n - 1) ELSE v

ParseStringUnchecked(tag, v) == Ok(Attr(tag, WithoutNul(v)))

ParseString(tag, v) ==
  IF IsUtf8(WithoutNul(v)) THEN Ok(Attr(tag, WithoutNul(v))) ELSE Err
=============================================================================
