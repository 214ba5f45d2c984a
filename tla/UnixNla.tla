------------------------------- MODULE UnixNla -------------------------------
(***************************************************************************)
(* src/unix/nlas.rs: the attributes of an AF_UNIX response.                *)
(***************************************************************************)
EXTENDS NetlinkCore

VfsLen         == 2 * 4
UnixMemInfoLen == 9 * 4

(***************************************************************************)
(* The attributes there are.  A UnixDiagName is a Pathname or an Abstract  *)
(* address, any bytes; MemInfo has three of the nine words of its buffer.  *)
(***************************************************************************)
UnixDiagName == [tag : {"Pathname", "Abstract"}, val : Seq(Byte)]
Vfs          == Bytes(VfsLen)
UnixMemInfo  == Bytes(3 * 4)

UnixNla ==
  UnixDiagName
    \cup [tag : {"Vfs"}, val : Vfs]
    \cup [tag : {"Peer"}, val : Bytes(4)]
    \cup [tag : {"PendingConnections"}, val : {v \in Seq(Byte) : Len(v) % 4 = 0}]
    \cup [tag : {"ReceiveQueueLength"}, val : Bytes(8)]
    \cup [tag : {"MemInfo"}, val : UnixMemInfo]
    \cup [tag : {"Shutdown"}, val : Bytes(1)]
    \cup DefaultNla

(* UnixDiagName::parse.  A leading NUL means an abstract address, whatever *)
(* follows; anything else must be a C string: one NUL, at the end.         *)
ParseName(v) ==
  LET n == Len(v)
  IN  IF n > 0 /\ v[1] = 0 THEN Ok(Attr("Abstract", Slice(v, 1, n - 1)))
      ELSE IF n > 0 /\ v[n] = 0 /\ \A i \in 1 .. n - 1 : v[i] # 0
           THEN Ok(Attr("Pathname", Slice(v, 0, n - 1)))
           ELSE Err

ParseVfs(v) == AtLeast("Vfs", VfsLen, v)

(* Only so_rcvbuf, max_datagram_size and alloc of the nine words are kept. *)
ParseUnixMemInfo(v) ==
  IF Len(v) >= UnixMemInfoLen
  THEN Ok(Attr("MemInfo", Slice(v, 4, 4) \o Slice(v, 12, 4) \o Slice(v, 20, 4)))
  ELSE Err

ParsePendingConnections(v) ==
  IF Len(v) % 4 = 0 THEN Ok(Attr("PendingConnections", v)) ELSE Err

UnixParseNla(type, v) ==
  LET kind == NlaKind(type)
  IN  CASE kind = UNIX_DIAG_NAME     -> ParseName(v)
        [] kind = UNIX_DIAG_VFS      -> ParseVfs(v)
        [] kind = UNIX_DIAG_PEER     -> Exactly("Peer", 4, v)
        [] kind = UNIX_DIAG_ICONS    -> ParsePendingConnections(v)
        [] kind = UNIX_DIAG_RQLEN    -> Exactly("ReceiveQueueLength", 8, v)
        [] kind = UNIX_DIAG_MEMINFO  -> ParseUnixMemInfo(v)
        [] kind = UNIX_DIAG_SHUTDOWN -> Exactly("Shutdown", 1, v)
        [] OTHER                     -> Ok(Other(type, v))

UnixKindOf ==
  [Pathname |-> UNIX_DIAG_NAME, Abstract |-> UNIX_DIAG_NAME,
   Vfs      |-> UNIX_DIAG_VFS,  Peer     |-> UNIX_DIAG_PEER,
   PendingConnections |-> UNIX_DIAG_ICONS,
   ReceiveQueueLength |-> UNIX_DIAG_RQLEN,
   MemInfo  |-> UNIX_DIAG_MEMINFO, Shutdown |-> UNIX_DIAG_SHUTDOWN]

UnixKind(a) == IF a.tag = "Other" THEN a.kind ELSE UnixKindOf[a.tag]

UnixValueLen(a) ==
  CASE a.tag \in {"Pathname", "Abstract"} -> Len(a.val) + 1
    [] a.tag = "Vfs"                      -> VfsLen
    [] a.tag = "Peer"                     -> 4
    [] a.tag = "PendingConnections"       -> 4 * (Len(a.val) \div 4)
    [] a.tag = "ReceiveQueueLength"       -> 8
    [] a.tag = "MemInfo"                  -> UnixMemInfoLen
    [] a.tag = "Shutdown"                 -> 1
    [] a.tag = "Other"                    -> Len(a.val)

(* From<&MemInfo> for MemInfoBuffer: the words that are not kept are zero. *)
EmitUnixMemInfo(val) ==
  Zeros(4) \o Slice(val, 0, 4) \o Zeros(4) \o Slice(val, 4, 4)
    \o Zeros(4) \o Slice(val, 8, 4) \o Zeros(12)

UnixEmitValue(a) ==
  CASE a.tag = "Pathname" -> Append(a.val, 0)
    [] a.tag = "Abstract" -> << 0 >> \o a.val
    [] a.tag = "MemInfo"  -> EmitUnixMemInfo(a.val)
    [] OTHER              -> a.val

(* As in InetNla: names and structures are copied to the whole slice.      *)
UnixFillsSlice(a) == a.tag \in {"Pathname", "Abstract", "Vfs", "MemInfo", "Other"}
=============================================================================
