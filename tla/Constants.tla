------------------------------ MODULE Constants ------------------------------
(***************************************************************************)
(* src/constants.rs: the numbers that the code decides on.  The protocols, *)
(* socket types and congestion states it lists besides are values a        *)
(* program may put into, or find in, a field that is only copied.          *)
(***************************************************************************)
EXTENDS Integers

SOCK_DIAG_BY_FAMILY == 20
SOCK_DESTROY        == 21

AF_UNIX  == 1
AF_INET  == 2
AF_INET6 == 10

INET_DIAG_MEMINFO   == 1
INET_DIAG_INFO      == 2
INET_DIAG_CONG      == 4
INET_DIAG_TOS       == 5
INET_DIAG_TCLASS    == 6
INET_DIAG_SKMEMINFO == 7
INET_DIAG_SHUTDOWN  == 8
INET_DIAG_PROTOCOL  == 10
INET_DIAG_SKV6ONLY  == 11
INET_DIAG_MARK      == 15
INET_DIAG_CLASS_ID  == 17

UNIX_DIAG_NAME     == 0
UNIX_DIAG_VFS      == 1
UNIX_DIAG_PEER     == 2
UNIX_DIAG_ICONS    == 3
UNIX_DIAG_RQLEN    == 4
UNIX_DIAG_MEMINFO  == 5
UNIX_DIAG_SHUTDOWN == 6

(* The first and the last of the TCP states, and the three a UNIX socket   *)
(* may be in.                                                              *)
TCP_ESTABLISHED == 1
TCP_CLOSE       == 7
TCP_LISTEN      == 10
TCP_CLOSING     == 11

(* "Shut down with SHUT_RD", as it is documented.                          *)
SHUT_RD == 0
=============================================================================
