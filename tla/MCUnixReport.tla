----------------------------- MODULE MCUnixReport -----------------------------
(***************************************************************************)
(* A byte for each set of directions that are shut down.  It is only       *)
(* handed through: any byte for the sockets that are shut down would do.   *)
(***************************************************************************)
EXTENDS UnixReport

MCShutdownByte(d) ==
  (IF "RD" \in d THEN 1 ELSE 0) + (IF "WR" \in d THEN 2 ELSE 0)
=============================================================================
