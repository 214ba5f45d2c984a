----------------------------- MODULE MCDumpClient -----------------------------
(***************************************************************************)
(* Messages of one to three words for DumpClient.                          *)
(***************************************************************************)
EXTENDS DumpClient

M(kind, len) == [kind |-> kind, len |-> len]

MCMsgs ==
  {M("response", 1), M("response", 2), M("response", 3), M("noop", 1),
   M("undecodable", 2), M("other", 1)}

MCDoneMsg  == M("done", 1)
MCErrorMsg == M("other", 2)
=============================================================================
