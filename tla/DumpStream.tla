------------------------------ MODULE DumpStream ------------------------------
(***************************************************************************)
(* What a dump promises to its caller: the messages of the kernel's answer *)
(* are handled one at a time, in order, each once, until one of them ends  *)
(* the dump.  No buffers, datagrams or offsets.                            *)
(***************************************************************************)
EXTENDS Integers, Sequences

CONSTANTS Messages,          \* the messages the kernel may answer with
          EndsWith(_)        \* how handling a message ends the dump: "done",
                             \* "aborted" or "panicked", or "running" if it does not

VARIABLES stream,      \* the messages of the answer so far
          delivered,   \* the messages handled so far
          outcome      \* "running", an end, or "closed" when a socket call failed

vars == << stream, delivered, outcome >>

Init == stream = << >> /\ delivered = << >> /\ outcome = "running"

Send ==
  /\ \E m \in Messages : stream' = Append(stream, m)
  /\ UNCHANGED << delivered, outcome >>

Deliver ==
  /\ outcome = "running"
  /\ Len(delivered) < Len(stream)
  /\ LET m == stream[Len(delivered) + 1]
     IN  delivered' = Append(delivered, m) /\ outcome' = EndsWith(m)
  /\ UNCHANGED stream

Fail ==
  /\ outcome = "running"
  /\ outcome' = "closed"
  /\ UNCHANGED << stream, delivered >>

Next == Send \/ Deliver \/ Fail

Spec == Init /\ [][Next]_vars
=============================================================================
