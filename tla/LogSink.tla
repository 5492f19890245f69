----------------------------- MODULE LogSink -----------------------------
(***************************************************************************)
(* What the logger package promises: the records it accepts are written    *)
(* in the order they were accepted, each once, and when Close returns all  *)
(* of them are written and flushed.                                        *)
(***************************************************************************)
EXTENDS Naturals, Sequences

CONSTANTS Records

VARIABLES accepted,   \* records in the order the channel took them
          written,    \* how many of them went to the writers
          phase       \* "open", "closed" (Close called), "flushed"

vars == <<accepted, written, phase>>

Init == accepted = <<>> /\ written = 0 /\ phase = "open"

Accept(m) == /\ phase = "open"
             /\ accepted' = Append(accepted, m)
             /\ UNCHANGED <<written, phase>>

WriteNext == /\ written < Len(accepted)
             /\ written' = written + 1
             /\ UNCHANGED <<accepted, phase>>

Close == /\ phase = "open"
         /\ phase' = "closed"
         /\ UNCHANGED <<accepted, written>>

Flushed == /\ phase = "closed"
           /\ written = Len(accepted)
           /\ phase' = "flushed"
           /\ UNCHANGED <<accepted, written>>

Next == (\E m \in Records : Accept(m)) \/ WriteNext \/ Close \/ Flushed

Spec == Init /\ [][Next]_vars
=============================================================================
