------------------------------- MODULE RunLog -------------------------------
(***************************************************************************)
(* What the event log of a run promises to those who read it (the run page,*)
(* the session rebuilt from the events): what is stored is always the      *)
(* beginning of what the agent emitted, it only grows, and the runner lets *)
(* go of an event when the log has it, or the run is over.                 *)
(***************************************************************************)
EXTENDS Integers

VARIABLES
  emitted, \* events the agent has emitted so far
  log,     \* the stored ones
  kept,    \* the runner still has the events from here on
  over     \* the run is terminal

vars == <<emitted, log, kept, over>>

\* The first n events.
FirstEvents(n) == 0..(n - 1)

Init == emitted = 0 /\ log = {} /\ kept = 0 /\ over = FALSE

Emit == emitted' = emitted + 1 /\ UNCHANGED <<log, kept, over>>

\* A batch, some of which may have been stored before; one on its way when the run ends
\* may still arrive.
Store ==
  /\ \E n \in 0..emitted : log' = log \cup FirstEvents(n)
  /\ UNCHANGED <<emitted, kept, over>>

Forget ==
  /\ \E n \in kept..emitted :
       /\ over \/ FirstEvents(n) \subseteq log
       /\ kept' = n
  /\ UNCHANGED <<emitted, log, over>>

End == over' = TRUE /\ UNCHANGED <<emitted, log, kept>>

Next == Emit \/ Store \/ Forget \/ End

Spec == Init /\ [][Next]_vars
=============================================================================
