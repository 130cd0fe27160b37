----------------------------- MODULE DurableLog -----------------------------
(***************************************************************************)
(* What the store promises the daemon: a history that only grows, one      *)
(* record at a time, and process incarnations that only increase.  Nothing *)
(* else is visible: checkpoints, restarts and crashes change neither.      *)
(***************************************************************************)
EXTENDS Integers, Sequences

CONSTANTS
  Record     \* the records the daemon appends

VARIABLES
  history,       \* the records a recovery would hand to the daemon
  incarnation    \* the last incarnation given to a process, 0 for none

vars == <<history, incarnation>>

Init == history = <<>> /\ incarnation = 0

Grow ==
  /\ Len(history') = Len(history) + 1
  /\ SubSeq(history', 1, Len(history)) = history
  /\ history'[Len(history')] \in Record
  /\ UNCHANGED incarnation

Issue ==
  /\ incarnation' > incarnation
  /\ UNCHANGED history

Next == Grow \/ Issue

Spec == Init /\ [][Next]_vars

=============================================================================
