-------------------------- MODULE MCEvidenceLedger --------------------------
(***************************************************************************)
(* Two slots of one source and one of another.  The records of slot "p"    *)
(* have every relation two observations can have: older, newer by sequence *)
(* or by generation, and in conflict.                                      *)
(***************************************************************************)
EXTENDS EvidenceLedger

MCSlot == {"p", "q", "r"}

MCSourceOf == [s \in MCSlot |-> IF s = "r" THEN "other" ELSE "main"]

rec(slot, generation, sequence, digest) ==
  [slot |-> slot, generation |-> generation, sequence |-> sequence,
   digest |-> digest, valid |-> TRUE]

MCEvidence ==
  {rec("p", 1, 2, 5), rec("p", 1, 2, 3), rec("p", 1, 3, 7), rec("p", 2, 1, 4),
   rec("q", 1, 1, 6), rec("r", 1, 1, 8),
   [slot |-> "q", generation |-> 3, sequence |-> 3, digest |-> 9, valid |-> FALSE]}

=============================================================================
