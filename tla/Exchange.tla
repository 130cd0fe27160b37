------------------------------ MODULE Exchange ------------------------------
(***************************************************************************)
(* What the protocol promises the caller of a mutating request: a request  *)
(* is decided at most once, and whatever the caller learns about it, from  *)
(* the answer, from a replay or from a lookup, is that decision.           *)
(***************************************************************************)
EXTENDS FiniteSets

CONSTANTS Requests, Outcomes, NoOutcome

VARIABLES decided, learned

Init ==
  /\ decided = [r \in Requests |-> NoOutcome]
  /\ learned = [r \in Requests |-> {}]

Decide(r) ==
  /\ decided[r] = NoOutcome
  /\ \E o \in Outcomes : decided' = [decided EXCEPT ![r] = o]
  /\ UNCHANGED learned

Learn(r) ==
  /\ decided[r] # NoOutcome
  /\ learned' = [learned EXCEPT ![r] = @ \union {decided[r]}]
  /\ UNCHANGED decided

Next == \E r \in Requests : Decide(r) \/ Learn(r)

Spec == Init /\ [][Next]_<<decided, learned>>
=============================================================================
