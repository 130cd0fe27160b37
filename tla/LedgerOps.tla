----------------------------- MODULE LedgerOps -----------------------------
(***************************************************************************)
(* The accepted-evidence set (EvidenceLedger, src/model/evidence.cpp).     *)
(*                                                                         *)
(* A record is what the ledger tells apart: the slot it is an observation  *)
(* for, its rank (topology generation, then source sequence), whether      *)
(* validate_evidence accepts it, and its content digest, a positive number *)
(* ordered as digests are; the zero digest is 0.                           *)
(***************************************************************************)
EXTENDS Integers, FiniteSets, Sequences

CONSTANTS
  Slot,        \* (kind, subject) pairs of one source
  SourceOf,    \* the source that a slot names
  MaxSlots,    \* EvidenceLimits::max_slots
  MaxSources   \* EvidenceLimits::max_sources

ASSUME LedgerAssumption ==
  /\ DOMAIN SourceOf = Slot
  /\ {MaxSlots, MaxSources} \subseteq Nat

EvidenceRecord ==
  [slot : Slot, generation : Nat, sequence : Nat, digest : Nat \ {0}, valid : BOOLEAN]

\* rank_of(r) < rank_of(s), lexicographically.
outranked(r, s) ==
  \/ r.generation < s.generation
  \/ r.generation = s.generation /\ r.sequence < s.sequence

empty_history == [superseded_count |-> 0, conflict_count |-> 0,
                  superseded_min |-> 0, conflicting_min |-> 0]

empty_ledger ==
  [slots |-> [s \in {} |-> 0], history |-> [s \in {} |-> 0], sources |-> {},
   conflicts |-> 0, superseded |-> 0]

history_of(ledger, slot) ==
  IF slot \in DOMAIN ledger.history THEN ledger.history[slot] ELSE empty_history

lower(digest, minimum) == IF minimum = 0 \/ digest < minimum THEN digest ELSE minimum

\* slots_[slot] = record, history_[slot] = history.
store_slot(ledger, r) ==
  [ledger EXCEPT !.slots = [s \in DOMAIN ledger.slots \union {r.slot} |->
                              IF s = r.slot THEN r ELSE ledger.slots[s]]]
store_history(ledger, slot, history) ==
  [ledger EXCEPT !.history = [s \in DOMAIN ledger.history \union {slot} |->
                                IF s = slot THEN history ELSE ledger.history[s]]]

\* Variant: the source bound is off by one.
refused_beyond(ledger, r) ==
  \/ ~r.valid
  \/ /\ r.slot \notin DOMAIN ledger.slots
     /\ \/ Cardinality(DOMAIN ledger.slots) >= MaxSlots
        \/ /\ SourceOf[r.slot] \notin ledger.sources
           /\ Cardinality(ledger.sources) > MaxSources

\* The bounds refuse a slot that is not there yet.
refused(ledger, r) ==
  \/ ~r.valid
  \/ /\ r.slot \notin DOMAIN ledger.slots
     /\ \/ Cardinality(DOMAIN ledger.slots) >= MaxSlots
        \/ /\ SourceOf[r.slot] \notin ledger.sources
           /\ Cardinality(ledger.sources) >= MaxSources

\* One operator per way insert() leaves: a new slot, an older observation, a
\* newer one, and two that disagree at the same rank.
insert_new(ledger, r) ==
  [store_slot(ledger, r) EXCEPT !.sources = @ \union {SourceOf[r.slot]}]

insert_older(ledger, r) ==
  LET h == history_of(ledger, r.slot)
  IN  [store_history(ledger, r.slot,
         [h EXCEPT !.superseded_count = @ + 1,
                   !.superseded_min = lower(r.digest, @)])
       EXCEPT !.superseded = @ + 1]

\* history_[slot] is created by the lookup even when nothing is recorded.
insert_newer(ledger, r) ==
  store_history(store_slot(ledger, r), r.slot, history_of(ledger, r.slot))

\* Variant: the last of two conflicting observations stays.
keep_last(ledger, r) == store_slot(ledger, r)

insert_conflicting(ledger, r) ==
  LET h == history_of(ledger, r.slot)
      counted == [store_history(ledger, r.slot,
                    [h EXCEPT !.conflict_count = @ + 1,
                              !.conflicting_min = lower(r.digest, @)])
                  EXCEPT !.conflicts = @ + 1]
  IN  IF r.digest < ledger.slots[r.slot].digest THEN store_slot(counted, r) ELSE counted

insert(ledger, r) ==
  IF refused(ledger, r) THEN ledger
  ELSE IF r.slot \notin DOMAIN ledger.slots THEN insert_new(ledger, r)
  ELSE IF ledger.slots[r.slot].digest = r.digest THEN ledger
  ELSE IF outranked(r, ledger.slots[r.slot]) THEN insert_older(ledger, r)
  ELSE IF outranked(ledger.slots[r.slot], r) THEN insert_newer(ledger, r)
  ELSE insert_conflicting(ledger, r)

=============================================================================
