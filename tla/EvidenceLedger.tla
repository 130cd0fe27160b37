--------------------------- MODULE EvidenceLedger ---------------------------
(***************************************************************************)
(* The evidence ledger over the life of a store.  submit_evidence appends  *)
(* every valid record to the log, then inserts it; a checkpoint keeps the  *)
(* records of the slots and the log position; after a crash start()        *)
(* inserts the checkpoint's records and then the rest of the log, record   *)
(* by record, or the whole log when the checkpoint cannot be read.         *)
(***************************************************************************)
EXTENDS LedgerOps, SequencesExt

CONSTANTS
  Evidence,   \* the records sources may submit
  MaxLog      \* bound on the number of submissions

\* Records with equal digests have equal content.
ASSUME EvidenceAssumption ==
  /\ Evidence \subseteq EvidenceRecord
  /\ \A r, s \in Evidence : r.digest = s.digest => r = s
  /\ MaxLog \in Nat

VARIABLES
  ledger,    \* the ledger in memory
  log,       \* the evidence records in the log
  ckpt,      \* the checkpoint on disk: records in slot order and log offset
  pending,   \* what start() has still to insert; empty while serving
  applied,   \* the records inserted since the ledger was constructed
  intact     \* the slots when the daemon last served

vars == <<ledger, log, ckpt, pending, applied, intact>>

Init ==
  /\ ledger = empty_ledger
  /\ log = <<>>
  /\ ckpt = [ledger |-> <<>>, wal_offset |-> 0]
  /\ pending = <<>>
  /\ applied = {}
  /\ intact = empty_ledger.slots

\* records(): the stored records in the order of their slots.  Any fixed order
\* of the slots will do.
records(l) == SetToSeq({l.slots[s] : s \in DOMAIN l.slots})

Submit(r) ==
  /\ pending = <<>>
  /\ r.valid
  /\ Len(log) < MaxLog
  /\ log' = Append(log, r)
  /\ ledger' = insert(ledger, r)
  /\ applied' = applied \union {r}
  /\ intact' = ledger'.slots
  /\ UNCHANGED <<ckpt, pending>>

WriteCheckpoint ==
  /\ pending = <<>>
  /\ ckpt' = [ledger |-> records(ledger), wal_offset |-> Len(log)]
  /\ UNCHANGED <<ledger, log, pending, applied, intact>>

\* Variant: the log is replayed from one record past the checkpoint.
Restart_past(from) ==
  /\ ledger' = empty_ledger
  /\ applied' = {}
  /\ pending' = from.ledger \o SubSeq(log, from.wal_offset + 2, Len(log))
  /\ UNCHANGED <<log, ckpt, intact>>

\* A crash, at any time, and the next start with or without the checkpoint.
Restart(from) ==
  /\ ledger' = empty_ledger
  /\ applied' = {}
  /\ pending' = from.ledger \o SubSeq(log, from.wal_offset + 1, Len(log))
  /\ UNCHANGED <<log, ckpt, intact>>

ApplyRecovered ==
  /\ pending # <<>>
  /\ ledger' = insert(ledger, Head(pending))
  /\ applied' = applied \union {Head(pending)}
  /\ pending' = Tail(pending)
  /\ UNCHANGED <<log, ckpt, intact>>

Next ==
  \/ \E r \in Evidence : Submit(r)
  \/ WriteCheckpoint
  \/ Restart(ckpt)
  \/ Restart([ledger |-> <<>>, wal_offset |-> 0])
  \/ ApplyRecovered

Spec == Init /\ [][Next]_vars

-----------------------------------------------------------------------------
(* Properties.                                                             *)

\* Each slot holds one valid record of that slot, and the sources are those of
\* the slots.
TypeOK ==
  /\ ledger.slots \in [DOMAIN ledger.slots -> EvidenceRecord]
  /\ \A s \in DOMAIN ledger.slots : ledger.slots[s].slot = s /\ ledger.slots[s].valid
  /\ ledger.sources = {SourceOf[s] : s \in DOMAIN ledger.slots}
  /\ DOMAIN ledger.history \subseteq DOMAIN ledger.slots
  /\ log \in Seq(Evidence) /\ pending \in Seq(Evidence)
  /\ applied \subseteq Evidence

\* r loses to s: a lower rank, or the same rank and not the smaller digest.
at_most(r, s) ==
  \/ outranked(r, s)
  \/ ~outranked(s, r) /\ s.digest <= r.digest

\* The ledger's ordering rule: whatever the order, the repetitions and the
\* restarts, a stored record was inserted and beats every valid record that was
\* inserted for its slot.
StoredIsBest ==
  \A s \in DOMAIN ledger.slots :
    /\ ledger.slots[s] \in applied
    /\ \A r \in applied : r.valid /\ r.slot = s => at_most(r, ledger.slots[s])

\* The bounds hold, and a slot that the bounds once refused stays refused: a
\* record is lost only while the ledger is full.
RefusedOnlyWhenFull ==
  /\ Cardinality(DOMAIN ledger.slots) <= MaxSlots
  /\ Cardinality(ledger.sources) <= MaxSources
  /\ \A r \in applied :
       r.valid /\ r.slot \notin DOMAIN ledger.slots => refused(ledger, r)

fed(seq) == FoldLeft(insert, empty_ledger, seq)

swapped(seq, i) == [seq EXCEPT ![i] = seq[i + 1], ![i + 1] = seq[i]]

\* A restart ends with the slots the daemon had before, whether the log was
\* replayed from the checkpoint or from its start.
RecoveryRebuilds ==
  [][pending # <<>> /\ pending' = <<>> => ledger'.slots = intact]_vars

\* "The value depends only on the multiset of records offered, never on the
\* order in which they arrived" (SlotHistory).  It does not hold: an older
\* record is counted when it comes second and not when it comes first.
HistoryOrderIrrelevant ==
  \A i \in 1..(Len(log) - 1) : fed(swapped(log, i)).history = fed(log).history

=============================================================================
