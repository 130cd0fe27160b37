------------------------ MODULE EvidenceLedgerProofs ------------------------
(***************************************************************************)
(* The ordering rule of the evidence ledger for any set of slots, sources  *)
(* and records, any bounds and any history of submissions, checkpoints,    *)
(* crashes and replays.                                                    *)
(*                                                                         *)
(* The rule alone is not inductive.  That a new slot starts out with the   *)
(* best of its records needs the fact that no valid record of that slot    *)
(* was inserted before, which holds because a slot the bounds once refused *)
(* is refused for good.  That a restart rebuilds the slots follows from    *)
(* where it is on the way along the ledgers that the log builds.           *)
(***************************************************************************)
EXTENDS EvidenceLedger, FiniteSetTheorems, SequenceTheorems, TLAPS

Fields == {"slots", "history", "sources", "conflicts", "superseded"}

Typed(l) ==
  /\ DOMAIN l = Fields
  /\ IsFiniteSet(DOMAIN l.slots) /\ IsFiniteSet(l.sources)
  /\ l.slots \in [DOMAIN l.slots -> EvidenceRecord]
  /\ \A s \in DOMAIN l.slots : l.slots[s].slot = s /\ l.slots[s].valid
  /\ l.sources = {SourceOf[s] : s \in DOMAIN l.slots}
  /\ DOMAIN l.history \subseteq DOMAIN l.slots

Best(l, A) ==
  \A s \in DOMAIN l.slots :
    /\ l.slots[s] \in A
    /\ \A r \in A : r.valid /\ r.slot = s => at_most(r, l.slots[s])

Full(l, A) ==
  /\ Cardinality(DOMAIN l.slots) <= MaxSlots
  /\ Cardinality(l.sources) <= MaxSources
  /\ \A r \in A : r.valid /\ r.slot \notin DOMAIN l.slots => refused(l, r)

Good(l, A) == Typed(l) /\ Best(l, A) /\ Full(l, A)

IInv ==
  /\ Good(ledger, applied)
  /\ log \in Seq(Evidence) /\ pending \in Seq(Evidence)
  /\ ckpt \in [ledger : Seq(Evidence), wal_offset : Nat]
  /\ applied \subseteq Evidence

-----------------------------------------------------------------------------
(* The outcomes of insert().                                               *)

\* A new slot: insert() creates it only below both bounds, and nothing valid
\* was inserted for it before.
LEMMA NewGood ==
  ASSUME NEW l, NEW A \in SUBSET Evidence, Good(l, A), NEW r \in Evidence,
         ~refused(l, r), r.slot \notin DOMAIN l.slots
  PROVE  Good(insert_new(l, r), A \union {r})
<1> DEFINE n == insert_new(l, r)
           D == DOMAIN l.slots
           src == SourceOf[r.slot]
<1>0. r \in EvidenceRecord /\ r.valid
  BY EvidenceAssumption DEF refused
<1>1. /\ DOMAIN n = Fields
      /\ n.slots = [s \in D \union {r.slot} |-> IF s = r.slot THEN r ELSE l.slots[s]]
      /\ n.sources = l.sources \union {src}
      /\ n.history = l.history
  BY DEF insert_new, store_slot, Good, Typed, Fields
<1> HIDE DEF n
<1>2. DOMAIN n.slots = D \union {r.slot}
  BY <1>1
<1>3. /\ IsFiniteSet(D) /\ Cardinality(D) \in Nat
      /\ IsFiniteSet(l.sources) /\ Cardinality(l.sources) \in Nat
  <2>1. IsFiniteSet(D) /\ IsFiniteSet(l.sources)
    BY DEF Good, Typed
  <2> QED
    BY <2>1, FS_CardinalityType
<1>4. /\ IsFiniteSet(D \union {r.slot})
      /\ Cardinality(D \union {r.slot}) = Cardinality(D) + 1
  BY <1>3, FS_AddElement
<1>5. /\ Cardinality(D) < MaxSlots
      /\ src \in l.sources \/ Cardinality(l.sources) < MaxSources
  BY <1>0, <1>3, LedgerAssumption DEF refused
<1>6. Cardinality(l.sources \union {src}) <= MaxSources
  <2>1. CASE src \in l.sources
    <3>1. l.sources \union {src} = l.sources
      BY <2>1
    <3> QED
      BY <3>1 DEF Good, Full
  <2>2. CASE src \notin l.sources
    <3>1. Cardinality(l.sources \union {src}) = Cardinality(l.sources) + 1
      BY <2>2, <1>3, FS_AddElement, Zenon
    <3> QED
      BY <3>1, <2>2, <1>5, <1>3, LedgerAssumption
  <2> QED
    BY <2>1, <2>2
<1>7. Typed(n)
  <2>1. n.slots \in [DOMAIN n.slots -> EvidenceRecord]
    BY <1>0, <1>1, <1>2 DEF Good, Typed
  <2>2. \A s \in DOMAIN n.slots : n.slots[s].slot = s /\ n.slots[s].valid
    BY <1>0, <1>1, <1>2 DEF Good, Typed
  <2>3. n.sources = {SourceOf[s] : s \in DOMAIN n.slots}
    BY <1>1, <1>2 DEF Good, Typed
  <2>4. DOMAIN n.history \subseteq DOMAIN n.slots
    BY <1>1, <1>2 DEF Good, Typed
  <2>5. IsFiniteSet(n.sources)
    <3>1. IsFiniteSet(l.sources \union {src})
      BY <1>3, FS_AddElement
    <3> QED
      BY <3>1, <1>1
  <2> QED
    BY <1>1, <1>2, <1>4, <2>1, <2>2, <2>3, <2>4, <2>5, Zenon DEF Typed
<1>8. \A q \in A : q.valid => q.slot # r.slot
  BY <1>0 DEF Good, Full, refused
<1>9. Best(n, A \union {r})
  <2> SUFFICES ASSUME NEW s \in DOMAIN n.slots
               PROVE  /\ n.slots[s] \in A \union {r}
                      /\ \A q \in A \union {r} : q.valid /\ q.slot = s => at_most(q, n.slots[s])
    BY DEF Best
  <2>1. CASE s = r.slot
    <3>1. n.slots[s] = r
      BY <2>1, <1>1
    <3>2. at_most(r, r)
      BY <1>0 DEF at_most, outranked, EvidenceRecord
    <3> QED
      BY <2>1, <3>1, <3>2, <1>8
  <2>2. CASE s # r.slot
    <3>1. s \in D /\ n.slots[s] = l.slots[s]
      BY <2>2, <1>1, <1>2
    <3> QED
      BY <2>2, <3>1 DEF Good, Best
  <2> QED
    BY <2>1, <2>2
<1>10. Full(n, A \union {r})
  <2>1. Cardinality(DOMAIN n.slots) <= MaxSlots
    BY <1>2, <1>3, <1>4, <1>5, LedgerAssumption
  <2>2. ASSUME NEW q \in A \union {r}, q.valid, q.slot \notin DOMAIN n.slots
        PROVE  refused(n, q)
    <3>1. q \in A /\ q.slot \notin D
      BY <2>2, <1>2
    <3>2. refused(l, q)
      BY <2>2, <3>1 DEF Good, Full
    <3>3. /\ SourceOf[q.slot] \notin l.sources
          /\ Cardinality(l.sources) >= MaxSources
      BY <3>1, <3>2, <2>2, <1>3, <1>5, LedgerAssumption DEF refused
    <3>4. src \in l.sources
      BY <3>3, <1>3, <1>5, LedgerAssumption
    <3>5. n.sources = l.sources
      BY <3>4, <1>1
    <3> QED
      BY <2>2, <3>3, <3>5 DEF refused
  <2> QED
    BY <2>1, <2>2, <1>1, <1>6 DEF Full
<1> QED
  BY <1>7, <1>9, <1>10 DEF Good, n

\* Any other outcome keeps the slots and sources that exist and stores, in the
\* slot of the record, either what was there or the record itself.
LEMMA KeptGood ==
  ASSUME NEW l, NEW A \in SUBSET Evidence, Good(l, A), NEW r \in Evidence, NEW n,
         r.valid, r.slot \in DOMAIN l.slots,
         DOMAIN n = Fields, DOMAIN n.slots = DOMAIN l.slots, n.sources = l.sources,
         DOMAIN n.history \subseteq DOMAIN l.history \union {r.slot},
         n.slots \in [DOMAIN l.slots -> EvidenceRecord],
         \A s \in DOMAIN l.slots : s # r.slot => n.slots[s] = l.slots[s],
         n.slots[r.slot] \in {r, l.slots[r.slot]},
         at_most(r, n.slots[r.slot]), at_most(l.slots[r.slot], n.slots[r.slot])
  PROVE  Good(n, A \union {r})
<1>0. A \subseteq EvidenceRecord /\ r \in EvidenceRecord
  BY EvidenceAssumption
<1>1. Typed(n)
  <2>1. \A s \in DOMAIN n.slots : n.slots[s].slot = s /\ n.slots[s].valid
    BY DEF Good, Typed
  <2> QED
    BY <2>1 DEF Good, Typed
<1>2. \A p, q, t \in EvidenceRecord : at_most(p, q) /\ at_most(q, t) => at_most(p, t)
  BY DEF at_most, outranked, EvidenceRecord
<1>3. Best(n, A \union {r})
  <2> SUFFICES ASSUME NEW s \in DOMAIN n.slots
               PROVE  /\ n.slots[s] \in A \union {r}
                      /\ \A q \in A \union {r} : q.valid /\ q.slot = s => at_most(q, n.slots[s])
    BY DEF Best
  <2>1. CASE s = r.slot
    <3>1. n.slots[s] \in A \union {r}
      BY <2>1 DEF Good, Best
    <3>2. ASSUME NEW q \in A, q.valid, q.slot = s
          PROVE  at_most(q, n.slots[s])
      <4>1. at_most(q, l.slots[s])
        BY <3>2, <2>1 DEF Good, Best
      <4>2. {q, l.slots[s], n.slots[s]} \subseteq EvidenceRecord
        BY <1>0, <2>1 DEF Good, Typed
      <4> QED
        BY <4>1, <4>2, <2>1, <1>2
    <3> QED
      BY <3>1, <3>2, <2>1
  <2>2. CASE s # r.slot
    BY <2>2 DEF Good, Best
  <2> QED
    BY <2>1, <2>2
<1>4. Full(n, A \union {r})
  <2>1. ASSUME NEW q \in A \union {r}, q.valid, q.slot \notin DOMAIN n.slots
        PROVE  refused(n, q)
    <3>1. q \in A /\ refused(l, q)
      BY <2>1 DEF Good, Full
    <3> QED
      BY <3>1, <2>1 DEF refused
  <2> QED
    BY <2>1 DEF Good, Full
<1> QED
  BY <1>1, <1>3, <1>4 DEF Good

\* insert() as a whole.  Equal digests mean equal records, so a duplicate has
\* nothing to add.
LEMMA InsertGood ==
  ASSUME NEW l, NEW A \in SUBSET Evidence, Good(l, A), NEW r \in Evidence
  PROVE  Good(insert(l, r), A \union {r})
<1> DEFINE D == DOMAIN l.slots
           old == l.slots[r.slot]
<1>0. r \in EvidenceRecord /\ A \subseteq EvidenceRecord
  BY EvidenceAssumption
<1>1. CASE refused(l, r)
  <2>1. insert(l, r) = l
    BY <1>1 DEF insert
  <2>2. r.valid => r.slot \notin D
    BY <1>1 DEF refused
  <2>3. Best(l, A \union {r})
    BY <2>2 DEF Good, Best, Typed
  <2>4. Full(l, A \union {r})
    BY <1>1 DEF Good, Full
  <2> QED
    BY <2>1, <2>3, <2>4 DEF Good
<1>2. CASE ~refused(l, r) /\ r.slot \notin D
  <2>1. insert(l, r) = insert_new(l, r)
    BY <1>2 DEF insert
  <2> QED
    BY <2>1, <1>2, NewGood
<1>3. CASE ~refused(l, r) /\ r.slot \in D
  <2>1. r.valid
    BY <1>3 DEF refused
  <2>2. old \in EvidenceRecord /\ old \in Evidence /\ old.slot = r.slot
    BY <1>3 DEF Good, Typed, Best
  <2>3. DOMAIN l = Fields /\ l.slots \in [D -> EvidenceRecord]
    BY DEF Good, Typed
  <2>4. at_most(old, old) /\ at_most(r, r)
    BY <1>0, <2>2 DEF at_most, outranked, EvidenceRecord
  <2>5. CASE old.digest = r.digest
    <3>1. insert(l, r) = l
      BY <1>3, <2>5 DEF insert
    <3>2. old = r
      BY <2>2, <2>5, EvidenceAssumption
    <3> QED
      BY <3>1, <3>2, <2>1, <2>3, <2>4, <1>3, KeptGood
  <2>6. CASE old.digest # r.digest /\ outranked(r, old)
    <3> DEFINE n == insert_older(l, r)
    <3>1. insert(l, r) = n
      BY <1>3, <2>6 DEF insert
    <3>2. /\ DOMAIN n = Fields /\ n.slots = l.slots /\ n.sources = l.sources
          /\ DOMAIN n.history = DOMAIN l.history \union {r.slot}
      BY <2>3 DEF insert_older, store_history, Fields
    <3>3. at_most(r, old)
      BY <2>6 DEF at_most
    <3> HIDE DEF n
    <3> QED
      BY <3>1, <3>2, <3>3, <2>1, <2>3, <2>4, <1>3, KeptGood
  <2>7. CASE old.digest # r.digest /\ ~outranked(r, old) /\ outranked(old, r)
    <3> DEFINE n == insert_newer(l, r)
    <3>1. insert(l, r) = n
      BY <1>3, <2>7 DEF insert
    <3>2. /\ DOMAIN n = Fields /\ n.sources = l.sources
          /\ n.slots = [s \in D |-> IF s = r.slot THEN r ELSE l.slots[s]]
          /\ DOMAIN n.history = DOMAIN l.history \union {r.slot}
      BY <2>3, <1>3 DEF insert_newer, store_history, store_slot, Fields
    <3>3. at_most(old, r)
      BY <2>7 DEF at_most
    <3> HIDE DEF n
    <3>4. n.slots[r.slot] = r /\ n.slots \in [D -> EvidenceRecord]
      BY <3>2, <1>0, <1>3, <2>3
    <3> QED
      BY <3>1, <3>2, <3>3, <3>4, <2>1, <2>3, <2>4, <1>3, KeptGood
  <2>8. CASE old.digest # r.digest /\ ~outranked(r, old) /\ ~outranked(old, r)
    <3> DEFINE n == insert_conflicting(l, r)
    <3>1. insert(l, r) = n
      BY <1>3, <2>8 DEF insert
    <3>2. CASE r.digest < old.digest
      <4>1. /\ DOMAIN n = Fields /\ n.sources = l.sources
            /\ n.slots = [s \in D |-> IF s = r.slot THEN r ELSE l.slots[s]]
            /\ DOMAIN n.history = DOMAIN l.history \union {r.slot}
        BY <3>2, <2>3, <1>3 DEF insert_conflicting, store_history, store_slot, Fields
      <4>2. at_most(old, r)
        BY <3>2, <2>8, <2>2, <1>0 DEF at_most, EvidenceRecord
      <4> HIDE DEF n
      <4>3. n.slots[r.slot] = r /\ n.slots \in [D -> EvidenceRecord]
        BY <4>1, <1>0, <1>3, <2>3
      <4> QED
        BY <3>1, <4>1, <4>2, <4>3, <2>1, <2>3, <2>4, <1>3, KeptGood
    <3>3. CASE ~(r.digest < old.digest)
      <4>1. /\ DOMAIN n = Fields /\ n.sources = l.sources /\ n.slots = l.slots
            /\ DOMAIN n.history = DOMAIN l.history \union {r.slot}
        BY <3>3, <2>3 DEF insert_conflicting, store_history, Fields
      <4>2. at_most(r, old)
        BY <3>3, <2>8, <2>2, <1>0 DEF at_most, EvidenceRecord
      <4> HIDE DEF n
      <4> QED
        BY <3>1, <4>1, <4>2, <2>1, <2>3, <2>4, <1>3, KeptGood
    <3> QED
      BY <3>2, <3>3
  <2> QED
    BY <2>5, <2>6, <2>7, <2>8
<1> QED
  BY <1>1, <1>2, <1>3

\* The ledger start() constructs.
LEMMA EmptyGood == Good(empty_ledger, {})
<1>1. /\ DOMAIN empty_ledger = Fields /\ DOMAIN empty_ledger.slots = {}
      /\ empty_ledger.sources = {} /\ DOMAIN empty_ledger.history = {}
  BY DEF empty_ledger, Fields
<1>2. IsFiniteSet({}) /\ Cardinality({}) = 0
  BY FS_EmptySet
<1>3. empty_ledger.slots \in [{} -> EvidenceRecord]
  BY DEF empty_ledger
<1> HIDE DEF empty_ledger
<1>4. Typed(empty_ledger)
  BY <1>1, <1>2, <1>3 DEF Typed
<1>5. Full(empty_ledger, {})
  BY <1>1, <1>2, LedgerAssumption DEF Full
<1> QED
  BY <1>1, <1>4, <1>5 DEF Good, Best

\* records(), which a checkpoint keeps, lists records that were inserted.
LEMMA RecordsType ==
  ASSUME NEW l, NEW A \in SUBSET Evidence, Good(l, A)
  PROVE  records(l) \in Seq(Evidence)
<1> DEFINE S == {l.slots[s] : s \in DOMAIN l.slots}
<1>1. S \subseteq Evidence
  BY DEF Good, Best
<1>2. IsFiniteSet(S)
  <2>1. IsFiniteSet(DOMAIN l.slots)
    BY DEF Good, Typed
  <2>2. l.slots \in Surjection(DOMAIN l.slots, S)
    BY DEF Good, Typed, Surjection
  <2> HIDE DEF S
  <2> QED
    BY <2>1, <2>2, FS_Surjection
<1>3. PICK f \in [1..Cardinality(S) -> S] : IsInjective(f)
  <2>1. Cardinality(S) \in Nat /\ ExistsBijection(1..Cardinality(S), S)
    BY <1>2, FS_CardinalityType, FS_NatBijection, FS_CountingElements
  <2> QED
    BY <2>1, Zenon DEF ExistsBijection, Bijection, Injection
<1>4. SetToSeq(S) \in [1..Cardinality(S) -> S] /\ Cardinality(S) \in Nat
  BY <1>2, <1>3, FS_CardinalityType, Zenon DEF SetToSeq
<1>5. SetToSeq(S) \in Seq(S)
  BY <1>4, SeqDef, Zenon
<1> QED
  BY <1>1, <1>5 DEF records

-----------------------------------------------------------------------------
(* The inductive invariant and the theorems.                               *)

\* The ledger a new store starts with.
LEMMA InitInv == Init => IInv
<1> SUFFICES ASSUME Init PROVE IInv
  OBVIOUS
<1>1. Good(ledger, applied)
  BY EmptyGood DEF Init
<1>2. <<>> \in Seq(Evidence)
  OBVIOUS
<1> QED
  BY <1>1, <1>2 DEF Init, IInv

\* Submissions, checkpoints, restarts and replay steps preserve it.
LEMMA NextInv == IInv /\ [Next]_vars => IInv'
<1> SUFFICES ASSUME IInv, [Next]_vars PROVE IInv'
  OBVIOUS
<1> USE DEF IInv
<1>1. ASSUME NEW r \in Evidence, Submit(r)
      PROVE  IInv'
  <2>1. Good(insert(ledger, r), applied \union {r})
    BY InsertGood
  <2>2. Append(log, r) \in Seq(Evidence)
    OBVIOUS
  <2> QED
    BY <1>1, <2>1, <2>2 DEF Submit
<1>2. CASE WriteCheckpoint
  <2>1. records(ledger) \in Seq(Evidence)
    BY RecordsType
  <2>2. Len(log) \in Nat
    BY LenProperties
  <2>3. ckpt' \in [ledger : Seq(Evidence), wal_offset : Nat]
    BY <1>2, <2>1, <2>2 DEF WriteCheckpoint
  <2> QED
    BY <1>2, <2>3 DEF WriteCheckpoint
<1>3. ASSUME NEW from \in [ledger : Seq(Evidence), wal_offset : Nat], Restart(from)
      PROVE  IInv'
  <2>1. SubSeq(log, from.wal_offset + 1, Len(log)) \in Seq(Evidence)
    <3>1. \A i \in (from.wal_offset + 1)..Len(log) : log[i] \in Evidence
      <4>1. \A i \in 1..Len(log) : log[i] \in Evidence
        BY ElementOfSeq
      <4> QED
        BY <4>1, LenProperties
    <3> QED
      BY <3>1, SubSeqProperties
  <2>2. from.ledger \o SubSeq(log, from.wal_offset + 1, Len(log)) \in Seq(Evidence)
    BY <2>1, ConcatProperties
  <2>3. Good(empty_ledger, {})
    BY EmptyGood
  <2> QED
    BY <1>3, <2>2, <2>3 DEF Restart
<1>4. CASE ApplyRecovered
  <2>1. Head(pending) \in Evidence /\ Tail(pending) \in Seq(Evidence)
    BY <1>4, HeadTailProperties DEF ApplyRecovered
  <2>2. Good(insert(ledger, Head(pending)), applied \union {Head(pending)})
    BY <2>1, InsertGood
  <2> QED
    BY <1>4, <2>1, <2>2 DEF ApplyRecovered
<1>5. CASE UNCHANGED vars
  BY <1>5 DEF vars
<1>6. [ledger |-> <<>>, wal_offset |-> 0] \in [ledger : Seq(Evidence), wal_offset : Nat]
  OBVIOUS
<1> QED
  BY <1>1, <1>2, <1>3, <1>4, <1>5, <1>6, Zenon DEF Next

\* The invariant that the properties follow from.
THEOREM Invariance == Spec => []IInv
  BY InitInv, NextInv, PTL DEF Spec

\* The ledger keeps one valid record of its own per slot and counts exactly
\* the sources of those slots.
THEOREM TypeCorrect == Spec => []TypeOK
<1>1. IInv => TypeOK
  BY DEF IInv, Good, Typed, TypeOK
<1> QED
  BY <1>1, Invariance, PTL

\* The ordering rule of EvidenceLedger::insert.
THEOREM OrderingRule == Spec => []StoredIsBest
<1>1. IInv => StoredIsBest
  BY DEF IInv, Good, Best, StoredIsBest
<1> QED
  BY <1>1, Invariance, PTL

\* The bounds of EvidenceLedger::insert.
THEOREM BoundsHold == Spec => []RefusedOnlyWhenFull
<1>1. IInv => RefusedOnlyWhenFull
  BY DEF IInv, Good, Full, RefusedOnlyWhenFull
<1> QED
  BY <1>1, Invariance, PTL

-----------------------------------------------------------------------------
(* Recovery.  a[k] is the ledger that the first k records of the log build *)
(* from nothing.  It exists once for all the restarts: a submission only   *)
(* adds its last value, so nothing has to be computed by induction.        *)

Traced(a) ==
  /\ a[0] = empty_ledger
  /\ \A k \in 0..Len(log) : \E A \in SUBSET Evidence : Good(a[k], A)
  /\ \A k \in 1..Len(log) : a[k] = insert(a[k - 1], log[k])

\* What the next insert() depends on and a restart has to rebuild.
Alike(l, m) == l.slots = m.slots /\ l.sources = m.sources

\* m is c as far as it goes.
Part(m, c) ==
  /\ DOMAIN m.slots \subseteq DOMAIN c.slots
  /\ \A s \in DOMAIN m.slots : m.slots[s] = c.slots[s]

\* The records that bring m to c, in any order.
Lists(seq, c, m) ==
  /\ seq \in Seq(Evidence)
  /\ \A i \in 1..Len(seq) : seq[i].slot \in DOMAIN c.slots /\ seq[i] = c.slots[seq[i].slot]
  /\ \A s \in DOMAIN c.slots : s \in DOMAIN m.slots \/ \E i \in 1..Len(seq) : seq[i].slot = s

Saved(a) ==
  /\ ckpt.wal_offset \in 0..Len(log)
  /\ Lists(ckpt.ledger, a[ckpt.wal_offset], empty_ledger)

suffix(k) == SubSeq(log, k + 1, Len(log))

\* start() has still to insert the records of the log after the k-th.
Replaying(a, k) ==
  /\ k \in 0..Len(log)
  /\ Alike(ledger, a[k])
  /\ pending = suffix(k)

\* start() has still to insert records of the checkpoint, then those of the log.
Restoring(a, rest) ==
  /\ Part(ledger, a[ckpt.wal_offset])
  /\ Lists(rest, a[ckpt.wal_offset], ledger)
  /\ pending = rest \o suffix(ckpt.wal_offset)

Located(a) == (\E k : Replaying(a, k)) \/ (\E rest : Restoring(a, rest))

RInv ==
  /\ IInv
  /\ \E a : Traced(a) /\ Saved(a) /\ Located(a) /\ intact = a[Len(log)].slots

Rebuilt == pending = <<>> => ledger.slots = intact

\* The slots and sources after insert() depend on those before it alone, not on
\* the histories and totals, which a restart does not rebuild.
LEMMA InsertAlike ==
  ASSUME NEW l, NEW m, DOMAIN l = Fields, DOMAIN m = Fields, Alike(l, m), NEW r
  PROVE  Alike(insert(l, r), insert(m, r))
<1>1. l.slots = m.slots /\ l.sources = m.sources
  BY DEF Alike
<1>2. refused(l, r) <=> refused(m, r)
  BY <1>1 DEF refused
<1>3. CASE refused(l, r)
  BY <1>1, <1>2, <1>3 DEF insert, Alike
<1>4. ASSUME ~refused(l, r), r.slot \notin DOMAIN l.slots
      PROVE  Alike(insert(l, r), insert(m, r))
  <2>1. insert(l, r) = insert_new(l, r) /\ insert(m, r) = insert_new(m, r)
    BY <1>1, <1>2, <1>4 DEF insert
  <2>2. Alike(insert_new(l, r), insert_new(m, r))
    BY <1>1 DEF insert_new, store_slot, Alike, Fields
  <2> QED
    BY <2>1, <2>2
<1>5. ASSUME ~refused(l, r), r.slot \in DOMAIN l.slots, l.slots[r.slot].digest = r.digest
      PROVE  Alike(insert(l, r), insert(m, r))
  BY <1>1, <1>2, <1>5 DEF insert, Alike
<1>6. ASSUME ~refused(l, r), r.slot \in DOMAIN l.slots, l.slots[r.slot].digest # r.digest,
             outranked(r, l.slots[r.slot])
      PROVE  Alike(insert(l, r), insert(m, r))
  <2>1. insert(l, r) = insert_older(l, r) /\ insert(m, r) = insert_older(m, r)
    BY <1>1, <1>2, <1>6 DEF insert
  <2>2. Alike(insert_older(l, r), l) /\ Alike(insert_older(m, r), m)
    BY DEF insert_older, store_history, Alike, Fields
  <2> QED
    BY <1>1, <2>1, <2>2 DEF Alike
<1>7. ASSUME ~refused(l, r), r.slot \in DOMAIN l.slots, l.slots[r.slot].digest # r.digest,
             ~outranked(r, l.slots[r.slot]), outranked(l.slots[r.slot], r)
      PROVE  Alike(insert(l, r), insert(m, r))
  <2>1. insert(l, r) = insert_newer(l, r) /\ insert(m, r) = insert_newer(m, r)
    BY <1>1, <1>2, <1>7 DEF insert
  <2>2. Alike(insert_newer(l, r), store_slot(l, r)) /\ Alike(insert_newer(m, r), store_slot(m, r))
    BY DEF insert_newer, store_slot, store_history, Alike, Fields
  <2>3. Alike(store_slot(l, r), store_slot(m, r))
    BY <1>1 DEF store_slot, Alike, Fields
  <2> QED
    BY <2>1, <2>2, <2>3 DEF Alike
<1>8. ASSUME ~refused(l, r), r.slot \in DOMAIN l.slots, l.slots[r.slot].digest # r.digest,
             ~outranked(r, l.slots[r.slot]), ~outranked(l.slots[r.slot], r)
      PROVE  Alike(insert(l, r), insert(m, r))
  <2>1. insert(l, r) = insert_conflicting(l, r) /\ insert(m, r) = insert_conflicting(m, r)
    BY <1>1, <1>2, <1>8 DEF insert
  <2>2. CASE r.digest < l.slots[r.slot].digest
    <3>1. /\ Alike(insert_conflicting(l, r), store_slot(l, r))
          /\ Alike(insert_conflicting(m, r), store_slot(m, r))
      BY <1>1, <2>2 DEF insert_conflicting, store_slot, store_history, Alike, Fields
    <3>2. Alike(store_slot(l, r), store_slot(m, r))
      BY <1>1 DEF store_slot, Alike, Fields
    <3> QED
      BY <2>1, <3>1, <3>2 DEF Alike
  <2>3. CASE ~(r.digest < l.slots[r.slot].digest)
    <3>1. Alike(insert_conflicting(l, r), l) /\ Alike(insert_conflicting(m, r), m)
      BY <1>1, <2>3 DEF insert_conflicting, store_history, Alike, Fields
    <3> QED
      BY <1>1, <2>1, <3>1 DEF Alike
  <2> QED
    BY <2>2, <2>3
<1> QED
  BY <1>3, <1>4, <1>5, <1>6, <1>7, <1>8

\* Two good ledgers with the same slots count the same sources.
LEMMA SameSlots ==
  ASSUME NEW l, NEW m, Typed(l), Typed(m), Part(l, m), DOMAIN m.slots \subseteq DOMAIN l.slots
  PROVE  Alike(l, m)
<1>1. DOMAIN l.slots = DOMAIN m.slots
  BY DEF Part
<1>2. l.slots = m.slots
  BY <1>1 DEF Part, Typed
<1> QED
  BY <1>2 DEF Alike, Typed

\* records() lists every slot of the ledger with its record.
LEMMA RecordsList ==
  ASSUME NEW l, NEW A \in SUBSET Evidence, Good(l, A), NEW c, Alike(l, c)
  PROVE  Lists(records(l), c, empty_ledger)
<1> DEFINE S == {l.slots[s] : s \in DOMAIN l.slots}
           n == Cardinality(S)
           q == records(l)
<1>1. q \in Seq(Evidence) /\ l.slots = c.slots
  BY RecordsType DEF Alike
<1>2. q \in [1..n -> S] /\ n \in Nat /\ IsFiniteSet(S) /\ IsInjective(q)
  <2>1. IsFiniteSet(S)
    <3>1. l.slots \in Surjection(DOMAIN l.slots, S)
      BY DEF Good, Typed, Surjection
    <3>2. IsFiniteSet(DOMAIN l.slots)
      BY DEF Good, Typed
    <3> HIDE DEF S
    <3> QED
      BY <3>1, <3>2, FS_Surjection
  <2> HIDE DEF S
  <2>2. n \in Nat /\ ExistsBijection(1..n, S)
    BY <2>1, FS_CardinalityType, FS_NatBijection, FS_CountingElements
  <2>3. PICK f \in [1..n -> S] : IsInjective(f)
    BY <2>2, Zenon DEF ExistsBijection, Bijection, Injection
  <2>4. SetToSeq(S) \in [1..n -> S] /\ IsInjective(SetToSeq(S))
    BY <2>3, Zenon DEF SetToSeq
  <2>5. q = SetToSeq(S)
    BY Zenon DEF records, S
  <2> QED
    BY <2>1, <2>2, <2>4, <2>5
<1> HIDE DEF q
<1>3. Len(q) = n
  BY <1>1, <1>2, LenProperties
<1>4. q \in Surjection(1..n, S)
  <2> HIDE DEF S
  <2>1. q \in Injection(1..n, S)
    BY <1>2 DEF Injection
  <2>2. Cardinality(1..n) = n
    BY <1>2, FS_Interval
  <2> QED
    BY <1>2, <2>1, <2>2, FS_Injection
<1>5. ASSUME NEW i \in 1..Len(q)
      PROVE  q[i].slot \in DOMAIN c.slots /\ q[i] = c.slots[q[i].slot]
  <2>1. q[i] \in S
    BY <1>2, <1>3
  <2>2. PICK s \in DOMAIN l.slots : q[i] = l.slots[s]
    BY <2>1
  <2>3. q[i].slot = s
    BY <2>2 DEF Good, Typed
  <2> QED
    BY <1>1, <2>2, <2>3
<1>6. ASSUME NEW s \in DOMAIN c.slots
      PROVE  \E i \in 1..Len(q) : q[i].slot = s
  <2>1. s \in DOMAIN l.slots /\ l.slots[s].slot = s
    BY <1>1 DEF Good, Typed
  <2>2. l.slots[s] \in S
    BY <2>1
  <2> HIDE DEF S
  <2>3. \E i \in 1..n : q[i] = l.slots[s]
    BY <1>4, <2>2 DEF Surjection
  <2> QED
    BY <1>3, <2>1, <2>3
<1> QED
  BY <1>1, <1>5, <1>6 DEF Lists, q

\* Inserting a record of the checkpoint restores its slot: the slots restored
\* so far and their sources are fewer than those of the checkpoint, which were
\* within the bounds.
LEMMA RestoreOne ==
  ASSUME NEW l, NEW A \in SUBSET Evidence, Good(l, A),
         NEW c, NEW C \in SUBSET Evidence, Good(c, C), Part(l, c),
         NEW r \in Evidence, r.slot \in DOMAIN c.slots, r = c.slots[r.slot]
  PROVE  /\ Part(insert(l, r), c)
         /\ DOMAIN insert(l, r).slots = DOMAIN l.slots \union {r.slot}
<1>1. CASE r.slot \in DOMAIN l.slots
  <2>1. l.slots[r.slot] = r
    BY <1>1 DEF Part
  <2>2. insert(l, r) = l
    BY <1>1, <2>1 DEF insert
  <2> QED
    BY <1>1, <2>2
<1>2. CASE r.slot \notin DOMAIN l.slots
  <2> DEFINE D == DOMAIN l.slots
             E == DOMAIN c.slots
             src == SourceOf[r.slot]
  <2>1. /\ IsFiniteSet(D) /\ IsFiniteSet(E) /\ D \subseteq E /\ D # E
        /\ IsFiniteSet(l.sources) /\ IsFiniteSet(c.sources)
        /\ l.sources \subseteq c.sources /\ src \in c.sources
    BY <1>2 DEF Good, Typed, Part
  <2>2. /\ Cardinality(D) \in Nat /\ Cardinality(E) \in Nat
        /\ Cardinality(l.sources) \in Nat /\ Cardinality(c.sources) \in Nat
    BY <2>1, FS_CardinalityType
  <2>3. Cardinality(E) <= MaxSlots /\ Cardinality(c.sources) <= MaxSources
    BY DEF Good, Full
  <2> HIDE DEF D, E
  <2>4. Cardinality(D) < Cardinality(E)
    <3>1. Cardinality(D) <= Cardinality(E) /\ (Cardinality(E) = Cardinality(D) => E = D)
      BY <2>1, FS_Subset
    <3> QED
      BY <2>1, <2>2, <3>1
  <2>5. src \notin l.sources => Cardinality(l.sources) < Cardinality(c.sources)
    <3>1. /\ Cardinality(l.sources) <= Cardinality(c.sources)
          /\ Cardinality(c.sources) = Cardinality(l.sources) => c.sources = l.sources
      BY <2>1, FS_Subset
    <3> QED
      BY <2>1, <2>2, <3>1
  <2>6. r.valid
    BY DEF Good, Typed
  <2>7. ~refused(l, r)
    BY <2>2, <2>3, <2>4, <2>5, <2>6, LedgerAssumption DEF refused, D
  <2>8. insert(l, r) = insert_new(l, r)
    BY <1>2, <2>7 DEF insert
  <2>9. insert_new(l, r).slots = [s \in D \union {r.slot} |-> IF s = r.slot THEN r ELSE l.slots[s]]
    BY DEF insert_new, store_slot, Good, Typed, Fields, D
  <2> QED
    BY <2>8, <2>9 DEF Part, D
<1> QED
  BY <1>1, <1>2

\* The records of the log that are left to insert.
LEMMA SuffixFacts ==
  ASSUME log \in Seq(Evidence), NEW k \in 0..Len(log)
  PROVE  /\ Len(log) \in Nat
         /\ suffix(k) \in Seq(Evidence)
         /\ suffix(k) = <<>> <=> k = Len(log)
         /\ k < Len(log) => /\ log[k + 1] \in Evidence
                            /\ Head(suffix(k)) = log[k + 1]
                            /\ Tail(suffix(k)) = suffix(k + 1)
<1>1. Len(log) \in Nat /\ \A i \in 1..Len(log) : log[i] \in Evidence
  BY LenProperties, ElementOfSeq
<1>2. suffix(k) \in Seq(Evidence) /\ (k < Len(log) => Len(suffix(k)) = Len(log) - k)
  BY <1>1, SubSeqProperties DEF suffix
<1>3. CASE k = Len(log)
  <2>1. suffix(k) = <<>>
    BY <1>1, <1>3, SubSeqEmpty DEF suffix
  <2> QED
    BY <1>1, <1>2, <1>3, <2>1
<1>4. CASE k < Len(log)
  <2>1. suffix(k) # <<>>
    BY <1>1, <1>2, <1>4
  <2>2. k + 1 \in 1..Len(log) /\ Len(log) \in (k + 1)..Len(log)
    BY <1>1, <1>4
  <2>3. Head(suffix(k)) = log[k + 1] /\ Tail(suffix(k)) = suffix(k + 1)
    BY <2>2, HeadTailOfSubSeq DEF suffix
  <2> QED
    BY <1>1, <1>2, <1>4, <2>1, <2>2, <2>3
<1> QED
  BY <1>1, <1>3, <1>4

\* While serving, the ledger is the one the whole log builds.
LEMMA Served ==
  ASSUME IInv, NEW a, Traced(a), Saved(a), Located(a), pending = <<>>
  PROVE  Alike(ledger, a[Len(log)])
<1>1. log \in Seq(Evidence)
  BY DEF IInv
<1>2. ASSUME NEW k, Replaying(a, k)
      PROVE  Alike(ledger, a[Len(log)])
  <2>1. k \in 0..Len(log) /\ suffix(k) = <<>>
    BY <1>2 DEF Replaying
  <2>2. k = Len(log)
    BY <1>1, <2>1, SuffixFacts
  <2> QED
    BY <1>2, <2>2 DEF Replaying
<1>3. ASSUME NEW rest, Restoring(a, rest)
      PROVE  Alike(ledger, a[Len(log)])
  <2> DEFINE o == ckpt.wal_offset
  <2>1. o \in 0..Len(log) /\ rest \in Seq(Evidence)
    BY <1>3 DEF Saved, Restoring, Lists
  <2>2. rest \o suffix(o) = <<>>
    BY <1>3 DEF Restoring
  <2>3. rest = <<>> /\ suffix(o) = <<>>
    <3>1. suffix(o) \in Seq(Evidence)
      BY <1>1, <2>1, SuffixFacts
    <3> QED
      BY <2>1, <2>2, <3>1, ConcatEqualIffEmpty
  <2>4. o = Len(log)
    BY <1>1, <2>1, <2>3, SuffixFacts
  <2>5. DOMAIN a[o].slots \subseteq DOMAIN ledger.slots
    BY <1>3, <2>3 DEF Restoring, Lists
  <2>6. Typed(ledger) /\ Typed(a[o])
    BY <2>1 DEF IInv, Good, Traced
  <2> QED
    BY <1>3, <2>4, <2>5, <2>6, SameSlots DEF Restoring
<1> QED
  BY <1>2, <1>3 DEF Located

\* The empty log builds the empty ledger.
LEMMA InitRecovery == Init => RInv
<1> SUFFICES ASSUME Init PROVE RInv
  OBVIOUS
<1> DEFINE a == [k \in {0} |-> empty_ledger]
<1>1. IInv
  BY InitInv
<1>2. Len(log) = 0 /\ log \in Seq(Evidence)
  BY DEF Init
<1>3. a[0] = empty_ledger /\ DOMAIN empty_ledger.slots = {}
  BY DEF empty_ledger
<1> HIDE DEF a
<1>4. Traced(a)
  BY <1>2, <1>3, EmptyGood DEF Traced
<1>5. Saved(a)
  BY <1>2, <1>3 DEF Saved, Lists, Init
<1>6. Replaying(a, 0)
  <2>1. suffix(0) = <<>>
    BY <1>2, SuffixFacts
  <2> QED
    BY <1>2, <1>3, <2>1 DEF Replaying, Alike, Init
<1>7. intact = a[Len(log)].slots
  BY <1>2, <1>3 DEF Init
<1> QED
  BY <1>1, <1>4, <1>5, <1>6, <1>7 DEF RInv, Located

\* A submission adds one record to the log and one ledger to the trace.
LEMMA SubmitRecovery ==
  ASSUME RInv, NEW r \in Evidence, Submit(r)
  PROVE  RInv'
<1>0. PICK n : n = Len(log)
  OBVIOUS
<1>1. IInv /\ IInv'
  BY NextInv DEF RInv, Next
<1>2. PICK a : Traced(a) /\ Saved(a) /\ Located(a) /\ intact = a[Len(log)].slots
  BY DEF RInv
<1>3. /\ n \in Nat /\ log' = Append(log, r) /\ Len(log') = n + 1
      /\ \A k \in 1..n : log'[k] = log[k]
      /\ log'[n + 1] = r /\ log' \in Seq(Evidence)
  <2>1. log \in Seq(Evidence) /\ log' = Append(log, r)
    BY <1>1 DEF IInv, Submit
  <2> QED
    BY <1>0, <2>1, LenProperties, AppendProperties
<1>4. Alike(ledger, a[n])
  BY <1>0, <1>1, <1>2, Served DEF Submit
<1>5. PICK b : (\A k \in 0..n : b[k] = a[k]) /\ b[n + 1] = insert(a[n], r)
  <2> WITNESS [k \in 0..n + 1 |-> IF k <= n THEN a[k] ELSE insert(a[n], r)]
  <2> QED
    BY <1>3
<1>6. Traced(b)'
  <2>1. b[0] = empty_ledger
    BY <1>2, <1>3, <1>5 DEF Traced
  <2>2. ASSUME NEW k \in 0..n + 1
        PROVE  \E A \in SUBSET Evidence : Good(b[k], A)
    <3>1. CASE k \in 0..n
      BY <1>0, <1>2, <1>5, <3>1 DEF Traced
    <3>2. CASE k = n + 1
      <4>1. PICK A \in SUBSET Evidence : Good(a[n], A)
        BY <1>0, <1>2, <1>3 DEF Traced
      <4>2. Good(insert(a[n], r), A \union {r})
        BY <4>1, InsertGood
      <4> QED
        BY <1>5, <3>2, <4>2
    <3> QED
      BY <1>3, <3>1, <3>2
  <2>3. ASSUME NEW k \in 1..n + 1
        PROVE  b[k] = insert(b[k - 1], log'[k])
    <3>1. CASE k \in 1..n
      BY <1>0, <1>2, <1>3, <1>5, <3>1 DEF Traced
    <3>2. CASE k = n + 1
      BY <1>3, <1>5, <3>2
    <3> QED
      BY <1>3, <3>1, <3>2
  <2> QED
    BY <1>3, <2>1, <2>2, <2>3 DEF Traced
<1>7. Saved(b)'
  <2>1. ckpt' = ckpt /\ ckpt.wal_offset \in 0..n
    BY <1>0, <1>2 DEF Submit, Saved
  <2>2. b[ckpt.wal_offset] = a[ckpt.wal_offset]
    BY <1>5, <2>1
  <2> QED
    BY <1>2, <1>3, <2>1, <2>2 DEF Saved
<1>8. Alike(ledger', b[n + 1])
  <2>1. DOMAIN ledger = Fields /\ DOMAIN a[n] = Fields
    BY <1>0, <1>1, <1>2, <1>3 DEF IInv, Good, Typed, Traced
  <2>2. Alike(insert(ledger, r), insert(a[n], r))
    BY <1>4, <2>1, InsertAlike
  <2> QED
    BY <1>5, <2>2 DEF Submit
<1>9. Replaying(b, n + 1)'
  <2>1. suffix(n + 1)' = <<>>
    BY <1>3, SubSeqEmpty DEF suffix
  <2>2. pending' = <<>>
    BY DEF Submit
  <2> QED
    BY <1>3, <1>8, <2>1, <2>2 DEF Replaying
<1>10. intact' = b[Len(log')].slots
  BY <1>3, <1>8 DEF Submit, Alike
<1> QED
  BY <1>1, <1>6, <1>7, <1>9, <1>10 DEF RInv, Located

\* A checkpoint is taken while serving, so that it keeps the ledger the log up
\* to its offset builds.
LEMMA CheckpointRecovery ==
  ASSUME RInv, WriteCheckpoint
  PROVE  RInv'
<1>1. IInv /\ IInv'
  BY NextInv DEF RInv, Next
<1>2. PICK a : Traced(a) /\ Saved(a) /\ Located(a) /\ intact = a[Len(log)].slots
  BY DEF RInv
<1>3. log' = log /\ ledger' = ledger /\ pending = <<>> /\ pending' = <<>> /\ intact' = intact
  BY DEF WriteCheckpoint
<1>4. Alike(ledger, a[Len(log)])
  BY <1>1, <1>2, <1>3, Served
<1>5. log \in Seq(Evidence) /\ Len(log) \in Nat
  BY <1>1, LenProperties DEF IInv
<1>6. Lists(records(ledger), a[Len(log)], empty_ledger)
  BY <1>1, <1>4, RecordsList DEF IInv
<1>7. Traced(a)'
  BY <1>2, <1>3 DEF Traced
<1>8. Saved(a)'
  <2>1. ckpt'.ledger = records(ledger) /\ ckpt'.wal_offset = Len(log)
    BY DEF WriteCheckpoint
  <2> QED
    BY <1>3, <1>5, <1>6, <2>1 DEF Saved
<1>9. Located(a)'
  <2>1. PICK n : n = Len(log)
    OBVIOUS
  <2>2. suffix(n) = <<>>
    BY <1>5, <2>1, SuffixFacts
  <2>3. Replaying(a, n)
    BY <1>3, <1>4, <1>5, <2>1, <2>2 DEF Replaying
  <2>4. Replaying(a, n)'
    BY <1>3, <2>3 DEF Replaying, suffix
  <2> QED
    BY <2>4 DEF Located
<1> QED
  BY <1>1, <1>2, <1>3, <1>7, <1>8, <1>9 DEF RInv

\* After a crash start() has the whole of a checkpoint and of the log behind it
\* to insert, or the whole log.
LEMMA RestartRecovery ==
  ASSUME RInv, Restart(ckpt) \/ Restart([ledger |-> <<>>, wal_offset |-> 0])
  PROVE  RInv'
<1>1. IInv /\ IInv'
  BY NextInv DEF RInv, Next
<1>2. PICK a : Traced(a) /\ Saved(a) /\ Located(a) /\ intact = a[Len(log)].slots
  BY DEF RInv
<1>3. log' = log /\ ckpt' = ckpt /\ intact' = intact /\ ledger' = empty_ledger
  BY DEF Restart
<1>4. Traced(a)' /\ Saved(a)'
  BY <1>2, <1>3 DEF Traced, Saved
<1>5. Located(a)'
  <2>1. CASE Restart(ckpt)
    <3>1. PICK rest : rest = ckpt.ledger
      OBVIOUS
    <3>2. pending' = rest \o suffix(ckpt.wal_offset)
      BY <2>1, <3>1 DEF Restart, suffix
    <3>3. DOMAIN empty_ledger.slots = {}
      BY DEF empty_ledger
    <3>4. Restoring(a, rest)'
      BY <1>2, <1>3, <3>1, <3>2, <3>3 DEF Restoring, Part, Saved, suffix
    <3> QED
      BY <3>4 DEF Located
  <2>2. CASE Restart([ledger |-> <<>>, wal_offset |-> 0])
    <3>1. suffix(0) \in Seq(Evidence) /\ Len(log) \in Nat
      BY <1>1, LenProperties, SuffixFacts DEF IInv
    <3>2. pending' = <<>> \o suffix(0)
      BY <2>2 DEF Restart, suffix
    <3>3. pending' = suffix(0)
      BY <3>1, <3>2, ConcatEmptySeq
    <3>4. Replaying(a, 0)'
      BY <1>2, <1>3, <3>1, <3>3 DEF Replaying, Alike, Traced, suffix
    <3> QED
      BY <3>4 DEF Located
  <2> QED
    BY <2>1, <2>2
<1> QED
  BY <1>1, <1>2, <1>3, <1>4, <1>5 DEF RInv

\* One record of the log further.
LEMMA ReplayOne ==
  ASSUME IInv, NEW a, Traced(a), NEW k, Replaying(a, k), ApplyRecovered
  PROVE  Replaying(a, k + 1)'
<1>1. log \in Seq(Evidence) /\ k \in 0..Len(log) /\ pending = suffix(k) /\ pending # <<>>
  BY DEF IInv, Replaying, ApplyRecovered
<1>2. /\ Len(log) \in Nat /\ k < Len(log)
      /\ Head(pending) = log[k + 1] /\ Tail(pending) = suffix(k + 1)
  BY <1>1, SuffixFacts
<1>3. k \in 0..Len(log) /\ k + 1 \in 1..Len(log)
  BY <1>1, <1>2
<1>4. a[k + 1] = insert(a[k], log[k + 1])
  BY <1>2, <1>3 DEF Traced
<1>5. DOMAIN ledger = Fields /\ DOMAIN a[k] = Fields
  BY <1>3 DEF IInv, Good, Typed, Traced
<1>6. Alike(insert(ledger, log[k + 1]), insert(a[k], log[k + 1]))
  BY <1>5, InsertAlike DEF Replaying
<1>7. log' = log /\ ledger' = insert(ledger, log[k + 1]) /\ pending' = suffix(k + 1)
  BY <1>2 DEF ApplyRecovered
<1> QED
  BY <1>2, <1>3, <1>4, <1>6, <1>7 DEF Replaying, suffix

\* One record of the checkpoint further, or the first one of the log.
LEMMA RestoreNext ==
  ASSUME IInv, NEW a, Traced(a), Saved(a), NEW rest, Restoring(a, rest), ApplyRecovered
  PROVE  Located(a)'
<1>0. PICK o : o = ckpt.wal_offset
  OBVIOUS
<1>1. o \in 0..Len(log) /\ rest \in Seq(Evidence) /\ log \in Seq(Evidence)
  BY <1>0 DEF Saved, Restoring, Lists, IInv
<1>2. suffix(o) \in Seq(Evidence)
  BY <1>1, SuffixFacts
<1>3. Typed(ledger) /\ Typed(a[o])
  BY <1>1 DEF IInv, Good, Traced
<1>4. CASE rest = <<>>
  <2>1. pending = suffix(o)
    BY <1>0, <1>2, <1>4, ConcatEmptySeq DEF Restoring
  <2>2. DOMAIN a[o].slots \subseteq DOMAIN ledger.slots
    BY <1>0, <1>4 DEF Restoring, Lists
  <2>3. Replaying(a, o)
    BY <1>0, <1>1, <1>3, <2>1, <2>2, SameSlots DEF Replaying, Restoring
  <2>4. Replaying(a, o + 1)'
    BY <2>3, ReplayOne
  <2> QED
    BY <2>4 DEF Located
<1>5. CASE rest # <<>>
  <2>1. PICK r, more : r = Head(rest) /\ more = Tail(rest)
    OBVIOUS
  <2>2. /\ r \in Evidence /\ more \in Seq(Evidence) /\ r = rest[1]
        /\ Len(more) = Len(rest) - 1 /\ Len(rest) \in Nat \ {0}
        /\ \A i \in 1..Len(more) : more[i] = rest[i + 1]
    BY <1>1, <1>5, <2>1, HeadTailProperties, LenProperties
  <2>3. Head(pending) = r /\ Tail(pending) = more \o suffix(o)
    BY <1>0, <1>1, <1>2, <1>5, <2>1 DEF Restoring
  <2>4. /\ log' = log /\ ckpt' = ckpt /\ ledger' = insert(ledger, r)
        /\ pending' = more \o suffix(o)
    BY <2>3 DEF ApplyRecovered
  <2>5. r.slot \in DOMAIN a[o].slots /\ r = a[o].slots[r.slot]
    BY <1>0, <2>2 DEF Restoring, Lists
  <2>6. /\ Part(insert(ledger, r), a[o])
        /\ DOMAIN insert(ledger, r).slots = DOMAIN ledger.slots \union {r.slot}
    <3>1. PICK C \in SUBSET Evidence : Good(a[o], C)
      BY <1>1 DEF Traced
    <3> QED
      BY <1>0, <2>2, <2>5, <3>1, RestoreOne DEF IInv, Restoring
  <2>7. Lists(more, a[o], insert(ledger, r))
    <3>1. ASSUME NEW i \in 1..Len(more)
          PROVE  more[i].slot \in DOMAIN a[o].slots /\ more[i] = a[o].slots[more[i].slot]
      <4>1. i + 1 \in 1..Len(rest) /\ more[i] = rest[i + 1]
        BY <2>2
      <4> QED
        BY <1>0, <4>1 DEF Restoring, Lists
    <3>2. ASSUME NEW s \in DOMAIN a[o].slots, s \notin DOMAIN insert(ledger, r).slots
          PROVE  \E i \in 1..Len(more) : more[i].slot = s
      <4>1. PICK i \in 1..Len(rest) : rest[i].slot = s
        BY <1>0, <2>6, <3>2 DEF Restoring, Lists
      <4>2. i # 1
        BY <2>2, <2>6, <3>2, <4>1
      <4>3. i - 1 \in 1..Len(more) /\ more[i - 1] = rest[i]
        BY <2>2, <4>2
      <4> QED
        BY <4>1, <4>3
    <3> QED
      BY <2>2, <3>1, <3>2 DEF Lists
  <2>8. Restoring(a, more)'
    BY <1>0, <2>4, <2>6, <2>7 DEF Restoring, suffix
  <2> QED
    BY <2>8 DEF Located
<1> QED
  BY <1>4, <1>5

\* Every step keeps the ledger on the way to what the log builds.
LEMMA NextRecovery == RInv /\ [Next]_vars => RInv'
<1> SUFFICES ASSUME RInv, [Next]_vars PROVE RInv'
  OBVIOUS
<1>1. ASSUME NEW r \in Evidence, Submit(r)
      PROVE  RInv'
  BY <1>1, SubmitRecovery
<1>2. CASE WriteCheckpoint
  BY <1>2, CheckpointRecovery
<1>3. CASE Restart(ckpt) \/ Restart([ledger |-> <<>>, wal_offset |-> 0])
  BY <1>3, RestartRecovery
<1>4. CASE ApplyRecovered
  <2>1. IInv /\ IInv'
    BY <1>4, NextInv DEF RInv, Next
  <2>2. PICK a : Traced(a) /\ Saved(a) /\ Located(a) /\ intact = a[Len(log)].slots
    BY DEF RInv
  <2>3. log' = log /\ ckpt' = ckpt /\ intact' = intact
    BY <1>4 DEF ApplyRecovered
  <2>4. Traced(a)' /\ Saved(a)'
    BY <2>2, <2>3 DEF Traced, Saved
  <2>5. Located(a)'
    <3>1. ASSUME NEW k, Replaying(a, k)
          PROVE  Located(a)'
      BY <1>4, <2>1, <2>2, <3>1, ReplayOne DEF Located
    <3>2. ASSUME NEW rest, Restoring(a, rest)
          PROVE  Located(a)'
      BY <1>4, <2>1, <2>2, <3>2, RestoreNext
    <3> QED
      BY <2>2, <3>1, <3>2 DEF Located
  <2> QED
    BY <2>1, <2>2, <2>3, <2>4, <2>5 DEF RInv
<1>5. CASE UNCHANGED vars
  <2>1. IInv'
    BY <1>5, NextInv DEF RInv
  <2> QED
    BY <1>5, <2>1 DEF RInv, vars, Traced, Saved, Located, Replaying, Restoring, suffix
<1> QED
  BY <1>1, <1>2, <1>3, <1>4, <1>5 DEF Next

\* A restart that has nothing left to insert has the slots the daemon last
\* served with: replaying the log from the checkpoint, whose records may come
\* in any order, and replaying all of it rebuild the same set, under any bounds.
THEOREM RecoveryExact == Spec => RecoveryRebuilds
<1>1. RInv => Rebuilt
  <2> SUFFICES ASSUME RInv, pending = <<>> PROVE ledger.slots = intact
    BY DEF Rebuilt
  <2>1. PICK a : Traced(a) /\ Saved(a) /\ Located(a) /\ intact = a[Len(log)].slots
    BY DEF RInv
  <2> QED
    BY <2>1, Served DEF RInv, Alike
<1>2. pending # <<>> /\ [Next]_vars => intact' = intact
  BY DEF Next, vars, Submit, WriteCheckpoint, Restart, ApplyRecovered
<1>3. Rebuilt' /\ [Next]_vars
        => [pending # <<>> /\ pending' = <<>> => ledger'.slots = intact]_vars
  BY <1>2 DEF Rebuilt
<1> QED
  BY <1>1, <1>3, InitRecovery, NextRecovery, PTL DEF Spec, RecoveryRebuilds

=============================================================================
