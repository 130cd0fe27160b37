-------------------------------- MODULE Store --------------------------------
(***************************************************************************)
(* One store directory through the lives of the processes that open it:    *)
(* open, next_incarnation, appends, the steps of write_checkpoint, a clean *)
(* shutdown, and crashes between any two of them and inside an append.     *)
(***************************************************************************)
EXTENDS StoreOps

CONSTANTS
  MaxAppends,      \* bound: append calls in a behaviour
  MaxOpens,        \* bound: processes that open the store
  MaxCheckpoints,  \* bound: write_checkpoint calls
  MaxFailures,     \* bound: appends that return an error
  CheckpointTorn   \* bound: whether a process checkpoints after a failed append

ASSUME StoreBounds ==
  /\ {MaxAppends, MaxOpens, MaxCheckpoints, MaxFailures} \subseteq Nat
  /\ CheckpointTorn \in BOOLEAN

VARIABLES
  st,       \* the files and the Store object
  pc,       \* what the process is doing with it
  accepted, \* history: what the process holds, recovered or appended with ok
  sound,    \* history: of those, what precedes any failed append of the process
  failed,   \* history: whether an append of this process has failed
  issued,   \* history: the last incarnation a process received
  opens, tried, checkpoints, failures

counts == <<opens, tried, checkpoints, failures>>
held == <<accepted, sound, failed>>
vars == <<st, pc, held, issued, counts>>

Phases == {"down", "opened", "serving", "rotated", "placed", "closed"}

\* A grant commit names the incarnation it was issued under; every other
\* record type is alike to the store.
Kinds == {"commit", "other"}
Record == [type : Kinds, incarnation : 0..MaxOpens]
record_of(kind) == [type |-> kind, incarnation |-> st.incarnation_counter]

\* What a process that opened the store now would rebuild: what the
\* checkpoint covers, then the records replayed after it.
recovery_view ==
  IF checkpoint_usable(st)
  THEN st.checkpoint_file.content \o records_from(st.wal, st.checkpoint_file.wal_offset)
  ELSE records_from(st.wal, 0)

Init ==
  /\ st = empty_store /\ pc = "down"
  /\ accepted = <<>> /\ sound = <<>> /\ failed = FALSE /\ issued = 0
  /\ opens = 0 /\ tried = 0 /\ checkpoints = 0 /\ failures = 0

Open ==
  /\ pc = "down" /\ opens < MaxOpens
  /\ st' = open(st)
  /\ accepted' = recovery_view /\ sound' = recovery_view /\ failed' = FALSE
  /\ pc' = "opened" /\ opens' = opens + 1
  /\ UNCHANGED <<issued, tried, checkpoints, failures>>

NextIncarnation ==
  /\ pc = "opened"
  /\ st' = next_incarnation(st)
  /\ issued' = st'.incarnation_counter
  /\ pc' = "serving"
  /\ UNCHANGED <<held, counts>>

AppendRecord(kind) ==
  /\ pc = "serving" /\ tried < MaxAppends
  /\ st' = append(st, record_of(kind))
  /\ accepted' = Append(accepted, record_of(kind))
  /\ sound' = IF failed THEN sound ELSE accepted'
  /\ tried' = tried + 1
  /\ UNCHANGED <<pc, failed, issued, opens, checkpoints, failures>>

AppendFails(kind, left) ==
  /\ pc = "serving" /\ tried < MaxAppends /\ failures < MaxFailures
  /\ st' = append_failed(st, record_of(kind), left)
  /\ failed' = TRUE /\ tried' = tried + 1 /\ failures' = failures + 1
  /\ UNCHANGED <<pc, accepted, sound, issued, opens, checkpoints>>

\* The process dies inside append, before it could answer.
CrashInAppend(kind, left) ==
  /\ pc = "serving" /\ tried < MaxAppends
  /\ st' = append_failed(st, record_of(kind), left)
  /\ pc' = "down" /\ tried' = tried + 1
  /\ UNCHANGED <<held, issued, opens, checkpoints, failures>>

RotateCheckpoint ==
  /\ pc = "serving" /\ checkpoints < MaxCheckpoints /\ (failed => CheckpointTorn)
  /\ st' = rotate_checkpoint(st)
  /\ pc' = "rotated" /\ checkpoints' = checkpoints + 1
  /\ UNCHANGED <<held, issued, opens, tried, failures>>

PlaceCheckpoint ==
  /\ pc = "rotated"
  /\ st' = place_checkpoint(st, accepted)
  /\ pc' = "placed"
  /\ UNCHANGED <<held, issued, counts>>

PublishCheckpoint ==
  /\ pc = "placed"
  /\ st' = publish_checkpoint(st)
  /\ pc' = "serving"
  /\ UNCHANGED <<held, issued, counts>>

\* write_file_atomically failed: write_checkpoint returns the error and the
\* daemon goes on.
AbandonCheckpoint ==
  /\ pc \in {"rotated", "placed"}
  /\ pc' = "serving"
  /\ UNCHANGED <<st, held, issued, counts>>

MarkCleanShutdown ==
  /\ pc = "serving"
  /\ st' = mark_clean_shutdown(st)
  /\ pc' = "closed"
  /\ UNCHANGED <<held, issued, counts>>

\* The process ends, with or without having marked the store closed.
Crash ==
  /\ pc # "down"
  /\ \E kept \in st.synced..Len(st.wal) : st' = crash(st, kept)
  /\ pc' = "down"
  /\ UNCHANGED <<held, issued, counts>>

Next ==
  \/ Open \/ NextIncarnation
  \/ \E kind \in Kinds : AppendRecord(kind)
  \/ \E kind \in Kinds, left \in 0..2 : AppendFails(kind, left) \/ CrashInAppend(kind, left)
  \/ RotateCheckpoint \/ PlaceCheckpoint \/ PublishCheckpoint \/ AbandonCheckpoint
  \/ MarkCleanShutdown \/ Crash

Spec == Init /\ [][Next]_vars

-----------------------------------------------------------------------------
(* Properties.                                                             *)

\* Type correctness of the store's state, and positions that stay inside the
\* log: Store::log_bytes_ never passes the end of the file.
TypeOK ==
  /\ pc \in Phases /\ issued \in 0..MaxOpens
  /\ st.incarnation_counter \in 0..MaxOpens
  /\ st.meta.incarnation_counter \in 0..MaxOpens
  /\ st.log_bytes \in 0..Len(st.wal) \/ pc = "down"
  /\ st.synced \in 0..Len(st.wal)
  /\ accepted \in Seq(Record)

\* The store implements an ever-growing history with increasing
\* incarnations: no crash between the rotation of the old checkpoint, the
\* rename of the new one and the manifest changes what a recovery rebuilds.
\* A failed append may leave a whole record that a later crash takes away, so
\* from there on only the incarnations are kept to the promise.
Abstract == INSTANCE DurableLog WITH history <- recovery_view, incarnation <- issued
ImplementsDurableLog ==
  /\ Abstract!Init
  /\ [][IF failures' = 0 THEN Abstract!Next ELSE issued' >= issued]_(Abstract!vars)

\* The history t starts with all of s.
Continues(t, s) == Len(s) <= Len(t) /\ SubSeq(t, 1, Len(s)) = s

\* Whatever append acknowledged, a recovery at this moment would find: the
\* rebuilt history starts with everything the process holds, and goes beyond
\* it by at most the one record it died writing.  This is said of processes
\* whose appends did not fail, of which there may be several before and after.
AcceptedIsDurable ==
  ~failed => /\ Continues(recovery_view, accepted)
             /\ Len(recovery_view) <= Len(accepted) + 1

\* A failed append damages nothing before it: everything the process held
\* when its append first failed is rebuilt by any later recovery, since the
\* replay stops at the broken record and no earlier.
EarlierRecordsSurvive ==
  Continues(recovery_view, sound)

\* The clean flag is trustworthy: while the manifest says clean_shutdown, a
\* recovery rebuilds exactly what the last process held, so the next one may
\* skip the recovering state.
CleanMeansExact ==
  st.meta.clean_shutdown /\ ~failed => recovery_view = accepted

=============================================================================
