------------------------------ MODULE StoreOps ------------------------------
(***************************************************************************)
(* The durable store (src/persist/store.cpp) as operators on one record    *)
(* that holds the files of the directory and the members of class Store.   *)
(*                                                                         *)
(* The log is a sequence of cells: every record is framed as a head (its   *)
(* length and checksum) and a body.  A short write leaves a head alone,    *)
(* so that the next record follows a broken one and positions no longer    *)
(* fall on record boundaries, as in the file.  A checksum matches exactly  *)
(* when the body belongs to the head.                                      *)
(***************************************************************************)
EXTENDS Integers, Sequences, FiniteSetsExt

\* No checkpoint file, and no manifest.
absent == [present |-> FALSE]

empty_store ==
  [wal |-> <<>>, wal_exists |-> FALSE, synced |-> 0,
   checkpoint_file |-> absent,
   meta |-> [present |-> FALSE, incarnation_counter |-> 0, checkpoint |-> FALSE,
             clean_shutdown |-> FALSE],
   log_bytes |-> 0, appends |-> 0, incarnation_counter |-> 0,
   checkpoint_length |-> FALSE, checkpoint |-> absent,
   records |-> <<>>, fresh |-> FALSE, clean |-> FALSE]

cells(record) == <<[part |-> "head", of |-> record], [part |-> "body", of |-> record]>>

-----------------------------------------------------------------------------
(* Appending.                                                              *)

\* Variant: an append that succeeded is retried.
append_twice(st, record) ==
  LET wal == st.wal \o cells(record) \o cells(record)
  IN  [st EXCEPT !.wal = wal, !.synced = Len(wal), !.log_bytes = @ + 4, !.appends = @ + 2]

\* append() that reaches the disk and returns ok.
append(st, record) ==
  LET wal == st.wal \o cells(record)
  IN  [st EXCEPT !.wal = wal, !.synced = Len(wal),
                 !.log_bytes = @ + Len(cells(record)), !.appends = @ + 1]

\* append() that returns an error after `left` cells went into the file: a
\* short write, or a complete one whose flush failed.
append_failed(st, record, left) ==
  [st EXCEPT !.wal = @ \o SubSeq(cells(record), 1, left)]

-----------------------------------------------------------------------------
(* The manifest is replaced by a rename, so it is the old or the new one.  *)

persist_meta(st, checkpoint, clean) ==
  [st EXCEPT !.meta = [present |-> TRUE,
                       incarnation_counter |-> st.incarnation_counter,
                       checkpoint |-> checkpoint, clean_shutdown |-> clean]]

\* Variant: the manifest keeps saying clean_shutdown.
next_incarnation_still_clean(st) ==
  LET bumped == [st EXCEPT !.incarnation_counter = @ + 1]
  IN  persist_meta(bumped, st.checkpoint.present /\ st.checkpoint_length, st.clean)

\* Also what bind_rack writes next: the same manifest with the rack set.
next_incarnation(st) ==
  LET bumped == [st EXCEPT !.incarnation_counter = @ + 1]
  IN  persist_meta(bumped, st.checkpoint.present /\ st.checkpoint_length, FALSE)

mark_clean_shutdown(st) ==
  persist_meta([st EXCEPT !.synced = Len(st.wal)], st.checkpoint_length, TRUE)

\* The three steps of write_checkpoint that change the disk: the old file is
\* moved away, the new one is renamed into place, the manifest is replaced.
rotate_checkpoint(st) == [st EXCEPT !.checkpoint_file = absent]

\* Variant: the checkpoint is placed at the end of the file as it will be.
place_checkpoint_ahead(st, content) ==
  [st EXCEPT !.checkpoint_file =
     [present |-> TRUE, wal_offset |-> st.log_bytes + 2, content |-> content]]

place_checkpoint(st, content) ==
  [st EXCEPT !.checkpoint_file =
     [present |-> TRUE, wal_offset |-> st.log_bytes, content |-> content]]

publish_checkpoint(st) ==
  [persist_meta(st, TRUE, FALSE) EXCEPT
     !.checkpoint_length = TRUE, !.checkpoint = st.checkpoint_file]

write_checkpoint(st, content) ==
  publish_checkpoint(place_checkpoint(rotate_checkpoint(st), content))

-----------------------------------------------------------------------------
(* Crash and recovery.                                                     *)

\* Cells that no flush has covered may or may not be in the file afterwards.
crash(st, kept) == [st EXCEPT !.wal = SubSeq(@, 1, kept), !.synced = kept]

record_at(wal, pos) ==
  /\ pos + 2 <= Len(wal)
  /\ wal[pos + 1].part = "head"
  /\ wal[pos + 2] = [part |-> "body", of |-> wal[pos + 1].of]

\* Variant: a broken record discards the whole log.
replayable_all_or_nothing(wal, offset) ==
  LET n == (Len(wal) - offset) \div 2
  IN  IF \A i \in 0..(n - 1) : record_at(wal, offset + 2 * i) THEN n ELSE 0

\* How many whole records follow `offset` until the first broken one.
replayable(wal, offset) ==
  CHOOSE n \in 0..((Len(wal) - offset) \div 2) :
    /\ ~record_at(wal, offset + 2 * n)
    /\ \A i \in 0..(n - 1) : record_at(wal, offset + 2 * i)

records_from(wal, offset) ==
  [i \in 1..replayable(wal, offset) |-> wal[offset + 2 * i].of]

\* The manifest only says that there is a checkpoint; which one it is, and
\* where the log continues, the checkpoint file says itself.
checkpoint_usable(st) ==
  /\ st.meta.present /\ st.meta.checkpoint
  /\ st.checkpoint_file.present
  /\ st.checkpoint_file.wal_offset <= Len(st.wal)

\* The largest incarnation among the grants that are replayed.
max_incarnation(records) ==
  LET named == {records[i].incarnation : i \in {j \in DOMAIN records : records[j].type = "commit"}}
  IN  Max(named \union {0})

open(st) ==
  LET used    == checkpoint_usable(st)
      offset  == IF used THEN st.checkpoint_file.wal_offset ELSE 0
      found   == records_from(st.wal, offset)
      cursor  == offset + 2 * Len(found)
      counter == Max({IF st.meta.present THEN st.meta.incarnation_counter ELSE 0,
                      max_incarnation(found)})
  IN  [st EXCEPT
        !.wal = SubSeq(@, 1, cursor), !.wal_exists = TRUE, !.synced = cursor,
        !.log_bytes = cursor, !.appends = 0, !.incarnation_counter = counter,
        !.checkpoint = IF used THEN st.checkpoint_file ELSE absent,
        !.checkpoint_length = st.meta.checkpoint,
        !.records = found, !.fresh = ~st.wal_exists,
        !.clean = st.meta.present /\ st.meta.clean_shutdown]

=============================================================================
