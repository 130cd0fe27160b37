----------------------------- MODULE DaemonOps -----------------------------
(***************************************************************************)
(* The daemon's state and commands (DaemonCore, src/runtime/daemon.cpp),   *)
(* on top of the ledger, the registry and the store.                       *)
(*                                                                         *)
(* Every command runs under one mutex, so it is one operator.  Its result  *)
(* holds the daemon's state afterwards, the records it handed to the log   *)
(* in their order, and whether it took its success path.  The argument     *)
(* `f` says which of these appends failed, 0 for none.                     *)
(***************************************************************************)
EXTENDS RegistryOps, LedgerOps, StoreOps, SequencesExt

CONSTANTS
  Topology(_),      \* what the composer derives from the ledger's slots
  AutoCompose,      \* DaemonConfig::auto_compose
  CheckpointEvery   \* DaemonConfig::checkpoint_every_records

fresh_daemon ==
  [incarnation |-> 0, lifecycle |-> "assembling", generation |-> 0, epoch |-> 0,
   members |-> {}, membership_initialized |-> FALSE, ledger |-> empty_ledger,
   snapshot |-> [valid |-> FALSE], reg |-> empty_registry]

result(d, records, ok) == [d |-> d, records |-> records, ok |-> ok]

-----------------------------------------------------------------------------
(* Composition.                                                            *)

\* The snapshot for a generation, at the daemon's epoch and lifecycle.
composed(d, target) ==
  LET t == Topology(d.ledger.slots)
  IN  [valid |-> TRUE, generation |-> target, epoch |-> d.epoch, lifecycle |-> d.lifecycle,
       members |-> t.members, uncommitted |-> t.uncommitted, res |-> t.res,
       scope |-> t.scope]

\* The first composition adopts the member set; a later one that finds
\* another set advances the epoch, in memory first and then in the log.
compose_locked(d, target, logged) ==
  LET t       == Topology(d.ledger.slots)
      changed == d.membership_initialized /\ t.members # d.members
      adopted == [d EXCEPT !.membership_initialized = TRUE, !.members = t.members,
                           !.epoch = IF changed THEN @ + 1 ELSE @]
      entry   == [type |-> "epoch", epoch |-> adopted.epoch, members |-> t.members]
  IN  IF d.lifecycle = "retired" \/ ~t.ok
      THEN result(d, <<>>, FALSE)
      ELSE IF changed /\ ~logged
      THEN result(adopted, <<entry>>, FALSE)
      ELSE result([adopted EXCEPT !.snapshot = composed(adopted, target),
                                  !.generation = target],
                  IF changed THEN <<entry>> ELSE <<>>, TRUE)

-----------------------------------------------------------------------------
(* Commands.                                                               *)

commit_record(grant) ==
  [type |-> "commit", incarnation |-> grant.incarnation, grant |-> grant]

state_record(id, state) == [type |-> "state", id |-> id, state |-> state]

\* Failures of these appends are ignored.
expire_due_locked(d, now) ==
  LET ids == SetToSortSeq(due(d.reg, now), <)
  IN  result([d EXCEPT !.reg = expire_due(@, now)],
             [i \in DOMAIN ids |-> state_record(ids[i], "expired")], TRUE)

\* A batch of one record.
submit_evidence(d, r, now, f) ==
  LET swept    == expire_due_locked(d, now)
      n        == Len(swept.records)
      entry    == IF r.valid THEN <<[type |-> "evidence", record |-> r]>> ELSE <<>>
      inserted == IF r.valid /\ f # n + 1
                  THEN [swept.d EXCEPT !.ledger = insert(@, r)] ELSE swept.d
      c == IF AutoCompose
           THEN compose_locked(inserted, d.generation, f # n + Len(entry) + 1)
           ELSE result(inserted, <<>>, TRUE)
  IN  IF d.lifecycle = "retired" THEN result(d, <<>>, FALSE)
      ELSE result(c.d, swept.records \o entry \o c.records, TRUE)

compose(d, target, f) ==
  LET entry == IF target > d.generation
               THEN <<[type |-> "generation", generation |-> target]>> ELSE <<>>
      c == compose_locked([d EXCEPT !.generation = target], target, f # Len(entry) + 1)
  IN  IF d.lifecycle = "retired" \/ target < d.generation THEN result(d, <<>>, FALSE)
      ELSE IF entry # <<>> /\ f = 1 THEN result(d, entry, FALSE)
      ELSE result(c.d, entry \o c.records, c.ok)

\* Variant: the outcome is logged before the grant.
acquire_entries_swapped(grant, request) ==
  <<[type |-> "outcome", request |-> request,
     outcome |-> [code |-> "ok", grant |-> grant.id]],
    commit_record(grant)>>

acquire_entries(grant, request) ==
  <<commit_record(grant),
    [type |-> "outcome", request |-> request,
     outcome |-> [code |-> "ok", grant |-> grant.id]]>>

\* Two appends: if either fails, the grant is released in memory only.
acquire_command(d, req, now, f) ==
  LET swept   == expire_due_locked(d, now)
      n       == Len(swept.records)
      a       == acquire(swept.d.reg, d.snapshot, req, d.incarnation, now,
                         lifecycle_accepts_new_authority(d.lifecycle))
      grant   == a.reg.grants[a.grant]
      entries == acquire_entries(grant, req.request)
  IN  IF a.code # "ok"
      THEN result([d EXCEPT !.reg = a.reg], swept.records, FALSE)
      ELSE IF f \in {n + 1, n + 2}
      THEN result([d EXCEPT !.reg = release(a.reg, token(grant))],
                  swept.records \o SubSeq(entries, 1, f - n), FALSE)
      ELSE result([d EXCEPT !.reg = a.reg], swept.records \o entries, TRUE)

renew_command(d, tok, ttl, now, f) ==
  LET renewed == renew(d.reg, tok, ttl, now)
  IN  IF ~renew_ok(d.reg, d.snapshot, tok, ttl, now) THEN result(d, <<>>, FALSE)
      ELSE result([d EXCEPT !.reg = renewed],
                  <<commit_record(renewed.grants[tok.grant])>>, f # 1)

\* Variant: the release is not logged.
release_unlogged(d, tok, f) ==
  IF ~token_matches(d.reg, tok) THEN result(d, <<>>, FALSE)
  ELSE result([d EXCEPT !.reg = release(@, tok)], <<>>, TRUE)

release_command(d, tok, f) ==
  IF ~token_matches(d.reg, tok) THEN result(d, <<>>, FALSE)
  ELSE result([d EXCEPT !.reg = release(@, tok)],
              <<state_record(tok.grant, "released")>>, f # 1)

\* The lifecycle and the grants change first, the log is written last.
transition_lifecycle_locked(d, target, now, f) ==
  LET swept == CASE target = "maintenance" -> suspend_all(d.reg)
                 [] target = "retired" -> fence_all(d.reg)
                 [] OTHER -> d.reg
      moved == [d EXCEPT !.lifecycle = target, !.reg = swept]
      serves == target \in {"active", "degraded"}
      c == IF serves THEN compose_locked(moved, d.generation, f # 1)
           ELSE result(moved, <<>>, TRUE)
      rearmed == IF d.lifecycle = "recovering"
                 THEN revalidate(c.d.reg, c.d.snapshot, d.incarnation, now) ELSE c.d.reg
      after == IF serves THEN [c.d EXCEPT !.reg = resume_all(rearmed, c.d.snapshot, now)]
               ELSE c.d
      entry == [type |-> "lifecycle", state |-> target, generation |-> after.generation,
                epoch |-> after.epoch]
  IN  IF ~lifecycle_transition_allowed(d.lifecycle, target) THEN result(d, <<>>, FALSE)
      ELSE IF ~c.ok THEN c
      ELSE result(after, Append(c.records, entry), f # Len(c.records) + 1)

\* What write_checkpoint is given: no grants and no request outcomes.
checkpoint_content(d) ==
  [generation |-> d.snapshot.generation, epoch |-> d.snapshot.epoch,
   lifecycle |-> d.lifecycle, members |-> d.members, slots |-> d.ledger.slots]

maybe_checkpoint_locked(st, r) ==
  IF r.ok /\ CheckpointEvery > 0 /\ st.appends >= CheckpointEvery
  THEN write_checkpoint(st, checkpoint_content(r.d)) ELSE st

-----------------------------------------------------------------------------
(* Recovery.                                                               *)

reload(slots) ==
  FoldSet(LAMBDA s, ledger : insert(ledger, slots[s]), empty_ledger, DOMAIN slots)

\* Variant: the member set of the checkpoint is not taken over.
from_checkpoint_unadopted(checkpoint) ==
  IF ~checkpoint.present THEN fresh_daemon
  ELSE LET c == checkpoint.content
       IN  [fresh_daemon EXCEPT
              !.generation = c.generation, !.epoch = c.epoch, !.lifecycle = c.lifecycle,
              !.ledger = reload(c.slots)]

from_checkpoint(checkpoint) ==
  IF ~checkpoint.present THEN fresh_daemon
  ELSE LET c == checkpoint.content
       IN  [fresh_daemon EXCEPT
              !.generation = c.generation, !.epoch = c.epoch, !.lifecycle = c.lifecycle,
              !.members = c.members, !.membership_initialized = TRUE,
              !.ledger = reload(c.slots)]

\* Commits and states wait until start() has a snapshot.
apply_recovered_record(d, record) ==
  CASE record.type = "evidence" -> [d EXCEPT !.ledger = insert(@, record.record)]
    [] record.type = "lifecycle" ->
         [d EXCEPT !.lifecycle = record.state,
                   !.generation = Max({@, record.generation}),
                   !.epoch = Max({@, record.epoch})]
    [] record.type = "generation" -> [d EXCEPT !.generation = record.generation]
    [] record.type = "epoch" ->
         [d EXCEPT !.epoch = record.epoch, !.members = record.members,
                   !.membership_initialized = TRUE]
    [] record.type = "outcome" ->
         [d EXCEPT !.reg = install_outcome(@, record.request, record.outcome)]
    [] OTHER -> d

of_type(records, type) == SelectSeq(records, LAMBDA r : r.type = type)

\* Variant: the rack comes up as it was.
lifecycle_kept(lifecycle, dirty) == lifecycle

\* A process that died leaves the rack recovering, whatever it was.
recovered_lifecycle(lifecycle, dirty) ==
  IF dirty THEN "recovering"
  ELSE IF lifecycle = "recovering" THEN "assembling"
  ELSE lifecycle

\* start() on a store that has just been opened.
start(st, now, f) ==
  LET replayed == FoldLeft(apply_recovered_record, from_checkpoint(st.checkpoint), st.records)
      inc      == st.incarnation_counter + 1
      ready    == [replayed EXCEPT
                     !.incarnation = inc,
                     !.lifecycle = recovered_lifecycle(@, ~st.fresh /\ ~st.clean),
                     !.reg = set_incarnation(@, inc)]
      c == compose_locked(ready, replayed.generation, f # 1)
      installed == FoldLeft(LAMBDA reg, r : install_recovered(reg, c.d.snapshot, r.grant),
                            c.d.reg, of_type(st.records, "commit"))
      settled == FoldLeft(LAMBDA reg, r : apply_state(reg, r.id, r.state),
                          installed, of_type(st.records, "state"))
  IN  IF ~c.ok THEN c
      ELSE result([c.d EXCEPT !.reg = revalidate(settled, c.d.snapshot, inc, now)],
                  c.records, TRUE)

=============================================================================
