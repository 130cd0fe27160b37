------------------------------- MODULE Daemon -------------------------------
(***************************************************************************)
(* One rack's daemon through the lives of its processes.  Commands are     *)
(* atomic; a process can die between commands and inside a command's       *)
(* appends, and an append can fail while the process goes on.              *)
(***************************************************************************)
EXTENDS DaemonOps

CONSTANTS
  Evidence,        \* the observations reporters submit, in this order
  Orders,          \* the bodies of acquire requests
  Targets,         \* the lifecycle states an operator asks for
  Generations,     \* the generations compose is called with
  MaxNow,          \* bound on the clock
  MaxStarts,       \* bound: processes
  MaxRecords,      \* bound: appends that may still begin a command
  MaxDeaths,       \* bound: processes that die inside a command
  MaxMoves,        \* bound: lifecycle commands
  MaxCheckpoints,  \* bound: checkpoint commands
  MaxFailures      \* bound: failed appends a process survives

ASSUME DaemonBounds ==
  {MaxNow, MaxStarts, MaxRecords, MaxDeaths, MaxMoves,
   MaxCheckpoints, MaxFailures} \subseteq Nat

VARIABLES
  up,        \* "down", "serving" or "stopped"
  d,         \* the daemon's memory
  st,        \* its store
  now,       \* the clock
  granted,   \* history: what acquire answered with ok
  released,  \* history: grants whose release was answered with ok
  published, \* history: epoch and member set of every snapshot
  unseen,    \* history: a dirty start no operator command followed
  retired,   \* history: an operator's retirement was acknowledged
  starts, submits, moves, deaths, checkpoints, failures

history == <<granted, released, published, unseen, retired>>
counts == <<starts, submits, moves, deaths, checkpoints, failures>>
vars == <<up, d, st, now, history, counts>>

append_all(s, records, f, left) ==
  FoldLeft(LAMBDA a, i : IF i = f THEN append_failed(a, records[i], left)
                         ELSE append(a, records[i]),
           s, [i \in DOMAIN records |-> i])

published_by(e) ==
  IF e.snapshot.valid THEN {[epoch |-> e.snapshot.epoch, members |-> e.snapshot.members]} ELSE {}

Init ==
  /\ up = "down" /\ d = fresh_daemon /\ st = empty_store /\ now = 0
  /\ granted = {} /\ released = {} /\ published = {} /\ unseen = FALSE /\ retired = FALSE
  /\ starts = 0 /\ submits = 0 /\ moves = 0 /\ deaths = 0 /\ checkpoints = 0 /\ failures = 0

\* A command that ends; when append f of its records failed, some cells of
\* that record stay behind.
Finish(r, f) ==
  /\ f <= Len(r.records)
  /\ failures' = IF f = 0 THEN failures ELSE failures + 1
  /\ \E left \in IF f = 0 THEN {0} ELSE 0..2 :
       st' = maybe_checkpoint_locked(append_all(st, r.records, f, left), r)
  /\ d' = r.d
  /\ published' = published \union published_by(r.d)
  /\ UNCHANGED <<up, now, starts, deaths, checkpoints>>

\* The process dies when some of a command's records are in the log.  A
\* record it was still writing is truncated at the next open (module Store).
Die(r) ==
  /\ \E f \in 1..Len(r.records) : st' = append_all(st, SubSeq(r.records, 1, f), 0, 0)
  /\ up' = "down" /\ d' = fresh_daemon
  /\ deaths' = deaths + 1
  /\ UNCHANGED <<now, history, starts, submits, moves, checkpoints, failures>>

Serving == up = "serving" /\ Len(st.wal) <= 2 * MaxRecords

SubmitEvidence(f) ==
  /\ Serving /\ submits < Len(Evidence)
  /\ submits' = submits + 1
  /\ Finish(submit_evidence(d, Evidence[submits + 1], now, f), f)
  /\ UNCHANGED <<moves, granted, released, unseen, retired>>

Compose(target, f) ==
  /\ Serving
  /\ Finish(compose(d, target, f), f)
  /\ UNCHANGED <<submits, moves, granted, released, unseen, retired>>

request_of(request, order) ==
  [request |-> request, scope |-> order.scope, mode |-> order.mode,
   capacity |-> order.capacity, ttl |-> order.ttl, wellformed |-> order.wellformed]

Acquire(request, order, f) ==
  LET r  == acquire_command(d, request_of(request, order), now, f)
      id == r.d.reg.outcomes[request].grant
  IN  /\ Serving
      /\ Finish(r, f)
      /\ granted' = IF r.ok
                    THEN granted \union {[request |-> request, token |-> token(r.d.reg.grants[id])]}
                    ELSE granted
      /\ UNCHANGED <<submits, moves, released, unseen, retired>>

Renew(id, ttl, f) ==
  /\ Serving /\ id \in DOMAIN d.reg.grants
  /\ Finish(renew_command(d, token(d.reg.grants[id]), ttl, now, f), f)
  /\ UNCHANGED <<submits, moves, granted, released, unseen, retired>>

Release(id, f) ==
  /\ Serving /\ id \in DOMAIN d.reg.grants
  /\ Finish(release_command(d, token(d.reg.grants[id]), f), f)
  /\ released' = IF f = 0 THEN released \union {id} ELSE released
  /\ UNCHANGED <<submits, moves, granted, unseen, retired>>

SetLifecycle(target, f) ==
  LET r == transition_lifecycle_locked(d, target, now, f)
  IN  /\ Serving /\ moves < MaxMoves
      /\ moves' = moves + 1
      /\ Finish(r, f)
      /\ unseen' = FALSE
      /\ retired' = (retired \/ (r.ok /\ target = "retired"))
      /\ UNCHANGED <<submits, granted, released>>

ExpireDue(f) ==
  /\ Serving
  /\ Finish(expire_due_locked(d, now), f)
  /\ UNCHANGED <<submits, moves, granted, released, unseen, retired>>

Checkpoint ==
  /\ up = "serving" /\ checkpoints < MaxCheckpoints
  /\ st' = write_checkpoint(st, checkpoint_content(d))
  /\ checkpoints' = checkpoints + 1
  /\ UNCHANGED <<up, d, now, history, starts, submits, moves, deaths, failures>>

\* Dying inside the commands that append: the same calls, cut short.
DieInCommand ==
  /\ Serving /\ deaths < MaxDeaths
  /\ \/ submits < Len(Evidence) /\ Die(submit_evidence(d, Evidence[submits + 1], now, 0))
     \/ \E target \in Generations : Die(compose(d, target, 0))
     \/ \E request \in RequestId, order \in Orders :
          Die(acquire_command(d, request_of(request, order), now, 0))
     \/ \E id \in DOMAIN d.reg.grants :
          LET tok == token(d.reg.grants[id])
          IN  \/ \E ttl \in MinTtl..MaxTtl : Die(renew_command(d, tok, ttl, now, 0))
              \/ Die(release_command(d, tok, 0))
     \/ /\ moves < MaxMoves
        /\ \E target \in Targets : Die(transition_lifecycle_locked(d, target, now, 0))
     \/ Die(expire_due_locked(d, now))

\* DaemonCore::stop; the process ends afterwards.
Stop ==
  /\ up = "serving"
  /\ d' = [d EXCEPT !.reg = fence_all(@)]
  /\ st' = mark_clean_shutdown(st)
  /\ up' = "stopped"
  /\ UNCHANGED <<now, history, counts>>

Crash ==
  /\ up # "down"
  /\ \E kept \in st.synced..Len(st.wal) : st' = crash(st, kept)
  /\ up' = "down" /\ d' = fresh_daemon
  /\ UNCHANGED <<now, history, counts>>

\* open, next_incarnation and bind_rack are done whether or not the rest of
\* start() succeeds; a process whose start fails exits.
Start ==
  LET opened == open(st)
      s      == start(opened, now, 0)
  IN  /\ up = "down" /\ starts < MaxStarts
      /\ starts' = starts + 1
      /\ st' = append_all(next_incarnation(opened), s.records, 0, 0)
      /\ up' = IF s.ok THEN "serving" ELSE "down"
      /\ d' = IF s.ok THEN s.d ELSE fresh_daemon
      /\ published' = IF s.ok THEN published \union published_by(s.d) ELSE published
      /\ unseen' = (s.ok /\ ~opened.fresh /\ ~opened.clean)
      /\ UNCHANGED <<now, granted, released, retired, submits, moves, deaths, checkpoints, failures>>

Tick ==
  /\ now < MaxNow
  /\ now' = now + 1
  /\ UNCHANGED <<up, d, st, history, counts>>

\* Which append fails, 0 for none; a command appends at most one record per
\* live grant, and two of its own.
Faults == IF failures < MaxFailures THEN 0..(MaxLive + 2) ELSE {0}

Next ==
  \/ \E f \in Faults :
       \/ SubmitEvidence(f)
       \/ \E target \in Generations : Compose(target, f)
       \/ \E request \in RequestId, order \in Orders : Acquire(request, order, f)
       \/ \E id \in DOMAIN d.reg.grants, ttl \in MinTtl..MaxTtl : Renew(id, ttl, f)
       \/ \E id \in DOMAIN d.reg.grants : Release(id, f)
       \/ \E target \in Targets : SetLifecycle(target, f)
       \/ ExpireDue(f)
  \/ DieInCommand
  \/ Checkpoint \/ Stop \/ Crash \/ Start \/ Tick

Spec == Init /\ [][Next]_vars

-----------------------------------------------------------------------------
(* Properties.                                                             *)

\* The daemon's state has its types, and a process that serves holds a
\* snapshot of its own generation, never one that is newer than its epoch.
TypeOK ==
  /\ up \in {"down", "serving", "stopped"} /\ now \in 0..MaxNow
  /\ d.lifecycle \in LifecycleState
  /\ DOMAIN d.ledger.slots \subseteq Slot
  /\ up # "down" => /\ is_snapshot(d.snapshot)
                    /\ d.snapshot.generation <= d.generation
                    /\ d.snapshot.epoch <= d.epoch
                    /\ d.incarnation = st.incarnation_counter

live == {id \in DOMAIN d.reg.grants : is_live(d.reg, id)}
usable(id) == check_lease(d.reg, d.snapshot, token(d.reg.grants[id]), now)
clash(i, j) ==
  /\ i # j
  /\ occupant_conflicts(d.reg.grants[i].mode, d.reg.grants[j].mode)
  /\ \E root \in {d.reg.grants[j].scope} \intersect DOMAIN d.snapshot.scope :
       expand_scope(d.snapshot, d.reg.grants[i].scope)
         \intersect expand_scope(d.snapshot, root) # {}

\* No two leases that validate now are incompatible, whatever processes died
\* in between and whatever the log gave back (GrantRegistry::validate).
UsableLeasesCompatible ==
  \A i \in live, j \in live : usable(i) /\ usable(j) => ~clash(i, j)

\* After an unclean restart nothing recovered can be used before an operator
\* has moved the rack forward (DaemonCore::start).
NothingUsableUnseen ==
  unseen => \A id \in live : ~usable(id)

\* A request that was answered with a grant is answered with the same grant
\* for ever, over replays and restarts (DaemonCore::acquire).
AnswersStable ==
  \A g, h \in granted : g.request = h.request => g.token.grant = h.token.grant

\* The tokens clients hold or can query.
tokens ==
  {g.token : g \in granted} \union {token(d.reg.grants[id]) : id \in DOMAIN d.reg.grants}

\* A fence and the incarnation it was issued under name one grant, although
\* fences given out by revalidate are not in the log and come back.
TokensUnique ==
  \A t, u \in tokens :
    t.fence = u.fence /\ t.incarnation = u.incarnation => t.grant = u.grant

\* Fencing tokens are never reused for another grant
\* (GrantRegistry::next_fence_).  It does not hold: fences drawn by revalidate
\* are not logged, so the next process draws them again.
FencesUnique ==
  \A t, u \in tokens : t.fence = u.fence => t.grant = u.grant

\* A grant whose release was acknowledged is never live again.
ReleasedStaysReleased ==
  live \intersect released = {}

\* At most one live grant exists for a request.  It does not hold when a
\* process dies between the grant's and the outcome's append in acquire.
OneGrantPerRequest ==
  \A i, j \in live : d.reg.grants[i].request = d.reg.grants[j].request => i = j

\* The epoch stands for a member set: two snapshots of one epoch, also of
\* different processes, have the same members, once the first change of
\* members has been recorded and while no append has failed
\* (compose_locked).
EpochNamesMembers ==
  failures = 0 =>
    \A a, b \in published : a.epoch = b.epoch /\ a.epoch > 0 => a.members = b.members

\* The same without the exception.  It does not hold: the first composition
\* of a process that knows no epoch record adopts the members it finds.
EpochAlwaysNamesMembers ==
  \A a, b \in published : a.epoch = b.epoch => a.members = b.members

\* Memory is never ahead of the log: if the process died now, the next one
\* would have the same live grants or have fenced them, would not bring back
\* a retired grant, and would reach the same generation and epoch.
MemoryNotAhead ==
  up = "serving" =>
    LET next == start(open(crash(st, st.synced)), now, 0).d
    IN  /\ live \subseteq DOMAIN next.reg.grants
        /\ \A id \in DOMAIN d.reg.grants :
             d.reg.grants[id].state \in {"released", "expired"} =>
               id \notin DOMAIN next.reg.grants \/ ~is_live(next.reg, id)
        /\ next.generation >= d.generation /\ next.epoch >= d.epoch

\* Remembered success means the grant is there (DaemonCore::lookup).
LookupNamesGrant ==
  \A r \in DOMAIN d.reg.outcomes :
    up # "down" /\ d.reg.outcomes[r].code = "ok" =>
      d.reg.outcomes[r].grant \in DOMAIN d.reg.grants

\* A retired rack stays retired, also over restarts.  It does not hold: an
\* unclean start sets the lifecycle to recovering whatever was logged.
RetiredIsTerminal ==
  retired => up = "down" \/ d.lifecycle = "retired"

=============================================================================
