---------------------------- MODULE RegistryOps ----------------------------
(***************************************************************************)
(* The grant registry (src/authority/registry.cpp): the component that     *)
(* decides whether authority over a set of rack resources may exist.       *)
(*                                                                         *)
(* Every C++ method is an operator on a registry value `reg`, a record     *)
(* with one field per member of the class, so that the daemon can compose  *)
(* several calls in one command exactly as the code does.  Module          *)
(* GrantRegistry makes a state machine of them.                            *)
(*                                                                         *)
(* A resource is a natural number, ordered as ResourceRef is.  A digest is *)
(* the content it is computed from, so equal digests mean equal content.   *)
(***************************************************************************)
EXTENDS RackTypes, Integers, FiniteSets, FiniteSetsExt

CONSTANTS
  Ref,             \* the resources a scope may name
  Rack,            \* the reference of the rack itself
  RequestId,       \* client request identities
  MaxLive,         \* AuthorityLimits::max_live_grants
  MaxRemembered,   \* AuthorityLimits::max_remembered_requests
  MaxOccupancy,    \* AuthorityLimits::max_occupancy_entries
  MinTtl, MaxTtl,  \* AuthorityLimits::min_ttl_ms, max_ttl_ms
  U64Max           \* the largest value of a 64 bit counter

ASSUME RegistryAssumption ==
  /\ Ref \subseteq Nat
  /\ Rack \in Ref
  /\ {MaxLive, MaxRemembered, MaxOccupancy, MinTtl, MaxTtl, U64Max} \subseteq Nat
  /\ MaxLive <= U64Max

Owner == [device : Ref, incarnation : Nat]

ResourceState ==
  [eligible : BOOLEAN, maintenance : BOOLEAN, capacity_known : BOOLEAN,
   capacity : Nat, obligated : Nat, owners : SUBSET Owner]

is_snapshot(s) ==
  /\ {s.generation, s.epoch} \subseteq Nat /\ s.uncommitted \in 0..U64Max
  /\ s.lifecycle \in LifecycleState
  /\ DOMAIN s.res \subseteq Ref /\ s.res \in [DOMAIN s.res -> ResourceState]
  /\ DOMAIN s.scope \subseteq Ref /\ s.scope \in [DOMAIN s.scope -> SUBSET Ref]

Basis ==
  [epoch : Nat, scope : SUBSET Ref,
   refs : [Ref -> SUBSET [capacity_known : BOOLEAN, capacity : Nat, owners : SUBSET Owner]]]

Grant ==
  [id : Nat \ {0}, request : RequestId, scope : Ref, mode : GrantMode, capacity : Nat,
   generation : Nat, epoch : Nat, incarnation : Nat, fence : Nat, expires_at : 0..U64Max,
   state : GrantState, authority_basis : Basis, capacity_pool : SUBSET Ref]

-----------------------------------------------------------------------------
(* What the registry reads of a snapshot.  snap.res is the resource table  *)
(* (Snapshot::find fails outside its domain); snap.scope is the expansion  *)
(* of every scope root that resolves.                                      *)

scope_resolves(snap, root) == root \in DOMAIN snap.scope

expand_scope(snap, root) == snap.scope[root]

\* The basis covers existence, capacity and owners, not eligibility,
\* obligations or maintenance.
authority_basis_digest(snap, scope) ==
  [epoch |-> snap.epoch,
   scope |-> scope,
   refs  |-> [r \in Ref |->
                {[capacity_known |-> snap.res[q].capacity_known,
                  capacity       |-> snap.res[q].capacity,
                  owners         |-> snap.res[q].owners] :
                    q \in {r} \intersect scope \intersect DOMAIN snap.res}]]

capacity_pool_refs(snap, root) ==
  {Rack, root} \union {o.device : o \in snap.res[root].owners}

eligible_in(snap, r) == r \in DOMAIN snap.res /\ snap.res[r].eligible

-----------------------------------------------------------------------------
(* The registry value.                                                     *)

empty_registry ==
  [grants          |-> [id \in {} |-> 0],
   outcomes        |-> [r \in {} |-> 0],
   footprints      |-> [id \in {} |-> {}],
   occupancy       |-> [r \in Ref |-> {}],
   committed       |-> [r \in Ref |-> 0],
   committed_total |-> 0,
   next_fence      |-> 0,
   incarnation     |-> 0,
   live            |-> 0,
   recovering      |-> 0]

is_live(reg, id) == is_live_state(reg.grants[id].state)

live_grants(reg) == {id \in DOMAIN reg.grants : is_live(reg, id)}

token(grant) ==
  [grant |-> grant.id, fence |-> grant.fence,
   incarnation |-> grant.incarnation, scope_basis |-> grant.authority_basis]

\* The running count the class keeps is the size of the index.
occupancy_entries(reg) ==
  MapThenSumSet(LAMBDA r : Cardinality(reg.occupancy[r]), Ref)

\* Units that the grants of `ids` draw from pool `r`.
units_in_pool(reg, ids, r) ==
  MapThenSumSet(LAMBDA id : reg.grants[id].capacity,
                {id \in ids : r \in reg.grants[id].capacity_pool})

units_of(reg, ids) == MapThenSumSet(LAMBDA id : reg.grants[id].capacity, ids)

\* checked_add_u64, saturating; checked_sub_u64, flooring at zero.
saturate(x) == IF x \in 0..U64Max THEN x ELSE U64Max
floor_at_zero(x) == IF x \in 0..U64Max THEN x ELSE 0

attach(reg, snap, grant) ==
  LET indexed == scope_resolves(snap, grant.scope)
      scope == IF indexed THEN expand_scope(snap, grant.scope) ELSE {}
  IN  [reg EXCEPT
        !.footprints = IF indexed
                       THEN [id \in DOMAIN reg.footprints \union {grant.id} |->
                               IF id = grant.id THEN scope ELSE reg.footprints[id]]
                       ELSE reg.footprints,
        !.occupancy = [r \in Ref |->
                         IF r \in scope
                         THEN reg.occupancy[r] \union {[id |-> grant.id, mode |-> grant.mode]}
                         ELSE reg.occupancy[r]],
        !.committed = [r \in Ref |->
                         IF r \in grant.capacity_pool
                         THEN saturate(reg.committed[r] + grant.capacity)
                         ELSE reg.committed[r]],
        !.committed_total = saturate(reg.committed_total + grant.capacity)]

\* detach() of every grant of `ids`, one after the other.
detach(reg, ids) ==
  [reg EXCEPT
    !.footprints = [id \in DOMAIN reg.footprints \ ids |-> reg.footprints[id]],
    !.occupancy = [r \in Ref |->
                     {o \in reg.occupancy[r] :
                        ~ /\ o.id \in ids \intersect DOMAIN reg.footprints
                          /\ r \in reg.footprints[o.id]}],
    !.committed = [r \in Ref |->
                     floor_at_zero(reg.committed[r] - units_in_pool(reg, ids, r))],
    !.committed_total = floor_at_zero(reg.committed_total - units_of(reg, ids))]

\* Variant: the index and the pools are left for prune() to clean up.
retire_without_detach(reg, ids, state) ==
  [reg EXCEPT
    !.grants = [id \in DOMAIN reg.grants |->
                  IF id \in ids THEN [reg.grants[id] EXCEPT !.state = state]
                                ELSE reg.grants[id]],
    !.live = floor_at_zero(reg.live - Cardinality(ids))]

\* The loop body fence_all, fence_device, expire_due, release, resume_all,
\* revalidate and apply_state share, over all live grants of `ids`.
retire(reg, ids, state) ==
  LET was_recovering == {id \in ids : reg.grants[id].state = "recovering"}
  IN  [detach(reg, ids) EXCEPT
        !.grants = [id \in DOMAIN reg.grants |->
                      IF id \in ids THEN [reg.grants[id] EXCEPT !.state = state]
                                    ELSE reg.grants[id]],
        !.live = floor_at_zero(reg.live - Cardinality(ids)),
        !.recovering = floor_at_zero(reg.recovering - Cardinality(was_recovering))]

remember(reg, request, outcome) ==
  [reg EXCEPT !.outcomes = [r \in DOMAIN reg.outcomes \union {request} |->
                              IF r = request THEN outcome ELSE reg.outcomes[r]]]

-----------------------------------------------------------------------------
(* Admission.                                                              *)

\* Units of pool r that a snapshot leaves for grants, where it leaves any.
pool_base(snap, r) ==
  IF r = Rack THEN snap.uncommitted ELSE snap.res[r].capacity - snap.res[r].obligated

pool_usable(snap, r) ==
  /\ eligible_in(snap, r)
  /\ r # Rack => snap.res[r].capacity_known /\ snap.res[r].obligated <= snap.res[r].capacity

\* Variant: forgets what other grants already draw.
available_uncommitted(reg, snap, r, units) ==
  pool_usable(snap, r) /\ units <= pool_base(snap, r)

\* available() succeeds with at least `units` left.
available(reg, snap, r, units) ==
  /\ pool_usable(snap, r)
  /\ reg.committed[r] + units <= pool_base(snap, r)

check_capacity(reg, snap, pool, units) ==
  \A r \in pool : available(reg, snap, r, units)

\* Variants: an exclusive request over a shared holder passes; a suspended
\* holder does not count.
conflicts_exclusive_holder(reg, scope, mode) ==
  \E r \in scope : \E o \in reg.occupancy[r] :
     o.id \in live_grants(reg) /\ o.mode = "exclusive"
conflicts_active_holder(reg, scope, mode) ==
  \E r \in scope : \E o \in reg.occupancy[r] :
     reg.grants[o.id].state = "active" /\ occupant_conflicts(mode, o.mode)

conflicts_in_index(reg, scope, mode) ==
  \E r \in scope : \E o \in reg.occupancy[r] :
     /\ o.id \in live_grants(reg)
     /\ occupant_conflicts(mode, o.mode)

\* The early returns of acquire, in their order, once the request is known not
\* to be a replay.  The typed capacity refusals are one code here.
acquire_code(reg, snap, req, now, allow_new) ==
  LET scope == expand_scope(snap, req.scope)
      bad   == {r \in scope : ~eligible_in(snap, r)}
  IN  IF ~req.wellformed \/ req.ttl \notin MinTtl..MaxTtl THEN "invalid"
      ELSE IF ~allow_new THEN "lifecycle_refused"
      ELSE IF reg.live >= MaxLive THEN "resource_exhausted"
      ELSE IF Cardinality(DOMAIN reg.outcomes) >= MaxRemembered THEN "resource_exhausted"
      ELSE IF ~scope_resolves(snap, req.scope) THEN "not_a_member"
      ELSE IF occupancy_entries(reg) + Cardinality(scope) > MaxOccupancy
           THEN "resource_exhausted"
      ELSE IF bad # {}
           THEN IF Min(bad) \in DOMAIN snap.res THEN "scope_not_eligible" ELSE "not_found"
      ELSE IF conflicts_in_index(reg, scope, req.mode) THEN "exclusive_conflict"
      ELSE IF req.scope \notin DOMAIN snap.res THEN "not_found"
      ELSE IF ~check_capacity(reg, snap, capacity_pool_refs(snap, req.scope), req.capacity)
           THEN "capacity_refused"
      ELSE IF now + req.ttl > U64Max THEN "deadline_overflow"
      ELSE "ok"

\* The refusals that are remembered under the request identity.
RememberedRefusals ==
  {"lifecycle_refused", "not_a_member", "scope_not_eligible", "exclusive_conflict",
   "capacity_refused"}

new_grant(reg, snap, req, incarnation, now) ==
  [id              |-> reg.next_fence + 1,
   request         |-> req.request,
   scope           |-> req.scope,
   mode            |-> req.mode,
   capacity        |-> req.capacity,
   generation      |-> snap.generation,
   epoch           |-> snap.epoch,
   incarnation     |-> incarnation,
   fence           |-> reg.next_fence + 1,
   expires_at      |-> now + req.ttl,
   state           |-> "active",
   authority_basis |-> authority_basis_digest(snap, expand_scope(snap, req.scope)),
   capacity_pool   |-> capacity_pool_refs(snap, req.scope)]

put_grant(reg, grant) ==
  [reg EXCEPT !.grants = [id \in DOMAIN reg.grants \union {grant.id} |->
                            IF id = grant.id THEN grant ELSE reg.grants[id]]]

\* Index, store and count a live grant.
add_live(reg, snap, grant) ==
  [put_grant(attach(reg, snap, grant), grant) EXCEPT !.live = reg.live + 1]

issue(reg, snap, grant) ==
  remember([add_live(reg, snap, grant) EXCEPT !.next_fence = grant.id],
           grant.request, [code |-> "ok", grant |-> grant.id])

\* A replayed request gets the remembered answer and changes nothing.
replay(reg, request) ==
  LET outcome == reg.outcomes[request]
  IN  [reg   |-> reg,
       code  |-> IF outcome.code = "ok" /\ outcome.grant \notin DOMAIN reg.grants
                 THEN "indeterminate" ELSE outcome.code,
       grant |-> outcome.grant]

acquire(reg, snap, req, incarnation, now, allow_new) ==
  LET code  == acquire_code(reg, snap, req, now, allow_new)
      grant == new_grant(reg, snap, req, incarnation, now)
      after == IF code = "ok" THEN issue(reg, snap, grant)
               ELSE IF code = "deadline_overflow"
                    THEN [reg EXCEPT !.next_fence = reg.next_fence + 1]
               ELSE IF code \in RememberedRefusals
                    THEN remember(reg, req.request, [code |-> code, grant |-> 0])
               ELSE reg
  IN  IF req.request \in DOMAIN reg.outcomes
      THEN replay(reg, req.request)
      ELSE [reg |-> after, code |-> code, grant |-> IF code = "ok" THEN grant.id ELSE 0]

-----------------------------------------------------------------------------
(* Use of a lease.                                                         *)

token_matches(reg, tok) ==
  /\ tok.grant \in DOMAIN reg.grants
  /\ tok = token(reg.grants[tok.grant])

\* Variant: only asks whether the scope still resolves.
basis_resolves(snap, grant) == scope_resolves(snap, grant.scope)

\* The scope resolves to the same resources with the same capacity and owners.
basis_holds(snap, grant) ==
  /\ scope_resolves(snap, grant.scope)
  /\ authority_basis_digest(snap, expand_scope(snap, grant.scope)) = grant.authority_basis

scope_eligible(snap, grant) ==
  \A r \in expand_scope(snap, grant.scope) : eligible_in(snap, r)

check_lease(reg, snap, tok, now) ==
  /\ token_matches(reg, tok)
  /\ LET grant == reg.grants[tok.grant]
     IN  /\ grant.state = "active"
         /\ grant.incarnation = reg.incarnation
         /\ grant.expires_at > now
         /\ grant.epoch = snap.epoch
         /\ grant.generation <= snap.generation
         /\ lifecycle_honours_existing_authority(snap.lifecycle)
         /\ basis_holds(snap, grant)
         /\ scope_eligible(snap, grant)
         /\ \A r \in expand_scope(snap, grant.scope) : ~snap.res[r].maintenance

renew_ok(reg, snap, tok, ttl, now) ==
  /\ ttl \in MinTtl..MaxTtl
  /\ check_lease(reg, snap, tok, now)
  /\ now + ttl <= U64Max

renew(reg, tok, ttl, now) ==
  [reg EXCEPT !.grants = [reg.grants EXCEPT ![tok.grant].expires_at = now + ttl]]

\* Variant: releases again what is already retired.
release_again(reg, tok) == retire(reg, {tok.grant}, "released")

\* Releasing a grant that is already retired succeeds and changes nothing.
release(reg, tok) ==
  IF is_live(reg, tok.grant) THEN retire(reg, {tok.grant}, "released") ELSE reg

-----------------------------------------------------------------------------
(* Sweeps over all grants.                                                 *)

fence_all(reg) == retire(reg, live_grants(reg), "fenced")

touches_device(snap, grant, device) ==
  \/ /\ scope_resolves(snap, device)
     /\ scope_resolves(snap, grant.scope)
     /\ expand_scope(snap, grant.scope) \intersect expand_scope(snap, device) # {}
  \/ device \in grant.capacity_pool

fence_device(reg, snap, device) ==
  retire(reg, {id \in live_grants(reg) : touches_device(snap, reg.grants[id], device)},
         "fenced")

due(reg, now) == {id \in live_grants(reg) : reg.grants[id].expires_at <= now}

expire_due(reg, now) == retire(reg, due(reg, now), "expired")

in_state(reg, state) == {id \in DOMAIN reg.grants : reg.grants[id].state = state}

\* Bookkeeping-free change of state of the grants in `ids`.
set_state(reg, ids, state) ==
  [reg EXCEPT !.grants = [id \in DOMAIN reg.grants |->
                            IF id \in ids THEN [reg.grants[id] EXCEPT !.state = state]
                                          ELSE reg.grants[id]]]

suspend_all(reg) == set_state(reg, in_state(reg, "active"), "suspended")

resumable(snap, grant, now) ==
  /\ grant.expires_at > now
  /\ grant.epoch = snap.epoch
  /\ basis_holds(snap, grant)
  /\ scope_eligible(snap, grant)

\* Variant: resumes whatever is not active and would pass.
resume_all_idle(reg, snap, now) ==
  set_state(reg, {id \in DOMAIN reg.grants \ in_state(reg, "active") :
                    resumable(snap, reg.grants[id], now)}, "active")

resume_all(reg, snap, now) ==
  LET suspended == in_state(reg, "suspended")
      ok        == {id \in suspended : resumable(snap, reg.grants[id], now)}
  IN  set_state(retire(reg, suspended \ ok, "fenced"), ok, "active")

-----------------------------------------------------------------------------
(* Recovery.                                                               *)

set_incarnation(reg, incarnation) == [reg EXCEPT !.incarnation = incarnation]

\* Variant: a second copy is refused only while the first is live.
install_recovered_again(reg, snap, durable) ==
  IF durable.id \in live_grants(reg) \/ reg.live >= MaxLive THEN reg
  ELSE [add_live(reg, snap, [durable EXCEPT !.state = "recovering"]) EXCEPT
          !.recovering = reg.recovering + 1,
          !.next_fence = IF durable.fence > @ THEN durable.fence ELSE @]

\* Variant: the grant comes back without its index entries.
install_recovered_unindexed(reg, snap, durable) ==
  IF durable.id \in DOMAIN reg.grants \/ reg.live >= MaxLive THEN reg
  ELSE [put_grant(reg, [durable EXCEPT !.state = "recovering"]) EXCEPT
          !.live = reg.live + 1, !.recovering = reg.recovering + 1,
          !.next_fence = IF durable.fence > @ THEN durable.fence ELSE @]

\* A grant read from the log lands in "recovering", whatever its logged state,
\* unless it names no pools and none can be derived for it.
install_recovered(reg, snap, durable) ==
  LET fence == IF durable.fence > reg.next_fence THEN durable.fence ELSE reg.next_fence
      pool  == IF durable.capacity_pool # {} THEN durable.capacity_pool
               ELSE IF durable.scope \in DOMAIN snap.res
                    THEN capacity_pool_refs(snap, durable.scope) ELSE {}
      grant == [durable EXCEPT !.state = "recovering", !.capacity_pool = pool]
  IN  IF durable.id \in DOMAIN reg.grants \/ reg.live >= MaxLive
      THEN reg
      ELSE IF pool = {}
      THEN [put_grant(reg, [durable EXCEPT !.state = "fenced"]) EXCEPT !.next_fence = fence]
      ELSE [add_live(reg, snap, grant) EXCEPT
              !.next_fence = fence, !.recovering = reg.recovering + 1]

\* Variant: outcomes are not brought back.
install_outcome_dropped(reg, request, outcome) == reg

install_outcome(reg, request, outcome) ==
  IF request \in DOMAIN reg.outcomes \/ Cardinality(DOMAIN reg.outcomes) < MaxRemembered
  THEN remember(reg, request, outcome)
  ELSE reg

\* Variant: the state is applied without giving up what the grant holds.
apply_state_only(reg, id, state) ==
  IF id \notin DOMAIN reg.grants THEN reg ELSE set_state(reg, {id}, state)

\* Only the terminal states are ever logged; the last one applied stays.
apply_state(reg, id, state) ==
  IF id \notin DOMAIN reg.grants THEN reg
  ELSE IF is_live(reg, id) THEN retire(reg, {id}, state)
  ELSE set_state(reg, {id}, state)

revalidates(snap, grant, now) ==
  /\ resumable(snap, grant, now)
  /\ grant.generation <= snap.generation

\* Variant: the counter does not account for the fences given out.
revalidate_uncounted(reg, snap, incarnation, now) ==
  LET waiting == in_state(reg, "recovering")
      ok      == {id \in waiting : revalidates(snap, reg.grants[id], now)}
      swept   == retire(reg, waiting \ ok, "fenced")
  IN  [swept EXCEPT
        !.grants = [id \in DOMAIN reg.grants |->
                      IF id \in ok
                      THEN [swept.grants[id] EXCEPT
                              !.state = "active", !.incarnation = incarnation,
                              !.fence = reg.next_fence + Cardinality({j \in ok : j <= id})]
                      ELSE swept.grants[id]],
        !.incarnation = incarnation,
        !.recovering = 0]

\* Grants that revalidate get fresh fences in the order of their identities.
revalidate(reg, snap, incarnation, now) ==
  LET waiting == in_state(reg, "recovering")
      ok      == {id \in waiting : revalidates(snap, reg.grants[id], now)}
      fence(id) == reg.next_fence + Cardinality({j \in ok : j <= id})
      swept   == retire(reg, waiting \ ok, "fenced")
  IN  [swept EXCEPT
        !.grants = [id \in DOMAIN reg.grants |->
                      IF id \in ok
                      THEN [swept.grants[id] EXCEPT !.state = "active",
                                                    !.incarnation = incarnation,
                                                    !.fence = fence(id)]
                      ELSE swept.grants[id]],
        !.incarnation = incarnation,
        !.next_fence = reg.next_fence + Cardinality(ok),
        !.recovering = floor_at_zero(reg.recovering - Cardinality(waiting))]

\* The reference scan of the differential test: footprints recomputed from
\* the snapshot at hand, without the index.
conflicts_bruteforce(reg, snap, scope, mode) ==
  {id \in live_grants(reg) :
     /\ occupant_conflicts(mode, reg.grants[id].mode)
     /\ scope_resolves(snap, reg.grants[id].scope)
     /\ expand_scope(snap, reg.grants[id].scope) \intersect scope # {}}

\* What prune() would have to clean up.
stale_footprints(reg) == DOMAIN reg.footprints \ live_grants(reg)

=============================================================================
