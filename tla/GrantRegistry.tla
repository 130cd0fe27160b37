--------------------------- MODULE GrantRegistry ---------------------------
(***************************************************************************)
(* One incarnation of the grant registry as a state machine.               *)
(* DaemonCore::start installs what the log holds and revalidates it        *)
(* against the snapshot it has just composed; from then on the calls       *)
(* arrive in any order, while the snapshot and the clock move on.          *)
(***************************************************************************)
EXTENDS RegistryOps

CONSTANTS
  Snapshots,       \* the snapshots the composer may publish
  DurableGrants,   \* the grant commits an earlier incarnation may have logged
  Devices,         \* the references that are devices
  Orders,          \* the bodies of acquire requests
  Incarnation,     \* the incarnation that is running
  MaxNow,          \* bound on the clock
  MaxFence         \* bound on the fence counter

Order == [scope : Ref, mode : GrantMode, capacity : Nat, ttl : Nat, wellformed : BOOLEAN]

\* A committed grant carries the fence it was issued or re-armed with, which
\* is never below its identity, and the pools it was issued with, of which the
\* rack is one, or none.
ASSUME DrivingAssumption ==
  /\ \A s \in Snapshots : is_snapshot(s)
  /\ Orders \subseteq Order /\ Devices \subseteq Ref
  /\ {Incarnation, MaxFence} \subseteq Nat /\ MaxNow \in 0..U64Max
  /\ DurableGrants \subseteq Grant
  /\ \A g \in DurableGrants :
       g.id <= g.fence /\ (g.capacity_pool = {} \/ Rack \in g.capacity_pool)

VARIABLES
  reg,       \* the registry
  snap,      \* the snapshot the daemon holds
  now,       \* the clock, in ticks
  phase,     \* "starting" until revalidated, then "serving"
  restored   \* identities that install_recovered brought back

vars == <<reg, snap, now, phase, restored>>

Init ==
  /\ reg = set_incarnation(empty_registry, Incarnation)
  /\ snap \in Snapshots
  /\ now = 0
  /\ phase = "starting"
  /\ restored = {}

Serving(next) ==
  /\ phase = "serving"
  /\ reg' = next
  /\ UNCHANGED <<snap, now, phase, restored>>

InstallRecovered(g) ==
  /\ phase = "starting"
  /\ reg' = install_recovered(reg, snap, g)
  /\ restored' = restored \union ({g.id} \intersect DOMAIN reg'.grants)
  /\ UNCHANGED <<snap, now, phase>>

InstallOutcome(g) ==
  /\ phase = "starting"
  /\ reg' = install_outcome(reg, g.request, [code |-> "ok", grant |-> g.id])
  /\ UNCHANGED <<snap, now, phase, restored>>

ApplyState(id, state) ==
  /\ phase = "starting"
  /\ reg' = apply_state(reg, id, state)
  /\ UNCHANGED <<snap, now, phase, restored>>

\* Called at the end of start() and again when the rack leaves "recovering".
Revalidate ==
  /\ reg' = revalidate(reg, snap, Incarnation, now)
  /\ phase' = "serving"
  /\ UNCHANGED <<snap, now, restored>>

Acquire(request, order, allow_new) ==
  LET req == [request |-> request, scope |-> order.scope, mode |-> order.mode,
              capacity |-> order.capacity, ttl |-> order.ttl,
              wellformed |-> order.wellformed]
  IN  /\ reg.next_fence < MaxFence
      /\ Serving(acquire(reg, snap, req, Incarnation, now, allow_new).reg)

Renew(id, ttl) ==
  /\ renew_ok(reg, snap, token(reg.grants[id]), ttl, now)
  /\ Serving(renew(reg, token(reg.grants[id]), ttl, now))

Release(id) == Serving(release(reg, token(reg.grants[id])))

FenceAll == Serving(fence_all(reg))

FenceDevice(device) == Serving(fence_device(reg, snap, device))

ExpireDue == Serving(expire_due(reg, now))

SuspendAll == Serving(suspend_all(reg))

ResumeAll == Serving(resume_all(reg, snap, now))

\* The daemon publishes another snapshot.  Epochs and generations only grow.
Recompose(s) ==
  /\ phase = "serving"
  /\ s.generation >= snap.generation /\ s.epoch >= snap.epoch
  /\ snap' = s
  /\ UNCHANGED <<reg, now, phase, restored>>

Tick ==
  /\ phase = "serving"
  /\ now < MaxNow
  /\ now' = now + 1
  /\ UNCHANGED <<reg, snap, phase, restored>>

Next ==
  \/ \E g \in DurableGrants : InstallRecovered(g) \/ InstallOutcome(g)
  \/ \E g \in DurableGrants, state \in TerminalStates : ApplyState(g.id, state)
  \/ Revalidate
  \/ \E request \in RequestId, order \in Orders, allow \in BOOLEAN :
        Acquire(request, order, allow)
  \/ \E id \in DOMAIN reg.grants, ttl \in MinTtl..MaxTtl : Renew(id, ttl)
  \/ \E id \in DOMAIN reg.grants : Release(id)
  \/ FenceAll
  \/ \E device \in Devices : FenceDevice(device)
  \/ ExpireDue
  \/ SuspendAll
  \/ ResumeAll
  \/ \E s \in Snapshots : Recompose(s)
  \/ Tick

Spec == Init /\ [][Next]_vars

-----------------------------------------------------------------------------
(* Properties.                                                             *)

\* Every member of the registry has its type, and identities never run ahead
\* of the fence counter that hands them out.
TypeOK ==
  /\ reg.grants \in [DOMAIN reg.grants -> Grant]
  /\ \A id \in DOMAIN reg.grants : reg.grants[id].id = id /\ id <= reg.next_fence
  /\ reg.footprints \in [DOMAIN reg.footprints -> SUBSET Ref]
  /\ reg.occupancy \in [Ref -> SUBSET [id : DOMAIN reg.grants, mode : GrantMode]]
  /\ reg.committed \in [Ref -> 0..U64Max] /\ reg.committed_total \in 0..U64Max
  /\ {reg.next_fence, reg.live, reg.recovering, reg.incarnation} \subseteq Nat
  /\ snap \in Snapshots /\ now \in 0..MaxNow
  /\ phase \in {"starting", "serving"} /\ restored \subseteq DOMAIN reg.grants

\* live_ and recovering_ are running counters adjusted in nine places; they
\* always equal the number of live and of recovering grants.
CountersExact ==
  /\ reg.live = Cardinality(live_grants(reg))
  /\ reg.recovering = Cardinality(in_state(reg, "recovering"))

\* The exclusivity index is exactly the inverse of the recorded footprints, and
\* only live grants have one: prune() has nothing to clean up.
IndexExact ==
  /\ stale_footprints(reg) = {}
  /\ \A r \in Ref :
       reg.occupancy[r] = {[id |-> id, mode |-> reg.grants[id].mode] :
                             id \in {i \in DOMAIN reg.footprints : r \in reg.footprints[i]}}

\* committed_ of every pool, and committed_total_, are what the live grants
\* draw: a release, an expiry or a fence returns precisely what was taken,
\* although the topology moved on in between.
PoolsExact ==
  /\ \A r \in Ref : reg.committed[r] = units_in_pool(reg, live_grants(reg), r)
  /\ reg.committed_total = units_of(reg, live_grants(reg))

incompatible(i, j) ==
  /\ i # j
  /\ occupant_conflicts(reg.grants[i].mode, reg.grants[j].mode)

\* Two live grants of which one is exclusive never hold a common resource,
\* unless both were brought back by install_recovered, which checks nothing.
LiveGrantsCompatible ==
  \A i, j \in DOMAIN reg.footprints :
    incompatible(i, j) /\ reg.footprints[i] \intersect reg.footprints[j] # {}
      => {i, j} \subseteq restored

\* The same for the use of leases: whatever happened to the topology since,
\* two leases that check_lease accepts together have disjoint scopes in the
\* current snapshot if one of them is exclusive.
ValidLeasesCompatible ==
  \A i, j \in {id \in DOMAIN reg.grants :
                  check_lease(reg, snap, token(reg.grants[id]), now)} :
    incompatible(i, j) /\ expand_scope(snap, reg.grants[i].scope)
                            \intersect expand_scope(snap, reg.grants[j].scope) # {}
      => {i, j} \subseteq restored

\* No step brings a released, expired or fenced grant back to life.
RetiredStaysRetired ==
  [][\A id \in DOMAIN reg.grants : is_live(reg', id) => is_live(reg, id)]_vars

\* When a grant is issued, everything the live grants draw from each of its
\* pools fits what the snapshot leaves in that pool.
IssuedWithinCapacity ==
  [][phase = "serving" =>
       \A id \in DOMAIN reg'.grants \ DOMAIN reg.grants :
         \A r \in reg'.grants[id].capacity_pool :
           units_in_pool(reg', live_grants(reg'), r) <= pool_base(snap, r)]_vars

\* The registry is an exclusive authority table: what a live grant holds is its
\* recorded footprint, issued grants are compatible with all that is held, and
\* nothing held changes or comes back.
held ==
  [id \in DOMAIN reg.footprints |->
     [scope |-> reg.footprints[id], mode |-> reg.grants[id].mode]]

Authority ==
  INSTANCE ExclusiveAuthority
    WITH held <- held, ever <- DOMAIN reg.grants, open <- (phase = "serving"),
         restored <- restored

ImplementsAuthority == Authority!Spec

\* The differential test's claim: the index and the recomputed footprints see
\* the same conflicts, so live exclusive grants never overlap in the current
\* snapshot.  It does not hold: a recomposition can widen the scope of a grant
\* whose index entry stays as it was issued (docs/proofs.md:78 assumes not).
RecomputedFootprintsCompatible ==
  \A id \in live_grants(reg) \ restored :
    scope_resolves(snap, reg.grants[id].scope) =>
      conflicts_bruteforce(reg, snap, expand_scope(snap, reg.grants[id].scope),
                           reg.grants[id].mode) \subseteq {id} \union restored

\* The limit max_remembered_requests bounds the outcomes kept in memory.  It
\* does not hold: acquire remembers a lifecycle refusal before it looks at the
\* bound.
RememberedBounded == Cardinality(DOMAIN reg.outcomes) <= MaxRemembered

=============================================================================
