------------------------ MODULE GrantRegistryProofs ------------------------
(***************************************************************************)
(* The invariants of GrantRegistry, for every set of resources, snapshots, *)
(* requests and durable grants, and for every bound.                       *)
(***************************************************************************)
EXTENDS GrantRegistry, RegistryLemmas

\* The inductive invariant.  Exclusivity is not inductive by itself: a lease is
\* judged by its scope in the current snapshot, and only Armed and Indexed tie
\* that scope to what the index held when a later grant was checked.
IInv ==
  /\ Consistent(reg, restored) /\ Pending(reg, snap)
  /\ snap \in Snapshots /\ now \in 0..MaxNow
  /\ phase \in {"starting", "serving"}
  /\ restored \subseteq DOMAIN reg.grants
  /\ phase = "starting" => DOMAIN reg.grants = restored
  /\ phase = "serving" => in_state(reg, "recovering") = {}

\* The empty registry of a new process satisfies the invariant.
LEMMA InitInv == Init => IInv
<1> SUFFICES ASSUME Init PROVE IInv
  OBVIOUS
<1>1. /\ Shape(reg) /\ reg.grants = [id \in {} |-> 0]
      /\ reg.footprints = [id \in {} |-> 0]
      /\ reg.occupancy = [r \in Ref |-> {}]
      /\ reg.committed = [r \in Ref |-> 0] /\ reg.committed_total = 0
      /\ reg.next_fence = 0 /\ reg.live = 0 /\ reg.recovering = 0
      /\ reg.incarnation = Incarnation
  BY DEF Init, set_incarnation, empty_registry, Shape, Members
<1>2. Typed(reg)
  BY <1>1, RegistryAssumption, DrivingAssumption DEF Typed
<1>3. Indexed(reg)
  <2>1. \A r \in Ref : holders(reg, r) = {}
    BY <1>1 DEF holders
  <2> QED
    BY <1>1, <2>1 DEF Indexed, live_grants
<1>4. Armed(reg) /\ Compatible(reg, restored) /\ Pending(reg, snap)
  BY <1>1 DEF Armed, Compatible, Pending, in_state
<1> QED
  BY <1>1, <1>2, <1>3, <1>4, DrivingAssumption DEF Init, IInv, Consistent

\* The three kinds of steps, as they show in the table of holdings.
Dropped == Shrinks(reg, reg') /\ restored' = restored /\ phase' \in {phase, "serving"}

Issued(id) ==
  /\ phase = "serving" /\ phase' = phase /\ restored' = restored
  /\ Grows(reg, reg', id) /\ id \in DOMAIN reg'.footprints

Restored(id) ==
  /\ phase = "starting" /\ phase' = phase /\ restored' = restored \union {id}
  /\ Grows(reg, reg', id)

\* A call of a serving daemon that issues nothing.
LEMMA ServingDrops ==
  ASSUME IInv, NEW T, Serving(T), Consistent(T, restored), Shrinks(reg, T),
         in_state(T, "recovering") \subseteq in_state(reg, "recovering")
  PROVE  IInv' /\ Dropped
<1>1. /\ phase = "serving" /\ reg' = T
      /\ snap' = snap /\ now' = now /\ phase' = phase /\ restored' = restored
  BY DEF Serving
<1>2. in_state(reg', "recovering") = {}
  BY <1>1 DEF IInv
<1>3. Consistent(reg', restored') /\ Shrinks(reg, reg')
  BY <1>1
<1>4. Pending(reg', snap')
  BY <1>2 DEF Pending
<1>5. restored' \subseteq DOMAIN reg'.grants
  BY <1>1, <1>3 DEF IInv, Shrinks
<1> QED
  BY <1>1, <1>2, <1>3, <1>4, <1>5 DEF IInv, Dropped

\* What the invariant says of the registry, the snapshot and the clock.
LEMMA InvFacts ==
  ASSUME IInv
  PROVE  /\ Consistent(reg, restored) /\ Pending(reg, snap) /\ Typed(reg)
         /\ is_snapshot(snap) /\ now \in Nat /\ Incarnation \in Nat
<1>1. Consistent(reg, restored) /\ Pending(reg, snap) /\ snap \in Snapshots /\ now \in 0..MaxNow
  BY DEF IInv
<1>2. is_snapshot(snap) /\ MaxNow \in Nat /\ Incarnation \in Nat
  BY <1>1, DrivingAssumption
<1>3. now \in Nat
  BY <1>1, <1>2
<1>4. Typed(reg)
  BY <1>1 DEF Consistent
<1> QED
  BY <1>1, <1>2, <1>3, <1>4

\* Every step keeps the invariant, and either drops holdings, issues one grant
\* or restores one.
LEMMA NextInv ==
  ASSUME IInv, Next
  PROVE  IInv' /\ (Dropped \/ (\E id : Issued(id)) \/ (\E id : Restored(id)))
<1>0. /\ Consistent(reg, restored) /\ Pending(reg, snap) /\ Typed(reg)
      /\ is_snapshot(snap) /\ snap \in Snapshots /\ now \in Nat /\ Incarnation \in Nat
  BY InvFacts, Zenon DEF IInv
<1>1. ASSUME NEW g \in DurableGrants, InstallRecovered(g)
      PROVE  IInv' /\ (Dropped \/ (\E id : Restored(id)))
  <2> DEFINE T == install_recovered(reg, snap, g)
  <2>1. /\ phase = "starting" /\ reg' = T /\ snap' = snap /\ now' = now /\ phase' = phase
        /\ restored' = restored \union ({g.id} \intersect DOMAIN reg'.grants)
        /\ DOMAIN reg.grants = restored
    BY <1>1 DEF InstallRecovered, IInv
  <2>2. g \in Grant /\ g.id <= g.fence
    BY DrivingAssumption
  <2>3. /\ Consistent(T, DOMAIN T.grants) /\ Pending(T, snap)
        /\ T = reg \/ Grows(reg, T, g.id)
    BY <1>0, <2>1, <2>2, InstallConsistent
  <2> HIDE DEF T
  <2>4. CASE T = reg
    <3>1. restored' = restored
      BY <2>1, <2>4
    <3> QED
      BY <2>1, <2>4, <3>1 DEF IInv, Dropped, Shrinks
  <2>5. CASE Grows(reg, T, g.id)
    <3>1. DOMAIN T.grants = DOMAIN reg.grants \union {g.id}
      BY <2>5 DEF Grows
    <3>2. restored' = restored \union {g.id} /\ restored' = DOMAIN T.grants
      BY <2>1, <3>1
    <3> QED
      BY <2>1, <2>3, <2>5, <3>2 DEF IInv, Restored
  <2> QED
    BY <2>3, <2>4, <2>5
<1>2. ASSUME NEW g \in DurableGrants, InstallOutcome(g)
      PROVE  IInv' /\ Dropped
  <2> DEFINE T == install_outcome(reg, g.request, [code |-> "ok", grant |-> g.id])
  <2>1. /\ phase = "starting" /\ reg' = T /\ snap' = snap /\ now' = now
        /\ phase' = phase /\ restored' = restored
    BY <1>2 DEF InstallOutcome
  <2>2. Consistent(T, restored) /\ Shrinks(reg, T) /\ T.grants = reg.grants
        /\ T.footprints = reg.footprints
    <3>1. T = reg \/ T = remember(reg, g.request, [code |-> "ok", grant |-> g.id])
      BY DEF install_outcome
    <3>2. CASE T = reg
      BY <1>0, <3>2 DEF Shrinks
    <3>3. CASE T = remember(reg, g.request, [code |-> "ok", grant |-> g.id])
      <4>1. Consistent(T, restored) /\ Shrinks(reg, T) /\ T.grants = reg.grants
        BY <1>0, <3>3, RememberConsistent
      <4>2. T.footprints = reg.footprints
        BY <1>0, <3>3 DEF remember, Typed, Shape, Members
      <4> QED
        BY <4>1, <4>2
    <3> QED
      BY <3>1, <3>2, <3>3
  <2> HIDE DEF T
  <2>3. Pending(T, snap)
    BY <1>0, <2>2 DEF Pending, in_state
  <2> QED
    BY <2>1, <2>2, <2>3 DEF IInv, Dropped
<1>3. ASSUME NEW id, NEW state \in TerminalStates, ApplyState(id, state)
      PROVE  IInv' /\ Dropped
  <2> DEFINE T == apply_state(reg, id, state)
  <2>1. /\ phase = "starting" /\ reg' = T /\ snap' = snap /\ now' = now
        /\ phase' = phase /\ restored' = restored
    BY <1>3 DEF ApplyState
  <2>2. Consistent(T, restored) /\ Pending(T, snap) /\ Shrinks(reg, T)
    BY <1>0, ApplyStateConsistent
  <2> HIDE DEF T
  <2> QED
    BY <2>1, <2>2 DEF IInv, Dropped, Shrinks
<1>4. ASSUME Revalidate
      PROVE  IInv' /\ Dropped
  <2> DEFINE T == revalidate(reg, snap, Incarnation, now)
  <2>1. /\ reg' = T /\ snap' = snap /\ now' = now
        /\ phase' = "serving" /\ restored' = restored
    BY <1>4 DEF Revalidate
  <2>2. /\ Consistent(T, restored) /\ in_state(T, "recovering") = {}
        /\ Shrinks(reg, T)
    BY <1>0, RevalidateConsistent
  <2> HIDE DEF T
  <2>3. Pending(T, snap)
    BY <2>2 DEF Pending
  <2> QED
    BY <2>1, <2>2, <2>3 DEF IInv, Dropped, Shrinks
<1>5. ASSUME NEW request \in RequestId, NEW order \in Orders, NEW allow \in BOOLEAN,
             Acquire(request, order, allow)
      PROVE  IInv' /\ (Dropped \/ (\E id : Issued(id)))
  <2> DEFINE q == [request |-> request, scope |-> order.scope, mode |-> order.mode,
                   capacity |-> order.capacity, ttl |-> order.ttl,
                   wellformed |-> order.wellformed]
             T == acquire(reg, snap, q, Incarnation, now, allow).reg
  <2>1. q \in Req
    BY DrivingAssumption DEF Order, Req
  <2>2. Serving(T)
    BY <1>5 DEF Acquire
  <2> HIDE DEF q
  <2>3. /\ Consistent(T, restored)
        /\ in_state(T, "recovering") = in_state(reg, "recovering")
        /\ \/ Shrinks(reg, T)
           \/ \E id : Grows(reg, T, id) /\ id \in DOMAIN T.footprints
    BY <1>0, <2>1, AcquireConsistent
  <2> HIDE DEF T
  <2>4. CASE Shrinks(reg, T)
    BY <2>2, <2>3, <2>4, ServingDrops
  <2>5. CASE \E id : Grows(reg, T, id) /\ id \in DOMAIN T.footprints
    <3>1. PICK id : Grows(reg, T, id) /\ id \in DOMAIN T.footprints
      BY <2>5
    <3>2. /\ phase = "serving" /\ reg' = T /\ snap' = snap /\ now' = now
          /\ phase' = phase /\ restored' = restored
      BY <2>2 DEF Serving
    <3>3. Issued(id)
      BY <3>1, <3>2 DEF Issued
    <3>4. in_state(reg', "recovering") = {}
      BY <2>3, <3>2 DEF IInv
    <3>5. Pending(reg', snap')
      BY <3>4 DEF Pending
    <3>6. restored' \subseteq DOMAIN reg'.grants
      BY <3>1, <3>2 DEF IInv, Grows
    <3> QED
      BY <2>3, <3>2, <3>3, <3>4, <3>5, <3>6 DEF IInv
  <2> QED
    BY <2>3, <2>4, <2>5
<1>6. ASSUME NEW id \in DOMAIN reg.grants, NEW ttl \in MinTtl..MaxTtl, Renew(id, ttl)
      PROVE  IInv' /\ Dropped
  <2> DEFINE tok == token(reg.grants[id])
             T   == renew(reg, tok, ttl, now)
  <2>1. tok.grant \in DOMAIN reg.grants
    BY <1>6 DEF Renew, renew_ok, check_lease, token_matches
  <2>2. ttl \in Nat /\ now + ttl <= U64Max
    BY <1>6, RegistryAssumption DEF Renew, renew_ok
  <2>3. Serving(T)
    BY <1>6 DEF Renew
  <2> HIDE DEF tok
  <2>4. /\ Consistent(T, restored) /\ Shrinks(reg, T)
        /\ in_state(T, "recovering") = in_state(reg, "recovering")
    BY <1>0, <2>1, <2>2, RenewConsistent
  <2> HIDE DEF T
  <2> QED
    BY <2>3, <2>4, ServingDrops
<1>7. ASSUME NEW ids \in SUBSET DOMAIN reg.grants, NEW state \in TerminalStates,
             Serving(retire(reg, ids, state))
      PROVE  IInv' /\ Dropped
  <2> DEFINE T == retire(reg, ids, state)
  <2>1. /\ Consistent(T, restored) /\ Shrinks(reg, T)
        /\ in_state(T, "recovering") = in_state(reg, "recovering") \ ids
    BY <1>0, RetireConsistent, RetireShrinks
  <2>2. Serving(T)
    BY <1>7
  <2> HIDE DEF T
  <2> QED
    BY <2>1, <2>2, ServingDrops
<1>8. ASSUME NEW id \in DOMAIN reg.grants, Release(id)
      PROVE  IInv' /\ Dropped
  <2> DEFINE tok == token(reg.grants[id])
  <2>1. tok.grant = id
    BY <1>0 DEF token, Typed
  <2>2. CASE is_live(reg, id)
    <3>1. Serving(retire(reg, {id}, "released"))
      BY <1>8, <2>1, <2>2 DEF Release, release
    <3>2. {id} \in SUBSET DOMAIN reg.grants /\ "released" \in TerminalStates
      BY DEF TerminalStates
    <3> QED
      BY <1>7, <3>1, <3>2
  <2>3. CASE ~is_live(reg, id)
    <3>1. Serving(reg)
      BY <1>8, <2>1, <2>3 DEF Release, release
    <3>2. Shrinks(reg, reg)
      BY DEF Shrinks
    <3> QED
      BY <1>0, <3>1, <3>2, ServingDrops
  <2> QED
    BY <2>2, <2>3
<1>9. CASE FenceAll
  <2>1. live_grants(reg) \in SUBSET DOMAIN reg.grants /\ "fenced" \in TerminalStates
    BY DEF live_grants, TerminalStates
  <2> QED
    BY <1>7, <1>9, <2>1 DEF FenceAll, fence_all
<1>10. ASSUME NEW device \in Devices, FenceDevice(device)
       PROVE  IInv' /\ Dropped
  <2> DEFINE ids == {id \in live_grants(reg) : touches_device(snap, reg.grants[id], device)}
  <2>1. ids \in SUBSET DOMAIN reg.grants /\ "fenced" \in TerminalStates
    BY DEF live_grants, TerminalStates
  <2>2. Serving(retire(reg, ids, "fenced"))
    BY <1>10 DEF FenceDevice, fence_device
  <2> HIDE DEF ids
  <2> QED
    BY <1>7, <2>1, <2>2
<1>11. CASE ExpireDue
  <2>1. due(reg, now) \in SUBSET DOMAIN reg.grants /\ "expired" \in TerminalStates
    BY DEF due, live_grants, TerminalStates
  <2> QED
    BY <1>7, <1>11, <2>1 DEF ExpireDue, expire_due
<1>12. CASE SuspendAll
  <2> DEFINE ids == in_state(reg, "active")
             T   == set_state(reg, ids, "suspended")
  <2>1. Serving(T)
    BY <1>12 DEF SuspendAll, suspend_all
  <2>2. /\ ids \in SUBSET DOMAIN reg.grants /\ "suspended" \in GrantState
        /\ \A id \in ids : is_live_state("suspended") = is_live_state(reg.grants[id].state)
        /\ \A id \in ids : reg.grants[id].state \in {"active", "suspended"}
    BY DEF in_state, GrantState, is_live_state
  <2> HIDE DEF ids
  <2>3. /\ Consistent(T, restored) /\ Shrinks(reg, T)
        /\ in_state(T, "recovering") = in_state(reg, "recovering") \ ids
    BY <1>0, <2>2, SetStateConsistent, Zenon
  <2> HIDE DEF T
  <2> QED
    BY <2>1, <2>3, ServingDrops
<1>13. CASE ResumeAll
  <2> DEFINE T == resume_all(reg, snap, now)
  <2>1. Serving(T)
    BY <1>13 DEF ResumeAll
  <2>2. /\ Consistent(T, restored) /\ Shrinks(reg, T)
        /\ in_state(T, "recovering") = in_state(reg, "recovering")
    BY <1>0, ResumeConsistent
  <2> HIDE DEF T
  <2> QED
    BY <2>1, <2>2, ServingDrops
<1>14. ASSUME NEW s \in Snapshots, Recompose(s)
       PROVE  IInv' /\ Dropped
  <2>1. /\ phase = "serving" /\ reg' = reg /\ snap' = s /\ now' = now
        /\ phase' = phase /\ restored' = restored
    BY <1>14 DEF Recompose
  <2>2. Pending(reg', snap')
    BY <2>1 DEF Pending, IInv
  <2> QED
    BY <2>1, <2>2 DEF IInv, Dropped, Shrinks
<1>15. CASE Tick
  <2>1. /\ phase = "serving" /\ reg' = reg /\ snap' = snap /\ now' \in 0..MaxNow
        /\ phase' = phase /\ restored' = restored
    BY <1>15, DrivingAssumption, RegistryAssumption DEF Tick, IInv
  <2> QED
    BY <2>1 DEF IInv, Dropped, Shrinks
<1> QED
  BY <1>1, <1>2, <1>3, <1>4, <1>5, <1>6, <1>8, <1>9, <1>10, <1>11, <1>12, <1>13,
     <1>14, <1>15 DEF Next

-----------------------------------------------------------------------------
(* The theorems.                                                           *)

\* The invariant holds in every reachable state.
THEOREM Invariance == Spec => []IInv
<1>1. IInv /\ UNCHANGED vars => IInv'
  BY DEF IInv, vars
<1>2. IInv /\ [Next]_vars => IInv'
  BY <1>1, NextInv
<1> QED
  BY <1>2, InitInv, PTL DEF Spec

\* Type correctness of the registry, the counters' non-negativity and the order
\* between identities and the fence counter included.
THEOREM TypeCorrect == Spec => []TypeOK
<1>1. IInv => TypeOK
  <2> SUFFICES ASSUME IInv PROVE TypeOK
    OBVIOUS
  <2>1. Typed(reg) /\ Indexed(reg)
    BY DEF IInv, Consistent
  <2>2. ASSUME NEW r \in Ref
        PROVE  reg.occupancy[r] \in SUBSET [id : DOMAIN reg.grants, mode : GrantMode]
    <3>1. \A id \in holders(reg, r) : id \in DOMAIN reg.grants /\ reg.grants[id] \in Grant
      BY <2>1 DEF Indexed, Typed, holders, live_grants
    <3>2. \A id \in holders(reg, r) : reg.grants[id].mode \in GrantMode
      BY <3>1 DEF Grant
    <3> QED
      BY <2>1, <3>1, <3>2 DEF Indexed
  <2>3. reg.occupancy \in [Ref -> SUBSET [id : DOMAIN reg.grants, mode : GrantMode]]
    <3>1. reg.occupancy = [r \in Ref |-> reg.occupancy[r]]
      BY <2>1 DEF Indexed
    <3> QED
      BY <2>2, <3>1
  <2> QED
    BY <2>1, <2>3 DEF IInv, TypeOK, Typed, Indexed
<1> QED
  BY <1>1, Invariance, PTL

\* The exclusivity index (attach, detach) always is the inverse of the recorded
\* footprints, and only live grants have one.
THEOREM IndexCorrect == Spec => []IndexExact
<1>1. IInv => IndexExact
  BY DEF IInv, Consistent, Indexed, IndexExact, stale_footprints, holders
<1> QED
  BY <1>1, Invariance, PTL

\* acquire never issues a grant that clashes with a live one: what exclusive
\* grants hold is disjoint, whatever the order of calls.
THEOREM ExclusiveHoldings == Spec => []LiveGrantsCompatible
<1>1. IInv => LiveGrantsCompatible
  BY DEF IInv, Consistent, Compatible, LiveGrantsCompatible, incompatible
<1> QED
  BY <1>1, Invariance, PTL

\* check_lease never accepts two clashing leases under any snapshot the composer
\* may have published since they were issued.
THEOREM ExclusiveUse == Spec => []ValidLeasesCompatible
<1>1. IInv => ValidLeasesCompatible
  <2> SUFFICES ASSUME IInv PROVE ValidLeasesCompatible
    OBVIOUS
  <2> DEFINE V == {id \in DOMAIN reg.grants :
                     check_lease(reg, snap, token(reg.grants[id]), now)}
  <2>1. ASSUME NEW id \in V
        PROVE  /\ id \in DOMAIN reg.footprints
               /\ reg.footprints[id] = expand_scope(snap, reg.grants[id].scope)
    <3>1. token(reg.grants[id]).grant = id
      BY DEF token, IInv, Consistent, Typed
    <3>2. reg.grants[id].state = "active" /\ basis_holds(snap, reg.grants[id])
      BY <3>1, Zenon DEF check_lease
    <3>3. expand_scope(snap, reg.grants[id].scope) \in SUBSET Ref
      BY <3>2, DrivingAssumption
         DEF IInv, basis_holds, scope_resolves, expand_scope, is_snapshot
    <3>4. reg.grants[id].authority_basis.scope = expand_scope(snap, reg.grants[id].scope)
      BY <3>2, <3>3, DrivingAssumption, BasisTyped DEF IInv, basis_holds
    <3> QED
      BY <3>2, <3>4 DEF IInv, Consistent, Armed
  <2> QED
    BY <2>1 DEF IInv, Consistent, Compatible, ValidLeasesCompatible, incompatible
<1> QED
  BY <1>1, Invariance, PTL

\* No call and no recovery step revives a released, expired or fenced grant.
THEOREM NoRevival == Spec => RetiredStaysRetired
<1>1. ASSUME IInv, [Next]_vars
      PROVE  [\A id \in DOMAIN reg.grants : is_live(reg', id) => is_live(reg, id)]_vars
  <2>1. CASE UNCHANGED vars
    BY <2>1
  <2>2. CASE Next
    <3>1. Dropped \/ (\E id : Issued(id)) \/ (\E id : Restored(id))
      BY <2>2, <1>1, NextInv
    <3>2. Dropped => \A id \in DOMAIN reg.grants : is_live(reg', id) => is_live(reg, id)
      BY DEF Dropped, Shrinks
    <3>3. ASSUME NEW i, Grows(reg, reg', i)
          PROVE  \A id \in DOMAIN reg.grants : is_live(reg', id) => is_live(reg, id)
      BY <3>3 DEF Grows, is_live
    <3> QED
      BY <3>1, <3>2, <3>3 DEF Issued, Restored
  <2> QED
    BY <1>1, <2>1, <2>2
<1> QED
  BY <1>1, Invariance, PTL DEF Spec, RetiredStaysRetired

\* The registry implements the exclusive authority table: each step drops
\* holdings, restores one grant before serving or issues one compatible grant.
THEOREM Refinement == Spec => ImplementsAuthority
<1>1. Init => Authority!Init
  <2> SUFFICES ASSUME Init PROVE Authority!Init
    OBVIOUS
  <2>1. DOMAIN reg.footprints = {} /\ DOMAIN reg.grants = {}
    BY DEF Init, set_incarnation, empty_registry
  <2>2. held = [id \in {} |-> 0]
    BY <2>1 DEF held
  <2> QED
    BY <2>1, <2>2 DEF Init, Authority!Init
<1>2. ASSUME IInv, IInv', [Next]_vars
      PROVE  [Authority!Next]_Authority!avars
  <2>0. /\ DOMAIN reg.footprints \subseteq DOMAIN reg.grants
        /\ DOMAIN reg'.footprints \subseteq DOMAIN reg'.grants
    BY <1>2 DEF IInv, Consistent, Indexed, live_grants
  <2>1. CASE UNCHANGED vars
    BY <2>1 DEF vars, held, Authority!avars
  <2>2. CASE Dropped
    <3>1. /\ DOMAIN held' \subseteq DOMAIN held
          /\ \A id \in DOMAIN held' : held'[id] = held[id]
      BY <2>0, <2>2 DEF Dropped, Shrinks, held
    <3>2. /\ DOMAIN reg'.grants = DOMAIN reg.grants /\ restored' = restored
          /\ (phase' = "serving") \in {phase = "serving", TRUE}
      BY <2>2, Zenon DEF Dropped, Shrinks
    <3>3. Authority!Drop
      BY <3>1, <3>2, Zenon DEF Authority!Drop
    <3> QED
      BY <3>3 DEF Authority!Next
  <2>3. ASSUME NEW id, Grows(reg, reg', id)
        PROVE  /\ DOMAIN held \subseteq DOMAIN held'
               /\ DOMAIN held' \subseteq DOMAIN held \union {id}
               /\ \A i \in DOMAIN held : held'[i] = held[i]
               /\ id \in DOMAIN reg'.grants \ DOMAIN reg.grants
               /\ DOMAIN reg'.grants = DOMAIN reg.grants \union {id}
    BY <2>0, <2>3 DEF Grows, held
  <2>4. ASSUME NEW id, Issued(id)
        PROVE  Authority!Next
    <3>1. /\ Grows(reg, reg', id) /\ id \in DOMAIN reg'.footprints
          /\ phase = "serving" /\ phase' = phase /\ restored' = restored
      BY <2>4 DEF Issued
    <3>2. DOMAIN held' = DOMAIN held \union {id}
      BY <2>3, <3>1 DEF held
    <3>3. ASSUME NEW i \in DOMAIN held
          PROVE  ~Authority!clash(held'[id], held[i])
      <4>1. /\ i \in DOMAIN reg'.footprints /\ i # id /\ id \notin restored'
            /\ held'[i] = held[i]
        BY <1>2, <2>0, <2>3, <3>1, <3>2, <3>3 DEF held, Grows, IInv
      <4>2. ~ /\ occupant_conflicts(reg'.grants[id].mode, reg'.grants[i].mode)
              /\ reg'.footprints[id] \intersect reg'.footprints[i] # {}
        BY <1>2, <3>1, <4>1 DEF IInv, Consistent, Compatible
      <4>3. /\ held'[id].mode = reg'.grants[id].mode /\ held'[id].scope = reg'.footprints[id]
            /\ held'[i].mode = reg'.grants[i].mode /\ held'[i].scope = reg'.footprints[i]
        BY <3>1, <4>1 DEF held
      <4> QED
        BY <4>1, <4>2, <4>3 DEF Authority!clash, occupant_conflicts,
                                Authority!occupant_conflicts
    <3>4. Authority!Issue(id)
      BY <2>3, <3>1, <3>2, <3>3 DEF Authority!Issue, Authority!Extends
    <3> QED
      BY <2>3, <3>1, <3>4 DEF Authority!Next
  <2>5. ASSUME NEW id, Restored(id)
        PROVE  Authority!Next
    <3>1. /\ Grows(reg, reg', id)
          /\ phase = "starting" /\ phase' = phase /\ restored' = restored \union {id}
      BY <2>5 DEF Restored
    <3>2. DOMAIN held' = DOMAIN held \/ DOMAIN held' = DOMAIN held \union {id}
      BY <2>3, <3>1
    <3>3. Authority!Restore(id)
      BY <2>3, <3>1, <3>2 DEF Authority!Restore, Authority!Extends
    <3> QED
      BY <2>3, <3>1, <3>3 DEF Authority!Next
  <2> QED
    BY <1>2, <2>1, <2>2, <2>4, <2>5, NextInv
<1> QED
  BY <1>1, <1>2, Invariance, PTL DEF Spec, ImplementsAuthority, Authority!Spec

-----------------------------------------------------------------------------
(* The running counters.                                                   *)

\* Every step keeps the counters exact.
LEMMA NextCounted ==
  ASSUME IInv, Counted(reg), [Next]_vars
  PROVE  Counted(reg')
<1>0. /\ Consistent(reg, restored) /\ Pending(reg, snap) /\ Typed(reg)
      /\ is_snapshot(snap) /\ now \in Nat /\ Incarnation \in Nat
  BY InvFacts, Zenon
<1>1. ASSUME NEW ids \in SUBSET live_grants(reg), NEW state \in TerminalStates,
             Serving(retire(reg, ids, state))
      PROVE  Counted(reg')
  BY <1>0, <1>1, RetireCounted DEF Serving
<1>2. ASSUME NEW g \in DurableGrants, InstallRecovered(g) PROVE Counted(reg')
  <2>1. g \in Grant
    BY DrivingAssumption
  <2> QED
    BY <1>0, <1>2, <2>1, InstallCounted DEF InstallRecovered
<1>3. ASSUME NEW g \in DurableGrants, InstallOutcome(g) PROVE Counted(reg')
  <2>1. /\ reg'.grants = reg.grants /\ reg'.live = reg.live
        /\ reg'.recovering = reg.recovering
    BY <1>0, <1>3 DEF InstallOutcome, install_outcome, remember, Typed, Shape, Members
  <2>2. /\ live_grants(reg') = live_grants(reg)
        /\ in_state(reg', "recovering") = in_state(reg, "recovering")
    BY <2>1 DEF live_grants, is_live, in_state
  <2> QED
    BY <2>1, <2>2, SameCounted
<1>4. ASSUME NEW id, NEW state \in TerminalStates, ApplyState(id, state) PROVE Counted(reg')
  BY <1>0, <1>4, ApplyStateCounted DEF ApplyState
<1>5. CASE Revalidate
  BY <1>0, <1>5, RevalidateCounted DEF Revalidate
<1>6. ASSUME NEW request \in RequestId, NEW order \in Orders, NEW allow \in BOOLEAN,
             Acquire(request, order, allow)
      PROVE  Counted(reg')
  <2> DEFINE q == [request |-> request, scope |-> order.scope, mode |-> order.mode,
                   capacity |-> order.capacity, ttl |-> order.ttl,
                   wellformed |-> order.wellformed]
  <2>1. q \in Req
    BY DrivingAssumption DEF Order, Req
  <2>2. reg' = acquire(reg, snap, q, Incarnation, now, allow).reg
    BY <1>6 DEF Acquire, Serving
  <2> HIDE DEF q
  <2> QED
    BY <1>0, <2>1, <2>2, AcquireCounted
<1>7. ASSUME NEW id \in DOMAIN reg.grants, NEW ttl \in MinTtl..MaxTtl, Renew(id, ttl)
      PROVE  Counted(reg')
  <2> DEFINE tok == token(reg.grants[id])
  <2>1. tok.grant \in DOMAIN reg.grants /\ reg' = renew(reg, tok, ttl, now)
    BY <1>7, Zenon DEF Renew, renew_ok, check_lease, token_matches, Serving
  <2> HIDE DEF tok
  <2> QED
    BY <1>0, <2>1, RenewCounted
<1>8. ASSUME NEW id \in DOMAIN reg.grants, Release(id) PROVE Counted(reg')
  <2>1. token(reg.grants[id]).grant = id
    BY <1>0 DEF token, Typed
  <2>2. CASE is_live(reg, id)
    <3>1. /\ Serving(retire(reg, {id}, "released"))
          /\ {id} \in SUBSET live_grants(reg) /\ "released" \in TerminalStates
      BY <1>8, <2>1, <2>2 DEF Release, release, live_grants, TerminalStates
    <3> QED
      BY <1>1, <3>1
  <2>3. CASE ~is_live(reg, id)
    BY <1>8, <2>1, <2>3 DEF Release, release, Serving
  <2> QED
    BY <2>2, <2>3
<1>9. CASE FenceAll
  <2>1. live_grants(reg) \in SUBSET live_grants(reg) /\ "fenced" \in TerminalStates
    BY DEF TerminalStates
  <2> QED
    BY <1>1, <1>9, <2>1 DEF FenceAll, fence_all
<1>10. ASSUME NEW device \in Devices, FenceDevice(device) PROVE Counted(reg')
  <2> DEFINE ids == {id \in live_grants(reg) : touches_device(snap, reg.grants[id], device)}
  <2>1. /\ ids \in SUBSET live_grants(reg) /\ "fenced" \in TerminalStates
        /\ Serving(retire(reg, ids, "fenced"))
    BY <1>10 DEF TerminalStates, FenceDevice, fence_device
  <2> HIDE DEF ids
  <2> QED
    BY <1>1, <2>1
<1>11. CASE ExpireDue
  <2>1. /\ due(reg, now) \in SUBSET live_grants(reg) /\ "expired" \in TerminalStates
        /\ Serving(retire(reg, due(reg, now), "expired"))
    BY <1>11 DEF due, TerminalStates, ExpireDue, expire_due
  <2> QED
    BY <1>1, <2>1
<1>12. CASE SuspendAll
  <2> DEFINE ids == in_state(reg, "active")
  <2>1. reg' = set_state(reg, ids, "suspended")
    BY <1>12 DEF SuspendAll, suspend_all, Serving
  <2>2. /\ ids \in SUBSET DOMAIN reg.grants
        /\ "suspended" \in GrantState /\ "suspended" # "recovering"
        /\ \A id \in ids : /\ is_live_state("suspended") = is_live_state(reg.grants[id].state)
                           /\ reg.grants[id].state # "recovering"
    BY DEF in_state, GrantState, is_live_state
  <2> HIDE DEF ids
  <2> QED
    BY <1>0, <2>1, <2>2, SetStateCounted
<1>13. CASE ResumeAll
  BY <1>0, <1>13, ResumeCounted DEF ResumeAll, Serving
<1>14. CASE UNCHANGED reg
  BY <1>14
<1> QED
  BY <1>2, <1>3, <1>4, <1>5, <1>6, <1>7, <1>8, <1>9, <1>10, <1>11, <1>12, <1>13, <1>14
  DEF Next, Recompose, Tick, vars

\* live_ and recovering_, which nine places adjust, count exactly the live and
\* the recovering grants, and live_ never exceeds max_live_grants: no grant is
\* counted out twice, whatever retires it first.
THEOREM CountersCorrect == Spec => []CountersExact
<1>1. Init => Counted(reg)
  <2> SUFFICES ASSUME Init PROVE Counted(reg)
    OBVIOUS
  <2>1. reg.grants = [id \in {} |-> 0] /\ reg.live = 0 /\ reg.recovering = 0
    BY DEF Init, set_incarnation, empty_registry
  <2>2. live_grants(reg) = {} /\ in_state(reg, "recovering") = {}
    BY <2>1 DEF live_grants, in_state
  <2>3. 0 <= MaxLive
    BY RegistryAssumption
  <2> QED
    BY <2>1, <2>2, <2>3, FS_EmptySet DEF Counted
<1>2. IInv /\ Counted(reg) /\ [Next]_vars => Counted(reg)'
  BY NextCounted
<1>3. Counted(reg) => CountersExact
  BY DEF Counted, CountersExact
<1> QED
  BY <1>1, <1>2, <1>3, Invariance, PTL DEF Spec

-----------------------------------------------------------------------------
(* The committed units of the pools.                                       *)

\* The grants of S that draw from pool r.
drawing(R, S, r) == {id \in S : r \in R.grants[id].capacity_pool}

\* What a set of grants takes from a pool is what its members that name the
\* pool take.
LEMMA PoolUnits ==
  ASSUME NEW R, NEW S, NEW r
  PROVE  units_in_pool(R, S, r) = units_of(R, drawing(R, S, r))
BY DEF units_in_pool, units_of, drawing

\* committed_ and committed_total_ are what the live grants draw, and each of
\* these draws from the rack.
Pooled(R) ==
  /\ \A id \in live_grants(R) : Rack \in R.grants[id].capacity_pool
  /\ \A r \in Ref : R.committed[r] = units_of(R, drawing(R, live_grants(R), r))
  /\ R.committed_total = units_of(R, live_grants(R))

\* The grants are finitely many, and each draws a natural number of units.
LEMMA GrantsMetered ==
  ASSUME NEW R, Typed(R)
  PROVE  Metered(R, DOMAIN R.grants) /\ Metered(R, live_grants(R))
<1>1. IsFiniteSet(DOMAIN R.grants)
  <2>1. \A id \in DOMAIN R.grants : id \in Nat /\ id <= R.next_fence
    BY DEF Typed, Grant
  <2>2. DOMAIN R.grants \subseteq 0..R.next_fence /\ R.next_fence \in Int /\ 0 \in Int
    BY <2>1 DEF Typed
  <2>3. IsFiniteSet(0..R.next_fence)
    BY <2>2, FS_Interval
  <2> QED
    BY <2>2, <2>3, FS_Subset, Zenon
<1>2. \A id \in DOMAIN R.grants : R.grants[id].capacity \in Nat
  BY DEF Typed, Grant
<1>3. live_grants(R) \subseteq DOMAIN R.grants
  BY DEF live_grants
<1>4. IsFiniteSet(live_grants(R))
  BY <1>1, <1>3, FS_Subset, Zenon
<1> QED
  BY <1>1, <1>2, <1>3, <1>4 DEF Metered

\* No pool holds more than the total, and the rack's pool is the total.
LEMMA PoolWithinTotal ==
  ASSUME NEW R, Typed(R), Pooled(R)
  PROVE  /\ \A r \in Ref : R.committed[r] \in Nat /\ R.committed[r] <= R.committed_total
         /\ R.committed[Rack] = R.committed_total /\ R.committed_total \in Nat
<1> DEFINE L == live_grants(R)
<1>1. Metered(R, L)
  BY GrantsMetered
<1>2. drawing(R, L, Rack) = L
  BY DEF Pooled, drawing
<1>3. \A r \in Ref : drawing(R, L, r) \in SUBSET L
  BY DEF drawing
<1>4. /\ \A r \in Ref : R.committed[r] = units_of(R, drawing(R, L, r))
      /\ R.committed_total = units_of(R, L)
  BY DEF Pooled
<1> HIDE DEF L
<1>5. \A r \in Ref : units_of(R, drawing(R, L, r)) <= units_of(R, L)
  BY <1>1, <1>3, UnitsPart
<1>6. \A r \in Ref : R.committed[r] \in Nat
  BY DEF Typed
<1>7. R.committed_total \in Nat
  BY DEF Typed
<1> QED
  BY <1>2, <1>4, <1>5, <1>6, <1>7, RegistryAssumption, Zenon

\* A registry that differs in nothing the pools depend on.
LEMMA SamePooled ==
  ASSUME NEW R, Typed(R), Pooled(R), NEW T, T.committed = R.committed,
         T.committed_total = R.committed_total, live_grants(T) = live_grants(R),
         \A id \in live_grants(R) : /\ T.grants[id].capacity = R.grants[id].capacity
                                    /\ T.grants[id].capacity_pool = R.grants[id].capacity_pool
  PROVE  Pooled(T)
<1> DEFINE L == live_grants(R)
<1>1. Metered(R, L)
  BY GrantsMetered
<1> HIDE DEF L
<1>2. \A s \in SUBSET L : units_of(T, s) = units_of(R, s)
  <2>1. SameCapacity(T, R, L)
    BY DEF L, SameCapacity
  <2> QED
    BY <1>1, <2>1, UnitsSame, Zenon
<1>3. \A r \in Ref : drawing(T, L, r) = drawing(R, L, r) /\ drawing(R, L, r) \in SUBSET L
  BY DEF drawing, L
<1>4. L \in SUBSET L
  OBVIOUS
<1>5. \A id \in L : Rack \in T.grants[id].capacity_pool
  BY DEF Pooled, L
<1>6. \A r \in Ref : T.committed[r] = units_of(T, drawing(T, L, r))
  BY <1>2, <1>3 DEF Pooled, L
<1>7. T.committed_total = units_of(T, L)
  BY <1>2, <1>4 DEF Pooled, L
<1> QED
  BY <1>5, <1>6, <1>7 DEF Pooled, L

\* Taking away from a pool what some of its live grants draw.
LEMMA PoolLess ==
  ASSUME NEW R, NEW W, Metered(R, W), NEW S \in SUBSET W, NEW D \in SUBSET S,
         units_of(R, S) \in 0..U64Max
  PROVE  floor_at_zero(units_of(R, S) - units_of(R, D)) = units_of(R, S \ D)
<1>1. units_of(R, S \ D) + units_of(R, D) = units_of(R, S)
  BY UnitsLess
<1>2. S \ D \in SUBSET W /\ D \in SUBSET W
  OBVIOUS
<1>3. units_of(R, D) \in Nat /\ units_of(R, S \ D) \in Nat
  BY <1>2, UnitsAdd
<1> QED
  BY <1>1, <1>3, RegistryAssumption DEF floor_at_zero

\* Retiring live grants gives back exactly what they drew.
LEMMA RetirePooled ==
  ASSUME NEW R, Typed(R), Pooled(R), NEW ids \in SUBSET live_grants(R),
         NEW state \in TerminalStates
  PROVE  Pooled(retire(R, ids, state))
<1> DEFINE T == retire(R, ids, state)
           L == live_grants(R)
<1>1. /\ T.committed = [r \in Ref |-> floor_at_zero(R.committed[r] - units_in_pool(R, ids, r))]
      /\ T.committed_total = floor_at_zero(R.committed_total - units_of(R, ids))
  BY DEF retire, detach, Typed, Shape, Members
<1>2. /\ T.grants \in [DOMAIN R.grants -> Grant]
      /\ \A id \in DOMAIN R.grants :
           T.grants[id] = IF id \in ids THEN [R.grants[id] EXCEPT !.state = state]
                                        ELSE R.grants[id]
  BY RetireGrants DEF Typed
<1> HIDE DEF T
<1>3. \A id \in DOMAIN R.grants :
        T.grants[id].state = IF id \in ids THEN state ELSE R.grants[id].state
  BY <1>2, Zenon DEF Typed, Grant
<1>4. live_grants(T) = L \ ids
  BY <1>2, <1>3 DEF live_grants, is_live, is_live_state, TerminalStates
<1>5. \A id \in L \ ids : T.grants[id] = R.grants[id]
  BY <1>2, Zenon DEF live_grants
<1>6. Metered(R, L) /\ Metered(R, L \ ids)
  <2>1. Metered(R, L)
    BY GrantsMetered
  <2>2. IsFiniteSet(L \ ids)
    BY <2>1, FS_Subset DEF Metered
  <2> QED
    BY <2>1, <2>2 DEF Metered
<1>7. \A s \in SUBSET (L \ ids) : units_of(T, s) = units_of(R, s)
  <2>1. SameCapacity(T, R, L \ ids)
    BY <1>5 DEF SameCapacity
  <2> QED
    BY <1>6, <2>1, UnitsSame, Zenon
<1>8. /\ \A r \in Ref : R.committed[r] = units_of(R, drawing(R, L, r)) /\ R.committed[r] \in 0..U64Max
      /\ R.committed_total = units_of(R, L) /\ R.committed_total \in 0..U64Max
  BY DEF Pooled, Typed
<1>9. \A id \in L \ ids : Rack \in T.grants[id].capacity_pool
  BY <1>5 DEF Pooled
<1> HIDE DEF L
<1>10. ASSUME NEW r \in Ref PROVE T.committed[r] = units_of(T, drawing(T, L \ ids, r))
  <2> DEFINE S == drawing(R, L, r)
             D == drawing(R, ids, r)
  <2>1. /\ S \in SUBSET L /\ D \in SUBSET S /\ drawing(T, L \ ids, r) = S \ D
        /\ S \ D \in SUBSET (L \ ids)
    BY <1>5 DEF drawing, L
  <2>2. T.committed[r] = floor_at_zero(units_of(R, S) - units_of(R, D))
    BY <1>1, <1>8, PoolUnits
  <2>3. units_of(R, S) \in 0..U64Max
    BY <1>8
  <2> HIDE DEF S, D
  <2>4. T.committed[r] = units_of(R, S \ D)
    BY <1>6, <2>1, <2>2, <2>3, PoolLess
  <2> QED
    BY <1>7, <2>1, <2>4
<1>11. T.committed_total = units_of(T, L \ ids)
  <2>1. L \in SUBSET L /\ ids \in SUBSET L /\ L \ ids \in SUBSET (L \ ids)
    BY DEF L
  <2>2. T.committed_total = units_of(R, L \ ids)
    BY <1>1, <1>6, <1>8, <2>1, PoolLess
  <2> QED
    BY <1>7, <2>1, <2>2
<1>12. Pooled(T)
  BY <1>4, <1>9, <1>10, <1>11 DEF Pooled
<1> QED
  BY <1>12 DEF T

\* A change of state that moves no grant into or out of the live ones.
LEMMA SetStatePooled ==
  ASSUME NEW R, Typed(R), Pooled(R), NEW ids \in SUBSET DOMAIN R.grants,
         NEW state \in GrantState,
         \A id \in ids : is_live_state(state) = is_live_state(R.grants[id].state)
  PROVE  Pooled(set_state(R, ids, state))
<1> DEFINE T == set_state(R, ids, state)
<1>1. /\ T.committed = R.committed /\ T.committed_total = R.committed_total
      /\ T.grants = [id \in DOMAIN R.grants |->
                       IF id \in ids THEN [R.grants[id] EXCEPT !.state = state]
                                     ELSE R.grants[id]]
  BY DEF set_state, Typed, Shape, Members
<1> HIDE DEF T
<1>2. \A id \in DOMAIN R.grants :
        /\ T.grants[id].state = IF id \in ids THEN state ELSE R.grants[id].state
        /\ T.grants[id].capacity = R.grants[id].capacity
        /\ T.grants[id].capacity_pool = R.grants[id].capacity_pool
  <2>1. \A id \in DOMAIN R.grants :
          T.grants[id] = IF id \in ids THEN [R.grants[id] EXCEPT !.state = state]
                                       ELSE R.grants[id]
    BY <1>1
  <2>2. \A id \in DOMAIN R.grants :
          T.grants[id].state = IF id \in ids THEN state ELSE R.grants[id].state
    BY <2>1, Zenon DEF Typed, Grant
  <2>3. \A id \in DOMAIN R.grants : T.grants[id].capacity = R.grants[id].capacity
    BY <2>1, Zenon DEF Typed, Grant
  <2>4. \A id \in DOMAIN R.grants : T.grants[id].capacity_pool = R.grants[id].capacity_pool
    BY <2>1, Zenon DEF Typed, Grant
  <2> QED
    BY <2>2, <2>3, <2>4
<1>3. DOMAIN T.grants = DOMAIN R.grants
  BY <1>1
<1>4. live_grants(T) = live_grants(R) /\ live_grants(R) \subseteq DOMAIN R.grants
  BY <1>2, <1>3 DEF live_grants, is_live
<1>5. Pooled(T)
  BY <1>1, <1>2, <1>4, SamePooled, Zenon
<1> QED
  BY <1>5 DEF T

\* T has the live grant g in addition to those of R.
Augments(T, R, g) ==
  /\ g.id \notin DOMAIN R.grants /\ DOMAIN T.grants = DOMAIN R.grants \union {g.id}
  /\ T.grants[g.id] = g /\ \A i \in DOMAIN R.grants : T.grants[i] = R.grants[i]
  /\ is_live_state(g.state) /\ g.capacity \in Nat /\ Rack \in g.capacity_pool

\* T has drawn the capacity of g from its pools.
Charged(T, R, g) ==
  /\ T.committed = [r \in Ref |-> IF r \in g.capacity_pool
                                  THEN saturate(R.committed[r] + g.capacity)
                                  ELSE R.committed[r]]
  /\ T.committed_total = saturate(R.committed_total + g.capacity)

\* add_live adds the grant and draws its capacity.
LEMMA AddLiveCharges ==
  ASSUME NEW R, Typed(R), NEW s, NEW g, g.id \notin DOMAIN R.grants, is_live_state(g.state),
         g.capacity \in Nat, Rack \in g.capacity_pool, NEW T,
         T.grants = add_live(R, s, g).grants, T.committed = add_live(R, s, g).committed,
         T.committed_total = add_live(R, s, g).committed_total
  PROVE  Augments(T, R, g) /\ Charged(T, R, g)
<1> DEFINE A == attach(R, s, g)
<1>1. Shape(A) /\ A.grants = R.grants /\ Charged(A, R, g)
  BY DEF attach, Typed, Shape, Members, Charged
<1> HIDE DEF A
<1>2. /\ T.grants = [id \in DOMAIN R.grants \union {g.id} |->
                       IF id = g.id THEN g ELSE R.grants[id]]
      /\ T.committed = A.committed /\ T.committed_total = A.committed_total
  BY <1>1 DEF add_live, put_grant, Shape, Members, A
<1> QED
  BY <1>1, <1>2 DEF Augments, Charged

\* What a part of the live grants draws, with and without the one added.
LEMMA GrownUnits ==
  ASSUME NEW R, Typed(R), Pooled(R), NEW g, NEW T, Augments(T, R, g)
  PROVE  /\ live_grants(T) = live_grants(R) \union {g.id}
         /\ \A v \in SUBSET live_grants(R) :
              /\ units_of(T, v) = units_of(R, v)
              /\ units_of(T, v \union {g.id}) = units_of(R, v) + g.capacity
<1> DEFINE L == live_grants(R)
           M == L \union {g.id}
<1>1. live_grants(T) = M /\ g.id \notin L /\ SameCapacity(T, R, L)
  BY DEF Augments, live_grants, is_live, SameCapacity
<1>2. Metered(R, L)
  BY GrantsMetered
<1> HIDE DEF L
<1>3. Metered(T, M)
  BY <1>1, <1>2, FS_AddElement DEF Augments, Metered, SameCapacity
<1>4. \A v \in SUBSET L : units_of(T, v) = units_of(R, v)
  BY <1>1, <1>2, UnitsSame, Zenon
<1>5. \A v \in SUBSET M : \A x \in M \ v :
        units_of(T, v \union {x}) = units_of(T, v) + T.grants[x].capacity
  BY <1>3, UnitsAdd, Zenon
<1>6. \A v \in SUBSET L : v \in SUBSET M /\ g.id \in M \ v
  BY <1>1
<1> HIDE DEF M
<1>7. T.grants[g.id].capacity = g.capacity
  BY DEF Augments
<1> QED
  BY <1>1, <1>4, <1>5, <1>6, <1>7 DEF L, M

\* A live grant that is added draws its capacity from its pools once, as long
\* as the total still fits 64 bits.
LEMMA GrownPooled ==
  ASSUME NEW R, Typed(R), Pooled(R), NEW g, NEW T, Augments(T, R, g), Charged(T, R, g),
         R.committed_total + g.capacity <= U64Max
  PROVE  /\ Pooled(T)
         /\ \A r \in Ref \intersect g.capacity_pool : T.committed[r] = R.committed[r] + g.capacity
<1> DEFINE L == live_grants(R)
           M == L \union {g.id}
<1>1. /\ live_grants(T) = M
      /\ \A v \in SUBSET L : /\ units_of(T, v) = units_of(R, v)
                             /\ units_of(T, v \union {g.id}) = units_of(R, v) + g.capacity
  BY GrownUnits
<1>2. \A x \in L : x \in DOMAIN R.grants /\ T.grants[x] = R.grants[x]
  BY DEF Augments, live_grants
<1>3. /\ \A x \in L : Rack \in R.grants[x].capacity_pool
      /\ \A r \in Ref : R.committed[r] = units_of(R, drawing(R, L, r))
      /\ R.committed_total = units_of(R, L)
  BY DEF Pooled
<1> HIDE DEF L
<1>4. /\ \A r \in Ref : R.committed[r] \in Nat /\ R.committed[r] <= R.committed_total
      /\ R.committed_total \in Nat /\ g.capacity \in Nat /\ U64Max \in Nat
  BY PoolWithinTotal, RegistryAssumption DEF Augments
<1>5. /\ \A r \in Ref : saturate(R.committed[r] + g.capacity) = R.committed[r] + g.capacity
      /\ T.committed_total = R.committed_total + g.capacity
  BY <1>4 DEF saturate, Charged
<1>6. \A r \in Ref : T.committed[r] = IF r \in g.capacity_pool
                                      THEN R.committed[r] + g.capacity ELSE R.committed[r]
  BY <1>5 DEF Charged
<1>7. ASSUME NEW r \in Ref PROVE T.committed[r] = units_of(T, drawing(T, M, r))
  <2>1. drawing(R, L, r) \in SUBSET L
    BY DEF drawing
  <2>2. drawing(T, M, r) = IF r \in g.capacity_pool THEN drawing(R, L, r) \union {g.id}
                           ELSE drawing(R, L, r)
    BY <1>2 DEF Augments, drawing
  <2> QED
    BY <1>1, <1>3, <1>6, <2>1, <2>2
<1>8. T.committed_total = units_of(T, M)
  BY <1>1, <1>3, <1>5
<1>9. \A x \in M : Rack \in T.grants[x].capacity_pool
  BY <1>2, <1>3 DEF Augments
<1>10. Pooled(T)
  BY <1>1, <1>7, <1>8, <1>9, Zenon DEF Pooled
<1> QED
  BY <1>6, <1>10

\* renew draws nothing.
LEMMA RenewPooled ==
  ASSUME NEW R, Typed(R), Pooled(R), NEW tok, tok.grant \in DOMAIN R.grants, NEW ttl, NEW t
  PROVE  Pooled(renew(R, tok, ttl, t))
<1> DEFINE T == renew(R, tok, ttl, t)
<1>1. /\ T.committed = R.committed /\ T.committed_total = R.committed_total
      /\ DOMAIN T.grants = DOMAIN R.grants
      /\ \A id \in DOMAIN R.grants :
           T.grants[id] = IF id = tok.grant THEN [R.grants[id] EXCEPT !.expires_at = t + ttl]
                                            ELSE R.grants[id]
  BY DEF renew, Typed, Shape, Members
<1> HIDE DEF T
<1>2. \A id \in DOMAIN R.grants :
        /\ T.grants[id].state = R.grants[id].state
        /\ T.grants[id].capacity = R.grants[id].capacity
        /\ T.grants[id].capacity_pool = R.grants[id].capacity_pool
  <2>1. \A id \in DOMAIN R.grants : T.grants[id].state = R.grants[id].state
    BY <1>1, Zenon DEF Typed, Grant
  <2>2. \A id \in DOMAIN R.grants : T.grants[id].capacity = R.grants[id].capacity
    BY <1>1, Zenon DEF Typed, Grant
  <2>3. \A id \in DOMAIN R.grants : T.grants[id].capacity_pool = R.grants[id].capacity_pool
    BY <1>1, Zenon DEF Typed, Grant
  <2> QED
    BY <2>1, <2>2, <2>3
<1>3. live_grants(T) = live_grants(R) /\ live_grants(R) \subseteq DOMAIN R.grants
  BY <1>1, <1>2 DEF live_grants, is_live
<1>4. Pooled(T)
  BY <1>1, <1>2, <1>3, SamePooled
<1> QED
  BY <1>4 DEF T

\* resume_all gives back what it fences draw.
LEMMA ResumePooled ==
  ASSUME NEW R, Typed(R), Pooled(R), NEW s, NEW t
  PROVE  Pooled(resume_all(R, s, t))
<1> DEFINE W == in_state(R, "suspended")
           K == {id \in W : resumable(s, R.grants[id], t)}
           D == W \ K
           S == retire(R, D, "fenced")
<1>1. D \in SUBSET live_grants(R) /\ D \in SUBSET DOMAIN R.grants /\ "fenced" \in TerminalStates
  BY DEF in_state, live_grants, is_live, is_live_state, TerminalStates
<1>2. \A id \in K : id \in DOMAIN R.grants /\ id \notin D /\ R.grants[id].state = "suspended"
  BY DEF in_state
<1>3. resume_all(R, s, t) = set_state(S, K, "active")
  BY DEF resume_all
<1> HIDE DEF D, K, W
<1>4. Pooled(S) /\ Typed(S)
  BY <1>1, RetirePooled, RetireTyped
<1>5. /\ DOMAIN S.grants = DOMAIN R.grants
      /\ \A id \in DOMAIN R.grants :
           S.grants[id] = IF id \in D THEN [R.grants[id] EXCEPT !.state = "fenced"]
                                      ELSE R.grants[id]
  BY <1>1, RetireGrants DEF Typed
<1> HIDE DEF S
<1>6. \A id \in K : id \in DOMAIN S.grants /\ S.grants[id].state = "suspended"
  BY <1>2, <1>5, Zenon
<1>7. /\ K \in SUBSET DOMAIN S.grants /\ "active" \in GrantState
      /\ \A id \in K : is_live_state("active") = is_live_state(S.grants[id].state)
  BY <1>6 DEF is_live_state, GrantState
<1>8. Pooled(set_state(S, K, "active"))
  BY <1>4, <1>7, SetStatePooled
<1> QED
  BY <1>3, <1>8

\* apply_state gives back what a live grant drew, and a retired one not again.
LEMMA ApplyStatePooled ==
  ASSUME NEW R, Typed(R), Pooled(R), NEW id, NEW state \in TerminalStates
  PROVE  Pooled(apply_state(R, id, state))
<1>1. CASE id \notin DOMAIN R.grants
  BY <1>1 DEF apply_state
<1>2. CASE id \in DOMAIN R.grants /\ is_live(R, id)
  <2>1. apply_state(R, id, state) = retire(R, {id}, state) /\ {id} \in SUBSET live_grants(R)
    BY <1>2 DEF apply_state, live_grants
  <2> QED
    BY <2>1, RetirePooled
<1>3. CASE id \in DOMAIN R.grants /\ ~is_live(R, id)
  <2>1. /\ apply_state(R, id, state) = set_state(R, {id}, state)
        /\ {id} \in SUBSET DOMAIN R.grants /\ state \in GrantState
        /\ \A i \in {id} : is_live_state(state) = is_live_state(R.grants[i].state)
    BY <1>3 DEF apply_state, is_live, is_live_state, TerminalStates, GrantState
  <2> QED
    BY <2>1, SetStatePooled
<1> QED
  BY <1>1, <1>2, <1>3

\* The pools of every grant of T that R does not have hold no more than the
\* snapshot leaves for them.
IssuedFit(R, T, s) ==
  \A id \in DOMAIN T.grants \ DOMAIN R.grants :
    \A r \in Ref \intersect T.grants[id].capacity_pool : T.committed[r] <= pool_base(s, r)

\* acquire draws the capacity of the grant it issues from each of its pools,
\* and what the pool then gives to live grants fits what the snapshot leaves.
LEMMA AcquirePooled ==
  ASSUME NEW R, NEW X, Consistent(R, X), Pooled(R), NEW s, is_snapshot(s), NEW q \in Req,
         NEW inc \in Nat, NEW t \in Nat, NEW allow
  PROVE  /\ Pooled(acquire(R, s, q, inc, t, allow).reg)
         /\ IssuedFit(R, acquire(R, s, q, inc, t, allow).reg, s)
<1> DEFINE T == acquire(R, s, q, inc, t, allow).reg
           g == new_grant(R, s, q, inc, t)
<1>1. Typed(R) /\ Shape(R)
  BY DEF Consistent, Typed
<1>2. \/ T = R
      \/ T = [R EXCEPT !.next_fence = R.next_fence + 1]
      \/ \E o : T = remember(R, q.request, o)
      \/ acquire_code(R, s, q, t, allow) = "ok" /\ T = issue(R, s, g)
  BY AcquireCases
<1>3. /\ g.id = R.next_fence + 1 /\ g.state = "active" /\ g.capacity = q.capacity
      /\ g.capacity_pool = capacity_pool_refs(s, q.scope)
  BY DEF new_grant
<1> HIDE DEF T, g
<1>4. CASE \/ T = R \/ T = [R EXCEPT !.next_fence = R.next_fence + 1]
           \/ \E o : T = remember(R, q.request, o)
  <2>1. T.grants = R.grants /\ T.committed = R.committed /\ T.committed_total = R.committed_total
    BY <1>1, <1>4 DEF remember, Shape, Members
  <2>2. live_grants(T) = live_grants(R) /\ IssuedFit(R, T, s)
    BY <2>1 DEF live_grants, is_live, IssuedFit
  <2>3. Pooled(T)
    BY <1>1, <2>1, <2>2, SamePooled
  <2> QED
    BY <2>2, <2>3 DEF T
<1>5. CASE acquire_code(R, s, q, t, allow) = "ok" /\ T = issue(R, s, g)
  <2>1. check_capacity(R, s, g.capacity_pool, g.capacity)
    BY <1>3, <1>5, Zenon DEF acquire_code
  <2>2. \A r \in g.capacity_pool : R.committed[r] + g.capacity <= pool_base(s, r)
    BY <2>1 DEF check_capacity, available
  <2>3. Rack \in g.capacity_pool /\ Rack \in Ref
    BY <1>3, RegistryAssumption DEF capacity_pool_refs
  <2>4. g.id \notin DOMAIN R.grants /\ g.capacity \in Nat /\ is_live_state(g.state)
    <3>1. R.next_fence \in Nat /\ \A id \in DOMAIN R.grants : id \in Nat /\ id <= R.next_fence
      BY <1>1 DEF Typed, Grant
    <3>2. q.capacity \in Nat /\ is_live_state("active")
      BY DEF Req, is_live_state
    <3> QED
      BY <1>3, <3>1, <3>2
  <2>5. R.committed_total + g.capacity <= U64Max
    <3>1. R.committed[Rack] + g.capacity <= s.uncommitted
      BY <2>2, <2>3 DEF pool_base
    <3>2. R.committed[Rack] = R.committed_total /\ R.committed_total \in Nat
      BY <1>1, PoolWithinTotal
    <3>3. s.uncommitted \in Nat /\ s.uncommitted <= U64Max /\ U64Max \in Nat
      BY RegistryAssumption DEF is_snapshot
    <3> QED
      BY <2>4, <3>1, <3>2, <3>3
  <2>6. Augments(T, R, g) /\ Charged(T, R, g)
    <3>1. {"grants", "committed", "committed_total"} \subseteq DOMAIN add_live(R, s, g)
      BY <1>1 DEF add_live, put_grant, attach, Shape, Members
    <3>2. /\ T.grants = add_live(R, s, g).grants /\ T.committed = add_live(R, s, g).committed
          /\ T.committed_total = add_live(R, s, g).committed_total
      BY <1>5, <3>1, Zenon DEF issue, remember
    <3> QED
      BY <1>1, <2>3, <2>4, <3>2, AddLiveCharges, Zenon
  <2>7. /\ Pooled(T)
        /\ \A r \in Ref \intersect g.capacity_pool : T.committed[r] = R.committed[r] + g.capacity
    BY <1>1, <2>5, <2>6, GrownPooled, Zenon
  <2>8. IssuedFit(R, T, s)
    BY <2>2, <2>6, <2>7 DEF IssuedFit, Augments
  <2> QED
    BY <2>7, <2>8 DEF T
<1> QED
  BY <1>2, <1>4, <1>5 DEF T

\* install_recovered draws what the grant it brings back drew, as long as what
\* the live grants then draw together fits 64 bits.
LEMMA InstallPooled ==
  ASSUME NEW R, Typed(R), Pooled(R), NEW s, NEW d \in Grant,
         d.capacity_pool = {} \/ Rack \in d.capacity_pool,
         units_of(install_recovered(R, s, d), live_grants(install_recovered(R, s, d))) <= U64Max
  PROVE  Pooled(install_recovered(R, s, d))
<1> DEFINE fence == IF d.fence > R.next_fence THEN d.fence ELSE R.next_fence
           pool  == IF d.capacity_pool # {} THEN d.capacity_pool
                    ELSE IF d.scope \in DOMAIN s.res THEN capacity_pool_refs(s, d.scope)
                         ELSE {}
           T == install_recovered(R, s, d)
<1>0. pool # {} => Rack \in pool
  BY Zenon DEF capacity_pool_refs
<1>1. CASE d.id \in DOMAIN R.grants \/ R.live >= MaxLive
  BY <1>1 DEF install_recovered
<1>2. CASE /\ ~(d.id \in DOMAIN R.grants \/ R.live >= MaxLive) /\ pool = {}
  <2> DEFINE g == [d EXCEPT !.state = "fenced"]
  <2>1. g.id = d.id /\ g.state = "fenced"
    BY DEF Grant
  <2>2. T = [put_grant(R, g) EXCEPT !.next_fence = fence]
    BY <1>2 DEF install_recovered
  <2> HIDE DEF g, fence, pool, T
  <2>3. /\ T.committed = R.committed /\ T.committed_total = R.committed_total
        /\ T.grants = [id \in DOMAIN R.grants \union {g.id} |->
                         IF id = g.id THEN g ELSE R.grants[id]]
    BY <2>2 DEF put_grant, Typed, Shape, Members
  <2>4. /\ live_grants(T) = live_grants(R)
        /\ \A id \in live_grants(R) : T.grants[id] = R.grants[id]
    BY <1>2, <2>1, <2>3 DEF live_grants, is_live, is_live_state
  <2>5. Pooled(T)
    BY <2>3, <2>4, SamePooled, Zenon
  <2> QED
    BY <2>5 DEF T
<1>3. CASE /\ ~(d.id \in DOMAIN R.grants \/ R.live >= MaxLive) /\ pool # {}
  <2> DEFINE g == [d EXCEPT !.state = "recovering", !.capacity_pool = pool]
  <2>1. /\ g.id = d.id /\ g.state = "recovering" /\ g.capacity = d.capacity
        /\ g.capacity_pool = pool
    <3> HIDE DEF pool
    <3>1. g.id = d.id /\ g.state = "recovering"
      BY Zenon DEF Grant
    <3>2. g.capacity = d.capacity /\ g.capacity_pool = pool
      BY Zenon DEF Grant
    <3> QED
      BY <3>1, <3>2
  <2>2. T = [add_live(R, s, g) EXCEPT !.next_fence = fence,
                                      !.recovering = R.recovering + 1]
    BY <1>3 DEF install_recovered
  <2>3. Rack \in g.capacity_pool /\ g.capacity \in Nat /\ is_live_state(g.state)
    BY <1>0, <1>3, <2>1 DEF Grant, is_live_state
  <2>4. units_of(T, live_grants(T)) <= U64Max
    OBVIOUS
  <2> HIDE DEF g, fence, pool, T
  <2>5. g.id \notin DOMAIN R.grants
    BY <1>3, <2>1
  <2>6. Augments(T, R, g) /\ Charged(T, R, g)
    <3>1. /\ T.grants = add_live(R, s, g).grants /\ T.committed = add_live(R, s, g).committed
          /\ T.committed_total = add_live(R, s, g).committed_total
      BY <2>2
    <3> QED
      BY <2>3, <2>5, <3>1, AddLiveCharges, Zenon
  <2>7. R.committed_total + g.capacity <= U64Max
    <3>1. units_of(T, live_grants(T)) = units_of(R, live_grants(R)) + g.capacity
      BY <2>6, GrownUnits
    <3> QED
      BY <2>4, <3>1 DEF Pooled
  <2>8. Pooled(T)
    BY <2>6, <2>7, GrownPooled
  <2> QED
    BY <2>8 DEF T
<1> QED
  BY <1>1, <1>2, <1>3

\* revalidate gives back what the grants it fences drew; those it re-arms go on
\* drawing the same.
LEMMA RevalidatePooled ==
  ASSUME NEW R, Typed(R), Pooled(R), NEW s, NEW inc \in Nat, NEW t \in Nat
  PROVE  Pooled(revalidate(R, s, inc, t))
<1> DEFINE W == in_state(R, "recovering")
           K == {id \in W : revalidates(s, R.grants[id], t)}
           D == W \ K
           S == retire(R, D, "fenced")
           F(id) == R.next_fence + Cardinality({j \in K : j <= id})
           T == revalidate(R, s, inc, t)
<1>1. D \in SUBSET live_grants(R) /\ "fenced" \in TerminalStates
  BY DEF in_state, live_grants, is_live, is_live_state, TerminalStates
<1>2. \A id \in K : id \in DOMAIN R.grants /\ id \notin D /\ R.grants[id].state = "recovering"
  BY DEF in_state
<1>3. T = [S EXCEPT
        !.grants = [id \in DOMAIN R.grants |->
            IF id \in K THEN [S.grants[id] EXCEPT !.state = "active",
                                                  !.incarnation = inc,
                                                  !.fence = F(id)]
            ELSE S.grants[id]],
        !.incarnation = inc,
        !.next_fence = R.next_fence + Cardinality(K),
        !.recovering = floor_at_zero(R.recovering - Cardinality(W))]
  BY DEF revalidate
<1> HIDE DEF D, K, T, F
<1>4. Pooled(S) /\ Typed(S)
  BY <1>1, RetirePooled, RetireTyped
<1>5. /\ DOMAIN S.grants = DOMAIN R.grants
      /\ \A id \in DOMAIN R.grants :
           S.grants[id] = IF id \in D THEN [R.grants[id] EXCEPT !.state = "fenced"]
                                      ELSE R.grants[id]
  BY <1>1, RetireGrants DEF Typed
<1> HIDE DEF S
<1>6. \A id \in K : S.grants[id] \in Grant /\ S.grants[id].state = "recovering"
  BY <1>2, <1>4, <1>5, Zenon DEF Typed
<1>7. /\ T.committed = S.committed /\ T.committed_total = S.committed_total
      /\ T.grants = [id \in DOMAIN R.grants |->
            IF id \in K THEN [S.grants[id] EXCEPT !.state = "active",
                                                  !.incarnation = inc,
                                                  !.fence = F(id)]
            ELSE S.grants[id]]
  <2> HIDE DEF W
  <2> QED
    BY <1>3, <1>4 DEF Typed, Shape, Members
<1> DEFINE N(id) == [S.grants[id] EXCEPT !.state = "active", !.incarnation = inc,
                                          !.fence = F(id)]
<1>8. \A id \in K : /\ N(id).state = "active" /\ N(id).capacity = S.grants[id].capacity
                    /\ N(id).capacity_pool = S.grants[id].capacity_pool
  <2>1. \A id \in K : N(id).state = "active"
    BY <1>6, Zenon DEF Grant
  <2>2. \A id \in K : N(id).capacity = S.grants[id].capacity
    BY <1>6, Zenon DEF Grant
  <2>3. \A id \in K : N(id).capacity_pool = S.grants[id].capacity_pool
    BY <1>6, Zenon DEF Grant
  <2> QED
    BY <2>1, <2>2, <2>3, Zenon
<1>9. \A id \in DOMAIN R.grants : T.grants[id] = IF id \in K THEN N(id) ELSE S.grants[id]
  BY <1>7, Zenon
<1> HIDE DEF N
<1>10. \A id \in DOMAIN R.grants :
         /\ T.grants[id].state = IF id \in K THEN "active" ELSE S.grants[id].state
         /\ T.grants[id].capacity = S.grants[id].capacity
         /\ T.grants[id].capacity_pool = S.grants[id].capacity_pool
  BY <1>8, <1>9
<1>11. DOMAIN T.grants = DOMAIN S.grants
  BY <1>5, <1>7, Zenon
<1>12. live_grants(T) = live_grants(S) /\ live_grants(S) \subseteq DOMAIN R.grants
  BY <1>5, <1>6, <1>10, <1>11 DEF live_grants, is_live, is_live_state
<1>13. Pooled(T)
  BY <1>4, <1>7, <1>10, <1>12, SamePooled, Zenon
<1> QED
  BY <1>13 DEF T

-----------------------------------------------------------------------------
(* The pools.                                                              *)

\* While the log is read back, what the grants that came back draw together fits
\* 64 bits.  install_recovered checks no capacity, and attach saturates.
RecoveredFits == phase = "starting" => units_of(reg, live_grants(reg)) <= U64Max

\* Every step keeps the pools exact.
LEMMA NextPooled ==
  ASSUME IInv, Pooled(reg), [Next]_vars, RecoveredFits'
  PROVE  Pooled(reg')
<1>0. /\ Consistent(reg, restored) /\ Pending(reg, snap) /\ Typed(reg)
      /\ is_snapshot(snap) /\ now \in Nat /\ Incarnation \in Nat
  BY InvFacts, Zenon
<1>1. ASSUME NEW ids \in SUBSET live_grants(reg), NEW state \in TerminalStates,
             Serving(retire(reg, ids, state))
      PROVE  Pooled(reg')
  BY <1>0, <1>1, RetirePooled DEF Serving
<1>2. ASSUME NEW g \in DurableGrants, InstallRecovered(g) PROVE Pooled(reg')
  <2>1. g \in Grant /\ (g.capacity_pool = {} \/ Rack \in g.capacity_pool)
    BY DrivingAssumption
  <2>2. reg' = install_recovered(reg, snap, g) /\ phase' = "starting"
    BY <1>2 DEF InstallRecovered
  <2>3. units_of(reg', live_grants(reg')) <= U64Max
    BY <2>2 DEF RecoveredFits
  <2> QED
    BY <1>0, <2>1, <2>2, <2>3, InstallPooled
<1>3. ASSUME NEW g \in DurableGrants, InstallOutcome(g) PROVE Pooled(reg')
  <2>1. /\ reg'.grants = reg.grants /\ reg'.committed = reg.committed
        /\ reg'.committed_total = reg.committed_total
    BY <1>0, <1>3 DEF InstallOutcome, install_outcome, remember, Typed, Shape, Members
  <2>2. live_grants(reg') = live_grants(reg)
    BY <2>1 DEF live_grants, is_live
  <2> QED
    BY <1>0, <2>1, <2>2, SamePooled
<1>4. ASSUME NEW id, NEW state \in TerminalStates, ApplyState(id, state) PROVE Pooled(reg')
  BY <1>0, <1>4, ApplyStatePooled DEF ApplyState
<1>5. CASE Revalidate
  BY <1>0, <1>5, RevalidatePooled DEF Revalidate
<1>6. ASSUME NEW request \in RequestId, NEW order \in Orders, NEW allow \in BOOLEAN,
             Acquire(request, order, allow)
      PROVE  Pooled(reg')
  <2> DEFINE q == [request |-> request, scope |-> order.scope, mode |-> order.mode,
                   capacity |-> order.capacity, ttl |-> order.ttl,
                   wellformed |-> order.wellformed]
  <2>1. q \in Req
    BY DrivingAssumption DEF Order, Req
  <2>2. reg' = acquire(reg, snap, q, Incarnation, now, allow).reg
    BY <1>6 DEF Acquire, Serving
  <2> HIDE DEF q
  <2> QED
    BY <1>0, <2>1, <2>2, AcquirePooled
<1>7. ASSUME NEW id \in DOMAIN reg.grants, NEW ttl \in MinTtl..MaxTtl, Renew(id, ttl)
      PROVE  Pooled(reg')
  <2> DEFINE tok == token(reg.grants[id])
  <2>1. tok.grant \in DOMAIN reg.grants /\ reg' = renew(reg, tok, ttl, now)
    BY <1>7, Zenon DEF Renew, renew_ok, check_lease, token_matches, Serving
  <2> HIDE DEF tok
  <2> QED
    BY <1>0, <2>1, RenewPooled
<1>8. ASSUME NEW id \in DOMAIN reg.grants, Release(id) PROVE Pooled(reg')
  <2>1. token(reg.grants[id]).grant = id
    BY <1>0 DEF token, Typed
  <2>2. CASE is_live(reg, id)
    <3>1. /\ Serving(retire(reg, {id}, "released"))
          /\ {id} \in SUBSET live_grants(reg) /\ "released" \in TerminalStates
      BY <1>8, <2>1, <2>2 DEF Release, release, live_grants, TerminalStates
    <3> QED
      BY <1>1, <3>1
  <2>3. CASE ~is_live(reg, id)
    BY <1>8, <2>1, <2>3 DEF Release, release, Serving
  <2> QED
    BY <2>2, <2>3
<1>9. CASE FenceAll
  <2>1. live_grants(reg) \in SUBSET live_grants(reg) /\ "fenced" \in TerminalStates
    BY DEF TerminalStates
  <2> QED
    BY <1>1, <1>9, <2>1 DEF FenceAll, fence_all
<1>10. ASSUME NEW device \in Devices, FenceDevice(device) PROVE Pooled(reg')
  <2> DEFINE ids == {id \in live_grants(reg) : touches_device(snap, reg.grants[id], device)}
  <2>1. /\ ids \in SUBSET live_grants(reg) /\ "fenced" \in TerminalStates
        /\ Serving(retire(reg, ids, "fenced"))
    BY <1>10 DEF TerminalStates, FenceDevice, fence_device
  <2> HIDE DEF ids
  <2> QED
    BY <1>1, <2>1
<1>11. CASE ExpireDue
  <2>1. /\ due(reg, now) \in SUBSET live_grants(reg) /\ "expired" \in TerminalStates
        /\ Serving(retire(reg, due(reg, now), "expired"))
    BY <1>11 DEF due, TerminalStates, ExpireDue, expire_due
  <2> QED
    BY <1>1, <2>1
<1>12. CASE SuspendAll
  <2> DEFINE ids == in_state(reg, "active")
  <2>1. reg' = set_state(reg, ids, "suspended")
    BY <1>12 DEF SuspendAll, suspend_all, Serving
  <2>2. /\ ids \in SUBSET DOMAIN reg.grants
        /\ "suspended" \in GrantState
        /\ \A id \in ids : is_live_state("suspended") = is_live_state(reg.grants[id].state)
    BY DEF in_state, GrantState, is_live_state
  <2> HIDE DEF ids
  <2> QED
    BY <1>0, <2>1, <2>2, SetStatePooled
<1>13. CASE ResumeAll
  BY <1>0, <1>13, ResumePooled DEF ResumeAll, Serving
<1>14. CASE UNCHANGED reg
  BY <1>14
<1> QED
  BY <1>2, <1>3, <1>4, <1>5, <1>6, <1>7, <1>8, <1>9, <1>10, <1>11, <1>12, <1>13, <1>14
  DEF Next, Recompose, Tick, vars

\* An empty registry has drawn nothing.
LEMMA InitPooled == Init => Pooled(reg)
<1> SUFFICES ASSUME Init PROVE Pooled(reg)
  OBVIOUS
<1>1. /\ reg.grants = [id \in {} |-> 0] /\ reg.committed = [r \in Ref |-> 0]
      /\ reg.committed_total = 0
  BY DEF Init, set_incarnation, empty_registry
<1>2. live_grants(reg) = {} /\ \A r \in Ref : drawing(reg, {}, r) = {}
  BY <1>1 DEF live_grants, drawing
<1>3. Metered(reg, {})
  BY FS_EmptySet DEF Metered
<1>4. units_of(reg, {}) = 0
  BY <1>3, UnitsAdd
<1> QED
  BY <1>1, <1>2, <1>4 DEF Pooled

\* The pools are kept exact in every reachable state.
LEMMA PoolsKept == Spec /\ []RecoveredFits => []Pooled(reg)
<1>1. IInv /\ Pooled(reg) /\ [Next]_vars /\ RecoveredFits' => Pooled(reg)'
  BY NextPooled
<1> QED
  BY <1>1, InitPooled, Invariance, PTL DEF Spec

\* committed_ of every pool and committed_total_ are what the live grants draw,
\* through every mix of issues, releases, expiries, fences, suspensions and
\* snapshots: nothing is given back twice and no 64 bit sum saturates.  The one
\* condition is that what the log brings back fits 64 bits, because
\* install_recovered takes it without a check; for what acquire issues the check
\* against the rack's own pool is enough.
THEOREM PoolsCorrect == Spec /\ []RecoveredFits => []PoolsExact
<1>1. Pooled(reg) => PoolsExact
  <2> SUFFICES ASSUME Pooled(reg) PROVE PoolsExact
    OBVIOUS
  <2>1. \A r \in Ref : units_in_pool(reg, live_grants(reg), r) =
                         units_of(reg, drawing(reg, live_grants(reg), r))
    BY PoolUnits
  <2> QED
    BY <2>1 DEF Pooled, PoolsExact
<1> QED
  BY <1>1, PoolsKept, PTL

\* Of a serving daemon's calls only acquire adds a grant.
LEMMA OnlyAcquireIssues ==
  ASSUME IInv, [Next]_vars, phase = "serving"
  PROVE  \/ DOMAIN reg'.grants = DOMAIN reg.grants
         \/ \E request \in RequestId, order \in Orders, allow \in BOOLEAN :
              Acquire(request, order, allow)
<1>0. /\ Consistent(reg, restored) /\ Pending(reg, snap) /\ Typed(reg)
      /\ is_snapshot(snap) /\ now \in Nat /\ Incarnation \in Nat
  BY InvFacts, Zenon
<1>1. ASSUME NEW ids, NEW state \in TerminalStates, Serving(retire(reg, ids, state))
      PROVE  DOMAIN reg'.grants = DOMAIN reg.grants
  <2>1. reg' = retire(reg, ids, state)
    BY <1>1 DEF Serving
  <2> QED
    BY <1>0, <2>1, RetireGrants DEF Typed
<1>2. CASE Revalidate
  BY <1>0, <1>2, RevalidateConsistent DEF Revalidate
<1>3. ASSUME NEW id \in DOMAIN reg.grants, NEW ttl \in MinTtl..MaxTtl, Renew(id, ttl)
      PROVE  DOMAIN reg'.grants = DOMAIN reg.grants
  <2>1. reg' = renew(reg, token(reg.grants[id]), ttl, now)
    BY <1>3 DEF Renew, Serving
  <2> QED
    BY <1>0, <2>1 DEF renew, Typed, Shape, Members
<1>4. ASSUME NEW id \in DOMAIN reg.grants, Release(id)
      PROVE  DOMAIN reg'.grants = DOMAIN reg.grants
  <2>1. CASE Serving(reg)
    BY <2>1 DEF Serving
  <2>2. "released" \in TerminalStates
    BY DEF TerminalStates
  <2> QED
    BY <1>1, <1>4, <2>1, <2>2 DEF Release, release
<1>5. CASE FenceAll \/ (\E device \in Devices : FenceDevice(device)) \/ ExpireDue
  <2>1. "fenced" \in TerminalStates /\ "expired" \in TerminalStates
    BY DEF TerminalStates
  <2> QED
    BY <1>1, <1>5, <2>1, Zenon DEF FenceAll, fence_all, FenceDevice, fence_device, ExpireDue, expire_due
<1>6. CASE SuspendAll
  <2>1. reg' = set_state(reg, in_state(reg, "active"), "suspended")
    BY <1>6 DEF SuspendAll, suspend_all, Serving
  <2> QED
    BY <1>0, <2>1 DEF set_state, Typed, Shape, Members
<1>7. CASE ResumeAll
  <2>1. Shrinks(reg, resume_all(reg, snap, now)) /\ reg' = resume_all(reg, snap, now)
    BY <1>0, <1>7, ResumeConsistent DEF ResumeAll, Serving
  <2> QED
    BY <2>1 DEF Shrinks
<1>8. CASE UNCHANGED reg
  BY <1>8
<1>9. ~(\E g \in DurableGrants : InstallRecovered(g) \/ InstallOutcome(g))
      /\ ~(\E g \in DurableGrants, state \in TerminalStates : ApplyState(g.id, state))
  BY DEF InstallRecovered, InstallOutcome, ApplyState
<1> QED
  BY <1>2, <1>3, <1>4, <1>5, <1>6, <1>7, <1>8, <1>9 DEF Next, Recompose, Tick, vars

\* When acquire issues a grant, everything the live grants then draw from each
\* of its pools, recovered ones included, fits what the snapshot leaves in that
\* pool: available() reads a running total, and the total is exact.
THEOREM IssuesFit == Spec /\ []RecoveredFits => IssuedWithinCapacity
<1> DEFINE Bound == phase = "serving" =>
             \A id \in DOMAIN reg'.grants \ DOMAIN reg.grants :
               \A r \in reg'.grants[id].capacity_pool :
                 units_in_pool(reg', live_grants(reg'), r) <= pool_base(snap, r)
<1>1. ASSUME IInv, IInv', Pooled(reg), Pooled(reg)', [Next]_vars PROVE Bound
  <2> SUFFICES ASSUME phase = "serving",
                      NEW id \in DOMAIN reg'.grants \ DOMAIN reg.grants,
                      NEW r \in reg'.grants[id].capacity_pool
               PROVE  units_in_pool(reg', live_grants(reg'), r) <= pool_base(snap, r)
    OBVIOUS
  <2>1. PICK request \in RequestId, order \in Orders, allow \in BOOLEAN :
          Acquire(request, order, allow)
    BY <1>1, OnlyAcquireIssues
  <2> DEFINE q == [request |-> request, scope |-> order.scope, mode |-> order.mode,
                   capacity |-> order.capacity, ttl |-> order.ttl,
                   wellformed |-> order.wellformed]
  <2>2. q \in Req
    BY DrivingAssumption DEF Order, Req
  <2>3. reg' = acquire(reg, snap, q, Incarnation, now, allow).reg
    BY <2>1 DEF Acquire, Serving
  <2> HIDE DEF q
  <2>4. /\ Consistent(reg, restored) /\ is_snapshot(snap) /\ now \in Nat /\ Incarnation \in Nat
    BY <1>1, InvFacts, Zenon
  <2>5. r \in Ref
    <3>1. Typed(reg')
      BY <1>1 DEF IInv, Consistent
    <3> QED
      BY <3>1, Zenon DEF Typed, Grant
  <2>6. reg'.committed[r] <= pool_base(snap, r)
    <3>1. IssuedFit(reg, reg', snap)
      BY <1>1, <2>2, <2>3, <2>4, AcquirePooled
    <3> QED
      BY <2>5, <3>1 DEF IssuedFit
  <2>7. reg'.committed[r] = units_of(reg', drawing(reg', live_grants(reg'), r))
    BY <1>1, <2>5 DEF Pooled
  <2> QED
    BY <2>6, <2>7, PoolUnits
<1>2. IInv /\ IInv' /\ Pooled(reg) /\ Pooled(reg)' /\ [Next]_vars => [Bound]_vars
  BY <1>1
<1> QED
  BY <1>2, PoolsKept, Invariance, PTL DEF Spec, IssuedWithinCapacity

=============================================================================
