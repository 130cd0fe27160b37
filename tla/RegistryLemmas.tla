--------------------------- MODULE RegistryLemmas ---------------------------
(***************************************************************************)
(* What each registry method does to a consistent registry, for every set  *)
(* of resources and every snapshot, request and durable grant.             *)
(***************************************************************************)
EXTENDS RegistryOps, FiniteSetTheorems, TLAPS

(* A registry value is a record with exactly the members of the class.     *)
Members ==
  {"grants", "outcomes", "footprints", "occupancy", "committed", "committed_total",
   "next_fence", "incarnation", "live", "recovering"}

Shape(R) == DOMAIN R = Members

\* detach changes the index and the pools, and nothing else.
LEMMA DetachMembers ==
  ASSUME NEW R, Shape(R), NEW ids
  PROVE  LET D == detach(R, ids) IN
         /\ Shape(D)
         /\ D.grants = R.grants /\ D.outcomes = R.outcomes
         /\ D.next_fence = R.next_fence /\ D.incarnation = R.incarnation
         /\ D.live = R.live /\ D.recovering = R.recovering
         /\ D.footprints = [id \in DOMAIN R.footprints \ ids |-> R.footprints[id]]
         /\ D.occupancy = [r \in Ref |->
                     {o \in R.occupancy[r] :
                        ~ /\ o.id \in ids \intersect DOMAIN R.footprints
                          /\ r \in R.footprints[o.id]}]
         /\ D.committed \in [Ref -> 0..U64Max]
         /\ D.committed_total \in 0..U64Max
  BY RegistryAssumption DEF detach, Shape, Members, floor_at_zero

\* attach leaves everything but the index and the pools alone.
LEMMA AttachMembers ==
  ASSUME NEW R, Shape(R), NEW s, NEW g,
         R.committed \in [Ref -> 0..U64Max]
  PROVE  /\ Shape(attach(R, s, g))
         /\ attach(R, s, g).grants = R.grants
         /\ attach(R, s, g).outcomes = R.outcomes
         /\ attach(R, s, g).next_fence = R.next_fence
         /\ attach(R, s, g).incarnation = R.incarnation
         /\ attach(R, s, g).live = R.live
         /\ attach(R, s, g).recovering = R.recovering
         /\ attach(R, s, g).committed \in [Ref -> 0..U64Max]
         /\ attach(R, s, g).committed_total \in 0..U64Max
  BY RegistryAssumption
     DEF attach, Shape, Members, saturate

\* retire detaches, marks the grants and adjusts the two counters.
LEMMA RetireMembers ==
  ASSUME NEW R, Shape(R), NEW ids, NEW state
  PROVE  /\ Shape(retire(R, ids, state))
         /\ retire(R, ids, state).outcomes = R.outcomes
         /\ retire(R, ids, state).next_fence = R.next_fence
         /\ retire(R, ids, state).incarnation = R.incarnation
         /\ retire(R, ids, state).committed \in [Ref -> 0..U64Max]
         /\ retire(R, ids, state).committed_total \in 0..U64Max
         /\ retire(R, ids, state).live \in Nat
         /\ retire(R, ids, state).recovering \in Nat
<1> DEFINE D == detach(R, ids)
<1>1. /\ Shape(D) /\ D.outcomes = R.outcomes
      /\ D.next_fence = R.next_fence /\ D.incarnation = R.incarnation
      /\ D.committed \in [Ref -> 0..U64Max] /\ D.committed_total \in 0..U64Max
  BY DetachMembers, ZenonT(30)
<1> HIDE DEF D
<1> QED
  BY <1>1, RegistryAssumption DEF retire, Shape, Members, floor_at_zero, D

\* Only the state of the retired grants changes.
LEMMA RetireGrants ==
  ASSUME NEW R, Shape(R), R.grants \in [DOMAIN R.grants -> Grant],
         NEW ids, NEW state \in TerminalStates
  PROVE  /\ retire(R, ids, state).grants \in [DOMAIN R.grants -> Grant]
         /\ \A id \in DOMAIN R.grants :
              retire(R, ids, state).grants[id] =
                IF id \in ids THEN [R.grants[id] EXCEPT !.state = state] ELSE R.grants[id]
<1>1. Shape(detach(R, ids))
  BY DetachMembers, Zenon
<1>2. retire(R, ids, state).grants =
        [id \in DOMAIN R.grants |->
           IF id \in ids THEN [R.grants[id] EXCEPT !.state = state] ELSE R.grants[id]]
  BY <1>1 DEF retire, Shape, Members
<1> QED
  BY <1>2 DEF Grant, TerminalStates, GrantState

-----------------------------------------------------------------------------
(* The parts of the inductive invariant, as predicates of a registry       *)
(* value R and, where it matters, of the set X of restored identities.     *)

Typed(R) ==
  /\ Shape(R)
  /\ R.grants \in [DOMAIN R.grants -> Grant]
  /\ \A id \in DOMAIN R.grants : R.grants[id].id = id /\ id <= R.next_fence
  /\ R.committed \in [Ref -> 0..U64Max] /\ R.committed_total \in 0..U64Max
  /\ R.next_fence \in Nat /\ R.live \in Nat /\ R.recovering \in Nat
  /\ R.incarnation \in Nat

holders(R, r) == {i \in DOMAIN R.footprints : r \in R.footprints[i]}

Indexed(R) ==
  /\ R.footprints \in [DOMAIN R.footprints -> SUBSET Ref]
  /\ DOMAIN R.footprints \subseteq live_grants(R)
  /\ R.occupancy =
       [r \in Ref |-> {[id |-> id, mode |-> R.grants[id].mode] : id \in holders(R, r)}]

\* A grant that may be used holds exactly the resources its basis covers.
Armed(R) ==
  \A id \in DOMAIN R.grants :
    R.grants[id].state \in {"active", "suspended"} =>
      id \in DOMAIN R.footprints /\ R.footprints[id] = R.grants[id].authority_basis.scope

Compatible(R, X) ==
  \A i, j \in DOMAIN R.footprints :
    /\ i # j
    /\ occupant_conflicts(R.grants[i].mode, R.grants[j].mode)
    /\ R.footprints[i] \intersect R.footprints[j] # {}
    => {i, j} \subseteq X

\* What a step that issues nothing does to the table of holdings: it drops
\* some, keeps the others as they are and revives no grant.
Shrinks(R, T) ==
  /\ DOMAIN T.grants = DOMAIN R.grants
  /\ DOMAIN T.footprints \subseteq DOMAIN R.footprints
  /\ \A id \in DOMAIN T.footprints : T.footprints[id] = R.footprints[id]
  /\ \A id \in DOMAIN R.grants :
       T.grants[id].mode = R.grants[id].mode /\ (is_live(T, id) => is_live(R, id))

\* A step that adds the grant `id` and leaves the others as they are.
Grows(R, T, id) ==
  /\ id \notin DOMAIN R.grants /\ DOMAIN T.grants = DOMAIN R.grants \union {id}
  /\ DOMAIN R.footprints \subseteq DOMAIN T.footprints
  /\ DOMAIN T.footprints \subseteq DOMAIN R.footprints \union {id}
  /\ \A i \in DOMAIN R.footprints : T.footprints[i] = R.footprints[i]
  /\ \A i \in DOMAIN R.grants : T.grants[i] = R.grants[i]

\* Retiring live grants keeps the types.
LEMMA RetireTyped ==
  ASSUME NEW R, Typed(R), NEW ids, NEW state \in TerminalStates
  PROVE  Typed(retire(R, ids, state))
<1> DEFINE T == retire(R, ids, state)
<1>1. /\ Shape(T)
      /\ T.next_fence = R.next_fence /\ T.incarnation = R.incarnation
      /\ T.committed \in [Ref -> 0..U64Max] /\ T.committed_total \in 0..U64Max
      /\ T.live \in Nat /\ T.recovering \in Nat
  BY RetireMembers DEF Typed
<1>2. /\ T.grants \in [DOMAIN R.grants -> Grant]
      /\ \A id \in DOMAIN R.grants :
           T.grants[id] = IF id \in ids THEN [R.grants[id] EXCEPT !.state = state]
                                        ELSE R.grants[id]
  BY RetireGrants DEF Typed
<1> HIDE DEF T
<1>3. \A id \in DOMAIN T.grants : T.grants[id].id = id /\ id <= T.next_fence
  BY <1>1, <1>2, Zenon DEF Typed, Grant
<1> QED
  BY <1>1, <1>2, <1>3 DEF Typed, T

\* Retiring live grants leaves an exact index of the grants that remain.
LEMMA RetireIndexed ==
  ASSUME NEW R, Typed(R), Indexed(R),
         NEW ids \in SUBSET DOMAIN R.grants, NEW state \in TerminalStates
  PROVE  Indexed(retire(R, ids, state))
<1> DEFINE T == retire(R, ids, state)
<1>1. T.footprints = [id \in DOMAIN R.footprints \ ids |-> R.footprints[id]]
  BY DEF retire, detach, Typed, Shape, Members
<1>2. T.occupancy =
        [r \in Ref |-> {o \in R.occupancy[r] :
                          ~ /\ o.id \in ids \intersect DOMAIN R.footprints
                            /\ r \in R.footprints[o.id]}]
  BY DEF retire, detach, Typed, Shape, Members
<1>3. /\ T.grants \in [DOMAIN R.grants -> Grant]
      /\ \A id \in DOMAIN R.grants :
           T.grants[id] = IF id \in ids THEN [R.grants[id] EXCEPT !.state = state]
                                        ELSE R.grants[id]
  BY RetireGrants DEF Typed
<1> HIDE DEF T
<1>4. \A id \in DOMAIN R.grants : T.grants[id].mode = R.grants[id].mode
  BY <1>3, Zenon DEF Typed, Grant
<1>5. T.footprints \in [DOMAIN T.footprints -> SUBSET Ref]
  BY <1>1 DEF Indexed
<1>6. DOMAIN T.footprints \subseteq live_grants(T)
  BY <1>1, <1>3, Zenon DEF Indexed, live_grants, is_live
<1>7. ASSUME NEW r \in Ref
      PROVE  T.occupancy[r] =
               {[id |-> id, mode |-> T.grants[id].mode] : id \in holders(T, r)}
  <2>1. holders(T, r) = holders(R, r) \ ids
    BY <1>1 DEF holders
  <2>2. R.occupancy[r] =
          {[id |-> id, mode |-> R.grants[id].mode] : id \in holders(R, r)}
    BY DEF Indexed
  <2>3. holders(R, r) \subseteq DOMAIN R.grants
    BY DEF holders, Indexed, live_grants
  <2>4. T.occupancy[r] = {o \in R.occupancy[r] : o.id \notin ids}
    <3>1. \A o \in R.occupancy[r] : o.id \in holders(R, r)
      BY <2>2
    <3> QED
      BY <1>2, <3>1 DEF holders
  <2> QED
    BY <2>1, <2>2, <2>3, <2>4, <1>4
<1> QED
  BY <1>2, <1>5, <1>6, <1>7 DEF Indexed, T

\* Retiring grants cannot create a conflict, and leaves the others armed.
LEMMA RetireKeeps ==
  ASSUME NEW R, Typed(R), Indexed(R),
         NEW ids \in SUBSET DOMAIN R.grants, NEW state \in TerminalStates
  PROVE  /\ \A X : Compatible(R, X) => Compatible(retire(R, ids, state), X)
         /\ Armed(R) => Armed(retire(R, ids, state))
<1> DEFINE T == retire(R, ids, state)
<1>1. T.footprints = [id \in DOMAIN R.footprints \ ids |-> R.footprints[id]]
  BY DEF retire, detach, Typed, Shape, Members
<1>3. /\ T.grants \in [DOMAIN R.grants -> Grant]
      /\ \A id \in DOMAIN R.grants :
           T.grants[id] = IF id \in ids THEN [R.grants[id] EXCEPT !.state = state]
                                        ELSE R.grants[id]
  BY RetireGrants DEF Typed
<1> HIDE DEF T
<1>4. DOMAIN T.footprints \subseteq DOMAIN R.grants \ ids
  BY <1>1 DEF Indexed, live_grants
<1>5. ASSUME NEW X, Compatible(R, X) PROVE Compatible(T, X)
  <2>1. \A id \in DOMAIN T.footprints :
           /\ id \in DOMAIN R.footprints
           /\ T.footprints[id] = R.footprints[id]
           /\ T.grants[id] = R.grants[id]
    BY <1>1, <1>3, <1>4, Zenon
  <2> QED
    BY <2>1, <1>5 DEF Compatible
<1>6. ASSUME Armed(R) PROVE Armed(T)
  BY <1>1, <1>3, <1>6, Zenon DEF Armed, Grant, TerminalStates
<1> QED
  BY <1>5, <1>6 DEF T

-----------------------------------------------------------------------------
(* Adding a grant.  Grown(R, s, g, T): T is R with g stored and attached   *)
(* against snapshot s.                                                     *)

Grown(R, s, g, T) ==
  /\ T.grants = [id \in DOMAIN R.grants \union {g.id} |->
                   IF id = g.id THEN g ELSE R.grants[id]]
  /\ T.footprints = attach(R, s, g).footprints
  /\ T.occupancy = attach(R, s, g).occupancy

\* The new grant is indexed under all of its scope and the others stay.
LEMMA GrownIndexed ==
  ASSUME NEW R, Typed(R), Indexed(R), NEW s, is_snapshot(s),
         NEW g \in Grant, g.id \notin DOMAIN R.grants, is_live_state(g.state),
         NEW T, Grown(R, s, g, T)
  PROVE  Indexed(T)
<1>1. /\ T.grants \in [DOMAIN R.grants \union {g.id} -> Grant]
      /\ T.grants[g.id] = g
      /\ \A id \in DOMAIN R.grants : T.grants[id] = R.grants[id]
  BY DEF Grown, Typed
<1>2. DOMAIN R.footprints \subseteq DOMAIN R.grants
  BY DEF Indexed, live_grants
<1>3. CASE g.scope \in DOMAIN s.scope
  <2> DEFINE F == s.scope[g.scope]
  <2>1. T.footprints = [id \in DOMAIN R.footprints \union {g.id} |->
                          IF id = g.id THEN F ELSE R.footprints[id]]
    BY <1>3 DEF Grown, attach, Typed, Shape, Members, scope_resolves, expand_scope
  <2>2. T.occupancy = [r \in Ref |->
                         IF r \in F
                         THEN R.occupancy[r] \union {[id |-> g.id, mode |-> g.mode]}
                         ELSE R.occupancy[r]]
    BY <1>3 DEF Grown, attach, Typed, Shape, Members, scope_resolves, expand_scope
  <2>3. F \in SUBSET Ref
    BY <1>3 DEF is_snapshot
  <2> HIDE DEF F
  <2>4. T.footprints \in [DOMAIN T.footprints -> SUBSET Ref]
    BY <2>1, <2>3 DEF Indexed
  <2>5. DOMAIN T.footprints \subseteq live_grants(T)
    BY <1>1, <2>1 DEF Indexed, live_grants, is_live
  <2>6. ASSUME NEW r \in Ref
        PROVE  T.occupancy[r] =
                 {[id |-> id, mode |-> T.grants[id].mode] : id \in holders(T, r)}
    <3>1. holders(T, r) = holders(R, r) \union (IF r \in F THEN {g.id} ELSE {})
      BY <1>2, <2>1 DEF holders
    <3>2. R.occupancy[r] =
            {[id |-> id, mode |-> R.grants[id].mode] : id \in holders(R, r)}
      BY DEF Indexed
    <3>3. \A id \in holders(R, r) : T.grants[id].mode = R.grants[id].mode
      BY <1>1, <1>2 DEF holders
    <3> QED
      BY <1>1, <2>2, <3>1, <3>2, <3>3
  <2> QED
    BY <2>2, <2>4, <2>5, <2>6 DEF Indexed
<1>4. CASE g.scope \notin DOMAIN s.scope
  <2>1. T.footprints = R.footprints
    BY <1>4 DEF Grown, attach, Typed, Shape, Members, scope_resolves
  <2>2. T.occupancy = [r \in Ref |-> R.occupancy[r]]
    BY <1>4 DEF Grown, attach, Typed, Shape, Members, scope_resolves
  <2>3. DOMAIN T.footprints \subseteq live_grants(T)
    BY <1>1, <2>1 DEF Indexed, live_grants, is_live
  <2>4. ASSUME NEW r \in Ref
        PROVE  T.occupancy[r] =
                 {[id |-> id, mode |-> T.grants[id].mode] : id \in holders(T, r)}
    <3>1. holders(T, r) = holders(R, r)
      BY <2>1 DEF holders
    <3>2. \A id \in holders(R, r) : T.grants[id].mode = R.grants[id].mode
      BY <1>1, <1>2 DEF holders
    <3> QED
      BY <2>2, <3>1, <3>2 DEF Indexed
  <2> QED
    BY <2>1, <2>2, <2>3, <2>4 DEF Indexed
<1> QED
  BY <1>3, <1>4

\* A grant that the index shows no conflict for conflicts with no live grant.
LEMMA GrownCompatible ==
  ASSUME NEW R, Typed(R), Indexed(R), NEW s, is_snapshot(s),
         NEW g \in Grant, g.id \notin DOMAIN R.grants,
         g.scope \in DOMAIN s.scope,
         ~conflicts_in_index(R, s.scope[g.scope], g.mode),
         NEW T, Grown(R, s, g, T), NEW X, Compatible(R, X)
  PROVE  Compatible(T, X)
<1> DEFINE F == s.scope[g.scope]
<1>1. /\ T.grants[g.id] = g
      /\ \A id \in DOMAIN R.grants : T.grants[id] = R.grants[id]
  BY DEF Grown, Typed
<1>2. DOMAIN R.footprints \subseteq DOMAIN R.grants
  BY DEF Indexed, live_grants
<1>3. T.footprints = [id \in DOMAIN R.footprints \union {g.id} |->
                        IF id = g.id THEN F ELSE R.footprints[id]]
  BY DEF Grown, attach, Typed, Shape, Members, scope_resolves, expand_scope
<1>4. F \in SUBSET Ref
  BY DEF is_snapshot
<1>5. ASSUME NEW j \in DOMAIN R.footprints, NEW r \in F, r \in R.footprints[j]
      PROVE  ~occupant_conflicts(g.mode, R.grants[j].mode)
  <2>1. j \in live_grants(R)
    BY DEF Indexed
  <2>2. [id |-> j, mode |-> R.grants[j].mode] \in R.occupancy[r]
    BY <1>4, <1>5 DEF Indexed, holders
  <2> QED
    BY <2>1, <2>2 DEF conflicts_in_index
<1> HIDE DEF F
<1>6. \A j \in DOMAIN R.footprints :
        occupant_conflicts(g.mode, R.grants[j].mode) => F \intersect R.footprints[j] = {}
  BY <1>5
<1>7. \A j \in DOMAIN R.footprints : T.footprints[j] = R.footprints[j]
  BY <1>2, <1>3
<1>8. T.footprints[g.id] = F /\ DOMAIN T.footprints = DOMAIN R.footprints \union {g.id}
  BY <1>3
<1>9. \A i, j : occupant_conflicts(i, j) = occupant_conflicts(j, i)
  BY DEF occupant_conflicts
<1> QED
  BY <1>1, <1>2, <1>6, <1>7, <1>8, <1>9 DEF Compatible

-----------------------------------------------------------------------------
(* What every operation keeps, and the operations one by one.              *)

Consistent(R, X) == Typed(R) /\ Indexed(R) /\ Armed(R) /\ Compatible(R, X)

\* Releases, expiries and fences (retire_grant with detach) keep everything.
LEMMA RetireConsistent ==
  ASSUME NEW R, NEW X, Consistent(R, X),
         NEW ids \in SUBSET DOMAIN R.grants, NEW state \in TerminalStates
  PROVE  /\ Consistent(retire(R, ids, state), X)
         /\ DOMAIN retire(R, ids, state).grants = DOMAIN R.grants
         /\ in_state(retire(R, ids, state), "recovering") =
              in_state(R, "recovering") \ ids
<1>1. Typed(R) /\ Indexed(R) /\ Armed(R) /\ Compatible(R, X)
  BY DEF Consistent
<1>2. Consistent(retire(R, ids, state), X)
  BY <1>1, RetireTyped, RetireIndexed, RetireKeeps DEF Consistent
<1>3. /\ retire(R, ids, state).grants \in [DOMAIN R.grants -> Grant]
      /\ \A id \in DOMAIN R.grants :
           retire(R, ids, state).grants[id] =
             IF id \in ids THEN [R.grants[id] EXCEPT !.state = state] ELSE R.grants[id]
  BY <1>1, RetireGrants DEF Typed
<1>4. \A id \in DOMAIN R.grants :
        retire(R, ids, state).grants[id].state =
          IF id \in ids THEN state ELSE R.grants[id].state
  BY <1>1, <1>3, Zenon DEF Typed, Grant
<1> QED
  BY <1>2, <1>3, <1>4 DEF in_state, TerminalStates

\* Retiring only drops.
LEMMA RetireShrinks ==
  ASSUME NEW R, NEW X, Consistent(R, X),
         NEW ids \in SUBSET DOMAIN R.grants, NEW state \in TerminalStates
  PROVE  Shrinks(R, retire(R, ids, state))
<1> DEFINE T == retire(R, ids, state)
<1>1. T.footprints = [id \in DOMAIN R.footprints \ ids |-> R.footprints[id]]
  BY DEF retire, detach, Consistent, Typed, Shape, Members
<1>2. /\ DOMAIN T.grants = DOMAIN R.grants
      /\ \A id \in DOMAIN R.grants :
           T.grants[id] = IF id \in ids THEN [R.grants[id] EXCEPT !.state = state]
                                        ELSE R.grants[id]
  BY RetireGrants DEF Consistent, Typed
<1> HIDE DEF T
<1>3. ASSUME NEW id \in DOMAIN R.grants
      PROVE  T.grants[id].mode = R.grants[id].mode /\ (is_live(T, id) => is_live(R, id))
  <2>1. R.grants[id] \in Grant
    BY DEF Consistent, Typed
  <2>2. id \in ids => T.grants[id].mode = R.grants[id].mode /\ T.grants[id].state = state
    BY <1>2, <2>1, Zenon DEF Grant
  <2>3. ~is_live_state(state)
    BY DEF TerminalStates, is_live_state
  <2> QED
    BY <1>2, <2>2, <2>3, Zenon DEF is_live
<1> QED
  BY <1>1, <1>2, <1>3 DEF Shrinks, T

\* Moving grants between "active" and "suspended", or between terminal states,
\* changes nothing the invariant looks at.
LEMMA SetStateConsistent ==
  ASSUME NEW R, NEW X, Consistent(R, X),
         NEW ids \in SUBSET DOMAIN R.grants, NEW state \in GrantState,
         state # "recovering",
         \A id \in ids : is_live_state(state) = is_live_state(R.grants[id].state),
         \A id \in ids : state \in {"active", "suspended"} =>
                            R.grants[id].state \in {"active", "suspended"}
  PROVE  /\ Consistent(set_state(R, ids, state), X)
         /\ DOMAIN set_state(R, ids, state).grants = DOMAIN R.grants
         /\ in_state(set_state(R, ids, state), "recovering") =
              in_state(R, "recovering") \ ids
         /\ Shrinks(R, set_state(R, ids, state))
<1> DEFINE T == set_state(R, ids, state)
<1>1. /\ Shape(T)
      /\ T.grants = [id \in DOMAIN R.grants |->
                       IF id \in ids THEN [R.grants[id] EXCEPT !.state = state]
                                     ELSE R.grants[id]]
      /\ T.footprints = R.footprints /\ T.occupancy = R.occupancy
      /\ T.committed = R.committed /\ T.committed_total = R.committed_total
      /\ T.next_fence = R.next_fence /\ T.incarnation = R.incarnation
      /\ T.live = R.live /\ T.recovering = R.recovering
  BY DEF Consistent, Typed, set_state, Shape, Members
<1> HIDE DEF T
<1>2. R.grants \in [DOMAIN R.grants -> Grant]
  BY DEF Consistent, Typed
<1>3. /\ T.grants \in [DOMAIN R.grants -> Grant]
      /\ \A id \in DOMAIN R.grants :
           /\ T.grants[id].id = R.grants[id].id
           /\ T.grants[id].mode = R.grants[id].mode
           /\ T.grants[id].authority_basis = R.grants[id].authority_basis
           /\ T.grants[id].state = IF id \in ids THEN state ELSE R.grants[id].state
  BY <1>1, <1>2 DEF Grant
<1>4. Typed(T)
  BY <1>1, <1>3 DEF Consistent, Typed
<1>5. Indexed(T)
  <2>1. DOMAIN T.footprints \subseteq live_grants(T)
    BY <1>1, <1>3 DEF Consistent, Indexed, live_grants, is_live
  <2>2. ASSUME NEW r \in Ref
        PROVE  T.occupancy[r] =
                 {[id |-> id, mode |-> T.grants[id].mode] : id \in holders(T, r)}
    BY <1>1, <1>3 DEF Consistent, Indexed, holders, live_grants
  <2> QED
    BY <1>1, <2>1, <2>2, Zenon DEF Consistent, Indexed
<1>6. Armed(T)
  BY <1>1, <1>3 DEF Consistent, Armed
<1>7. Compatible(T, X)
  BY <1>1, <1>3 DEF Consistent, Compatible, Indexed, live_grants
<1>8. Shrinks(R, T)
  BY <1>1, <1>3 DEF Shrinks, is_live
<1> QED
  BY <1>1, <1>3, <1>4, <1>5, <1>6, <1>7, <1>8 DEF Consistent, in_state, T

\* The invariant reads neither the outcomes nor the exact counters.
LEMMA FrameConsistent ==
  ASSUME NEW R, NEW X, Consistent(R, X), NEW T, Shape(T),
         T.grants = R.grants, T.footprints = R.footprints, T.occupancy = R.occupancy,
         T.committed = R.committed, T.committed_total = R.committed_total,
         T.live = R.live, T.recovering = R.recovering,
         T.next_fence \in Nat, T.next_fence >= R.next_fence, T.incarnation \in Nat
  PROVE  /\ Consistent(T, X)
         /\ in_state(T, "recovering") = in_state(R, "recovering")
         /\ Shrinks(R, T)
<1>1. Typed(T)
  BY DEF Consistent, Typed, Grant
<1>2. Indexed(T)
  BY DEF Consistent, Indexed, holders, live_grants, is_live
<1>3. Armed(T)
  BY DEF Consistent, Armed
<1>4. Compatible(T, X)
  BY DEF Consistent, Compatible
<1>5. Shrinks(R, T)
  BY DEF Shrinks, is_live
<1> QED
  BY <1>1, <1>2, <1>3, <1>4, <1>5 DEF Consistent, in_state

\* Remembering an outcome touches only the outcomes.
LEMMA RememberConsistent ==
  ASSUME NEW R, NEW X, Consistent(R, X), NEW request, NEW outcome
  PROVE  /\ Consistent(remember(R, request, outcome), X)
         /\ remember(R, request, outcome).grants = R.grants
         /\ in_state(remember(R, request, outcome), "recovering") =
              in_state(R, "recovering")
         /\ Shrinks(R, remember(R, request, outcome))
<1> DEFINE T == remember(R, request, outcome)
<1>1. /\ Shape(T)
      /\ T.grants = R.grants /\ T.footprints = R.footprints
      /\ T.occupancy = R.occupancy /\ T.committed = R.committed
      /\ T.committed_total = R.committed_total /\ T.live = R.live
      /\ T.recovering = R.recovering /\ T.next_fence = R.next_fence
      /\ T.incarnation = R.incarnation
  BY DEF Consistent, Typed, remember, Shape, Members
<1>2. R.next_fence \in Nat /\ R.incarnation \in Nat
  BY DEF Consistent, Typed
<1> HIDE DEF T
<1>3. /\ Consistent(T, X) /\ in_state(T, "recovering") = in_state(R, "recovering")
      /\ Shrinks(R, T)
  BY <1>1, <1>2, FrameConsistent
<1> QED
  BY <1>1, <1>3 DEF T

\* The basis digest of a scope determines the scope.
LEMMA BasisTyped ==
  ASSUME NEW s, is_snapshot(s), NEW F \in SUBSET Ref
  PROVE  /\ authority_basis_digest(s, F) \in Basis
         /\ authority_basis_digest(s, F).scope = F
<1>1. s.epoch \in Nat
  BY DEF is_snapshot
<1>2. \A q \in DOMAIN s.res : s.res[q] \in ResourceState
  BY DEF is_snapshot
<1> QED
  BY <1>1, <1>2 DEF authority_basis_digest, Basis, ResourceState

\* The pools a root draws from are resources.
LEMMA PoolTyped ==
  ASSUME NEW s, is_snapshot(s), NEW root \in DOMAIN s.res
  PROVE  capacity_pool_refs(s, root) \in SUBSET Ref
<1>1. root \in Ref /\ s.res[root] \in ResourceState
  BY DEF is_snapshot
<1>2. \A o \in s.res[root].owners : o.device \in Ref
  BY <1>1 DEF ResourceState, Owner
<1> QED
  BY <1>1, <1>2, RegistryAssumption DEF capacity_pool_refs

Req == [request : RequestId, scope : Ref, mode : GrantMode, capacity : Nat, ttl : Nat,
        wellformed : BOOLEAN]

\* The grant acquire builds, field by field.
LEMMA NewGrantTyped ==
  ASSUME NEW R, R.next_fence \in Nat, NEW s, is_snapshot(s), NEW q \in Req,
         NEW inc \in Nat, NEW t \in Nat, t + q.ttl <= U64Max,
         q.scope \in DOMAIN s.scope, q.scope \in DOMAIN s.res
  PROVE  /\ new_grant(R, s, q, inc, t) \in Grant
         /\ new_grant(R, s, q, inc, t).id = R.next_fence + 1
         /\ new_grant(R, s, q, inc, t).request = q.request
         /\ new_grant(R, s, q, inc, t).state = "active"
         /\ new_grant(R, s, q, inc, t).scope = q.scope
         /\ new_grant(R, s, q, inc, t).mode = q.mode
         /\ new_grant(R, s, q, inc, t).authority_basis.scope = s.scope[q.scope]
<1> DEFINE F == expand_scope(s, q.scope)
<1>1. F = s.scope[q.scope] /\ F \in SUBSET Ref
  BY DEF expand_scope, is_snapshot
<1>2. authority_basis_digest(s, F) \in Basis /\ authority_basis_digest(s, F).scope = F
  BY <1>1, BasisTyped
<1>3. capacity_pool_refs(s, q.scope) \in SUBSET Ref
  BY PoolTyped
<1>4. s.generation \in Nat /\ s.epoch \in Nat
  BY DEF is_snapshot
<1>5. t + q.ttl \in 0..U64Max /\ R.next_fence + 1 \in Nat \ {0}
  BY RegistryAssumption DEF Req
<1> HIDE DEF F
<1> QED
  BY <1>1, <1>2, <1>3, <1>4, <1>5 DEF new_grant, Grant, GrantState, Req, F

\* The members of the registry after a grant was issued.
LEMMA IssueMembers ==
  ASSUME NEW R, Typed(R), NEW s, NEW g \in Grant
  PROVE  /\ Shape(issue(R, s, g))
         /\ Grown(R, s, g, issue(R, s, g))
         /\ issue(R, s, g).next_fence = g.id
         /\ issue(R, s, g).incarnation = R.incarnation
         /\ issue(R, s, g).live \in Nat
         /\ issue(R, s, g).recovering = R.recovering
         /\ issue(R, s, g).committed \in [Ref -> 0..U64Max]
         /\ issue(R, s, g).committed_total \in 0..U64Max
<1> DEFINE A == attach(R, s, g)
<1>1. /\ Shape(A) /\ A.grants = R.grants
      /\ A.incarnation = R.incarnation /\ A.recovering = R.recovering
      /\ A.committed \in [Ref -> 0..U64Max] /\ A.committed_total \in 0..U64Max
  BY AttachMembers DEF Typed
<1>2. R.live + 1 \in Nat
  BY DEF Typed
<1> HIDE DEF A
<1> QED
  BY <1>1, <1>2 DEF issue, remember, add_live, put_grant, Grown, Shape, Members, A

\* Issuing a grant that passed the checks of acquire keeps the invariant.
LEMMA IssueConsistent ==
  ASSUME NEW R, NEW X, Consistent(R, X), NEW s, is_snapshot(s), NEW g \in Grant,
         g.id = R.next_fence + 1, g.state = "active",
         g.scope \in DOMAIN s.scope, g.authority_basis.scope = s.scope[g.scope],
         ~conflicts_in_index(R, s.scope[g.scope], g.mode)
  PROVE  /\ Consistent(issue(R, s, g), X)
         /\ DOMAIN issue(R, s, g).grants = DOMAIN R.grants \union {g.id}
         /\ in_state(issue(R, s, g), "recovering") = in_state(R, "recovering")
         /\ Grows(R, issue(R, s, g), g.id) /\ g.id \in DOMAIN issue(R, s, g).footprints
<1> DEFINE T == issue(R, s, g)
<1>0. Typed(R) /\ Indexed(R) /\ Armed(R) /\ Compatible(R, X)
  BY DEF Consistent
<1>1. /\ Shape(T) /\ Grown(R, s, g, T) /\ T.next_fence = g.id
      /\ T.incarnation = R.incarnation /\ T.recovering = R.recovering
      /\ T.live \in Nat
      /\ T.committed \in [Ref -> 0..U64Max] /\ T.committed_total \in 0..U64Max
  BY <1>0, IssueMembers
<1> HIDE DEF T
<1>2. g.id \notin DOMAIN R.grants
  BY <1>0 DEF Typed
<1>3. /\ T.grants \in [DOMAIN R.grants \union {g.id} -> Grant]
      /\ T.grants[g.id] = g
      /\ \A id \in DOMAIN R.grants : T.grants[id] = R.grants[id]
  BY <1>0, <1>1, <1>2 DEF Grown, Typed
<1>4. Typed(T)
  <2>1. \A id \in DOMAIN R.grants : id \in Nat
    BY <1>0 DEF Typed, Grant
  <2>2. \A id \in DOMAIN R.grants : id <= T.next_fence
    BY <1>0, <1>1, <2>1 DEF Typed
  <2>3. \A id \in DOMAIN T.grants : T.grants[id].id = id /\ id <= T.next_fence
    BY <1>0, <1>1, <1>3, <2>2 DEF Typed
  <2> QED
    BY <1>0, <1>1, <1>3, <2>3 DEF Typed
<1>5. Indexed(T)
  BY <1>0, <1>1, <1>2, GrownIndexed DEF is_live_state
<1>6. Compatible(T, X)
  BY <1>0, <1>1, <1>2, GrownCompatible
<1>7. Armed(T)
  <2>1. T.footprints = [id \in DOMAIN R.footprints \union {g.id} |->
                          IF id = g.id THEN s.scope[g.scope] ELSE R.footprints[id]]
    BY <1>0, <1>1 DEF Grown, attach, Typed, Shape, Members, scope_resolves, expand_scope
  <2> QED
    BY <1>0, <1>2, <1>3, <2>1 DEF Armed, Indexed, live_grants
<1>8. Grows(R, T, g.id) /\ g.id \in DOMAIN T.footprints
  <2>1. /\ DOMAIN T.footprints = DOMAIN R.footprints \union {g.id}
        /\ \A id \in DOMAIN R.footprints : id # g.id => T.footprints[id] = R.footprints[id]
    BY <1>0, <1>1 DEF Grown, attach, Typed, Shape, Members, scope_resolves, expand_scope
  <2>2. DOMAIN R.footprints \subseteq DOMAIN R.grants
    BY <1>0 DEF Indexed, live_grants
  <2> QED
    BY <1>2, <1>3, <2>1, <2>2 DEF Grows
<1> QED
  BY <1>2, <1>3, <1>4, <1>5, <1>6, <1>7, <1>8 DEF Consistent, in_state, T

\* What acquire has established when it grants.
LEMMA AcquireChecks ==
  ASSUME NEW R, NEW s, NEW q, NEW t, NEW allow, acquire_code(R, s, q, t, allow) = "ok"
  PROVE  /\ q.scope \in DOMAIN s.scope /\ q.scope \in DOMAIN s.res
         /\ ~conflicts_in_index(R, s.scope[q.scope], q.mode)
         /\ ~(t + q.ttl > U64Max)
  BY DEF acquire_code, scope_resolves, expand_scope

\* The four ways acquire can leave the registry.
LEMMA AcquireCases ==
  ASSUME NEW R, NEW s, NEW q, NEW inc, NEW t, NEW allow
  PROVE  \/ acquire(R, s, q, inc, t, allow).reg = R
         \/ acquire(R, s, q, inc, t, allow).reg =
              [R EXCEPT !.next_fence = R.next_fence + 1]
         \/ \E o : acquire(R, s, q, inc, t, allow).reg = remember(R, q.request, o)
         \/ /\ acquire_code(R, s, q, t, allow) = "ok"
            /\ q.request \notin DOMAIN R.outcomes
            /\ acquire(R, s, q, inc, t, allow).reg =
                 issue(R, s, new_grant(R, s, q, inc, t))
  BY DEF acquire, replay

\* acquire keeps the invariant; identities it adds are new and are not restored.
LEMMA AcquireConsistent ==
  ASSUME NEW R, NEW X, Consistent(R, X), NEW s, is_snapshot(s), NEW q \in Req,
         NEW inc \in Nat, NEW t \in Nat, NEW allow
  PROVE  /\ Consistent(acquire(R, s, q, inc, t, allow).reg, X)
         /\ in_state(acquire(R, s, q, inc, t, allow).reg, "recovering") =
              in_state(R, "recovering")
         /\ \/ Shrinks(R, acquire(R, s, q, inc, t, allow).reg)
            \/ \E id : /\ Grows(R, acquire(R, s, q, inc, t, allow).reg, id)
                       /\ id \in DOMAIN acquire(R, s, q, inc, t, allow).reg.footprints
<1> DEFINE T == acquire(R, s, q, inc, t, allow).reg
<1>1. CASE T = R
  BY <1>1 DEF Shrinks
<1>2. CASE T = [R EXCEPT !.next_fence = R.next_fence + 1]
  <2>1. /\ Shape(T)
        /\ T.grants = R.grants /\ T.footprints = R.footprints
        /\ T.occupancy = R.occupancy /\ T.committed = R.committed
        /\ T.committed_total = R.committed_total /\ T.live = R.live
        /\ T.recovering = R.recovering /\ T.next_fence = R.next_fence + 1
        /\ T.incarnation = R.incarnation
    BY <1>2 DEF Consistent, Typed, Shape, Members
  <2>2. T.next_fence \in Nat /\ T.next_fence >= R.next_fence /\ T.incarnation \in Nat
    BY <2>1 DEF Consistent, Typed
  <2> HIDE DEF T
  <2>3. /\ Consistent(T, X) /\ in_state(T, "recovering") = in_state(R, "recovering")
        /\ Shrinks(R, T)
    BY <2>1, <2>2, FrameConsistent
  <2> QED
    BY <2>1, <2>3 DEF T
<1>3. CASE \E o : T = remember(R, q.request, o)
  BY <1>3, RememberConsistent
<1>4. CASE /\ acquire_code(R, s, q, t, allow) = "ok"
           /\ T = issue(R, s, new_grant(R, s, q, inc, t))
  <2> DEFINE g == new_grant(R, s, q, inc, t)
  <2>1. /\ q.scope \in DOMAIN s.scope /\ q.scope \in DOMAIN s.res
        /\ ~conflicts_in_index(R, s.scope[q.scope], q.mode)
        /\ ~(t + q.ttl > U64Max)
    BY <1>4, AcquireChecks
  <2>2. t + q.ttl <= U64Max /\ R.next_fence \in Nat
    BY <2>1, RegistryAssumption DEF Req, Consistent, Typed
  <2>3. /\ g \in Grant /\ g.id = R.next_fence + 1 /\ g.state = "active"
        /\ g.scope = q.scope /\ g.mode = q.mode
        /\ g.authority_basis.scope = s.scope[q.scope]
    <3>1. /\ new_grant(R, s, q, inc, t) \in Grant
          /\ new_grant(R, s, q, inc, t).id = R.next_fence + 1
          /\ new_grant(R, s, q, inc, t).state = "active"
          /\ new_grant(R, s, q, inc, t).scope = q.scope
          /\ new_grant(R, s, q, inc, t).mode = q.mode
          /\ new_grant(R, s, q, inc, t).authority_basis.scope = s.scope[q.scope]
      BY <2>1, <2>2, NewGrantTyped, SMTT(60)
    <3> QED
      BY <3>1
  <2> HIDE DEF g
  <2>4. /\ Consistent(issue(R, s, g), X)
        /\ in_state(issue(R, s, g), "recovering") = in_state(R, "recovering")
        /\ Grows(R, issue(R, s, g), g.id) /\ g.id \in DOMAIN issue(R, s, g).footprints
    BY <2>1, <2>3, IssueConsistent
  <2> QED
    BY <1>4, <2>4 DEF g
<1> QED
  BY <1>1, <1>2, <1>3, <1>4, AcquireCases

\* Renewing moves a deadline and nothing else.
LEMMA RenewConsistent ==
  ASSUME NEW R, NEW X, Consistent(R, X), NEW tok, tok.grant \in DOMAIN R.grants,
         NEW ttl \in Nat, NEW t \in Nat, t + ttl <= U64Max
  PROVE  /\ Consistent(renew(R, tok, ttl, t), X)
         /\ DOMAIN renew(R, tok, ttl, t).grants = DOMAIN R.grants
         /\ in_state(renew(R, tok, ttl, t), "recovering") = in_state(R, "recovering")
         /\ Shrinks(R, renew(R, tok, ttl, t))
<1> DEFINE T == renew(R, tok, ttl, t)
<1>1. /\ Shape(T)
      /\ T.grants = [R.grants EXCEPT ![tok.grant] =
                       [R.grants[tok.grant] EXCEPT !.expires_at = t + ttl]]
      /\ T.footprints = R.footprints /\ T.occupancy = R.occupancy
      /\ T.committed = R.committed /\ T.committed_total = R.committed_total
      /\ T.next_fence = R.next_fence /\ T.incarnation = R.incarnation
      /\ T.live = R.live /\ T.recovering = R.recovering
  BY DEF Consistent, Typed, renew, Shape, Members
<1> HIDE DEF T
<1>2. R.grants \in [DOMAIN R.grants -> Grant] /\ t + ttl \in 0..U64Max
  BY RegistryAssumption DEF Consistent, Typed
<1>3. /\ T.grants \in [DOMAIN R.grants -> Grant]
      /\ \A id \in DOMAIN R.grants :
           /\ T.grants[id].id = R.grants[id].id
           /\ T.grants[id].mode = R.grants[id].mode
           /\ T.grants[id].authority_basis = R.grants[id].authority_basis
           /\ T.grants[id].state = R.grants[id].state
  <2> DEFINE g == R.grants[tok.grant]
             h == [g EXCEPT !.expires_at = t + ttl]
  <2>1. g \in Grant
    BY <1>2
  <2>2. /\ h \in Grant /\ h.id = g.id /\ h.mode = g.mode /\ h.state = g.state
        /\ h.authority_basis = g.authority_basis
    BY <1>2, <2>1 DEF Grant
  <2> HIDE DEF h
  <2>3. T.grants = [R.grants EXCEPT ![tok.grant] = h]
    BY <1>1 DEF h
  <2> QED
    BY <1>2, <2>2, <2>3
<1>4. Typed(T)
  BY <1>1, <1>3 DEF Consistent, Typed
<1>5. Indexed(T)
  <2>1. DOMAIN T.footprints \subseteq live_grants(T)
    BY <1>1, <1>3 DEF Consistent, Indexed, live_grants, is_live
  <2>2. ASSUME NEW r \in Ref
        PROVE  T.occupancy[r] =
                 {[id |-> id, mode |-> T.grants[id].mode] : id \in holders(T, r)}
    BY <1>1, <1>3 DEF Consistent, Indexed, holders, live_grants
  <2> QED
    BY <1>1, <2>1, <2>2 DEF Consistent, Indexed
<1>6. Armed(T)
  BY <1>1, <1>3 DEF Consistent, Armed
<1>7. Compatible(T, X)
  BY <1>1, <1>3 DEF Consistent, Compatible, Indexed, live_grants
<1>8. Shrinks(R, T)
  BY <1>1, <1>3 DEF Shrinks, is_live
<1> QED
  BY <1>1, <1>3, <1>4, <1>5, <1>6, <1>7, <1>8 DEF Consistent, in_state, T

\* Before it is revalidated, a restored grant whose scope resolves holds what
\* its scope expands to in the snapshot of the start.
Pending(R, s) ==
  \A id \in in_state(R, "recovering") :
    R.grants[id].scope \in DOMAIN s.scope =>
      id \in DOMAIN R.footprints /\ R.footprints[id] = s.scope[R.grants[id].scope]

\* Retiring grants leaves those still to be revalidated as they are.
LEMMA RetirePending ==
  ASSUME NEW R, NEW X, Consistent(R, X), NEW s, Pending(R, s),
         NEW ids \in SUBSET DOMAIN R.grants, NEW state \in TerminalStates
  PROVE  Pending(retire(R, ids, state), s)
<1> DEFINE T == retire(R, ids, state)
<1>1. T.footprints = [id \in DOMAIN R.footprints \ ids |-> R.footprints[id]]
  BY DEF retire, detach, Consistent, Typed, Shape, Members
<1>2. \A id \in DOMAIN R.grants :
        T.grants[id] = IF id \in ids THEN [R.grants[id] EXCEPT !.state = state]
                                     ELSE R.grants[id]
  BY RetireGrants DEF Consistent, Typed
<1>3. in_state(T, "recovering") = in_state(R, "recovering") \ ids
  BY RetireConsistent
<1> HIDE DEF T
<1>4. \A id \in in_state(T, "recovering") : T.grants[id] = R.grants[id]
  BY <1>2, <1>3, Zenon DEF in_state
<1>5. Pending(T, s)
  BY <1>1, <1>3, <1>4 DEF Pending
<1> QED
  BY <1>5 DEF T

\* When every grant is restored, compatibility asks nothing.
LEMMA AllRestored ==
  ASSUME NEW R, Indexed(R), NEW X, DOMAIN R.grants \subseteq X
  PROVE  Compatible(R, X)
  BY DEF Indexed, live_grants, Compatible

\* A recovered grant is added in "recovering" and indexed against the snapshot.
LEMMA InstallLive ==
  ASSUME NEW R, NEW X, Consistent(R, X), NEW s, is_snapshot(s), Pending(R, s),
         NEW g \in Grant, g.id \notin DOMAIN R.grants, g.state = "recovering",
         NEW T, Shape(T), Grown(R, s, g, T),
         T.next_fence \in Nat, T.next_fence >= R.next_fence, g.id <= T.next_fence,
         T.incarnation \in Nat, T.live \in Nat, T.recovering \in Nat,
         T.committed \in [Ref -> 0..U64Max], T.committed_total \in 0..U64Max
  PROVE  /\ Typed(T) /\ Indexed(T) /\ Armed(T) /\ Pending(T, s)
         /\ DOMAIN T.grants = DOMAIN R.grants \union {g.id}
<1>0. Typed(R) /\ Indexed(R) /\ Armed(R)
  BY DEF Consistent
<1>3. Grown(R, s, g, T)
  OBVIOUS
<1>4. /\ T.grants \in [DOMAIN R.grants \union {g.id} -> Grant]
      /\ T.grants[g.id] = g
      /\ \A id \in DOMAIN R.grants : T.grants[id] = R.grants[id]
  BY <1>0, <1>3 DEF Grown, Typed
<1>5. Typed(T)
  <2>1. \A id \in DOMAIN R.grants : id \in Nat
    BY <1>0 DEF Typed, Grant
  <2>2. \A id \in DOMAIN R.grants : id <= T.next_fence
    BY <1>0, <1>3, <2>1 DEF Typed
  <2>3. \A id \in DOMAIN T.grants : T.grants[id].id = id /\ id <= T.next_fence
    BY <1>0, <1>3, <1>4, <2>2 DEF Typed
  <2> QED
    BY <1>0, <1>3, <1>4, <2>3 DEF Typed
<1>6. Indexed(T)
  BY <1>0, <1>3, GrownIndexed DEF is_live_state
<1>7. \A id \in DOMAIN R.footprints :
        id \in DOMAIN T.footprints /\ T.footprints[id] = R.footprints[id]
  <2>1. DOMAIN R.footprints \subseteq DOMAIN R.grants
    BY <1>0 DEF Indexed, live_grants
  <2> QED
    BY <1>0, <1>3, <2>1 DEF Grown, attach, Typed, Shape, Members
<1>8. g.scope \in DOMAIN s.scope =>
        g.id \in DOMAIN T.footprints /\ T.footprints[g.id] = s.scope[g.scope]
  BY <1>0, <1>3 DEF Grown, attach, Typed, Shape, Members, scope_resolves, expand_scope
<1>9. Armed(T)
  BY <1>0, <1>4, <1>7 DEF Armed
<1>10. Pending(T, s)
  BY <1>4, <1>7, <1>8 DEF Pending, in_state
<1> QED
  BY <1>4, <1>5, <1>6, <1>9, <1>10

\* A recovered grant without pools is only remembered, as fenced.
LEMMA InstallFenced ==
  ASSUME NEW R, NEW X, Consistent(R, X), NEW s, Pending(R, s),
         NEW g \in Grant, g.id \notin DOMAIN R.grants, g.state = "fenced",
         NEW fence \in Nat, fence >= R.next_fence, g.id <= fence,
         NEW T, T = [put_grant(R, g) EXCEPT !.next_fence = fence]
  PROVE  /\ Typed(T) /\ Indexed(T) /\ Armed(T) /\ Pending(T, s)
         /\ DOMAIN T.grants = DOMAIN R.grants \union {g.id}
<1>0. Typed(R) /\ Indexed(R) /\ Armed(R)
  BY DEF Consistent
<1>1. /\ Shape(T)
      /\ T.grants = [id \in DOMAIN R.grants \union {g.id} |->
                       IF id = g.id THEN g ELSE R.grants[id]]
      /\ T.footprints = R.footprints /\ T.occupancy = R.occupancy
      /\ T.committed = R.committed /\ T.committed_total = R.committed_total
      /\ T.live = R.live /\ T.recovering = R.recovering
      /\ T.incarnation = R.incarnation /\ T.next_fence = fence
  BY <1>0 DEF put_grant, Typed, Shape, Members
<1>2. /\ T.grants \in [DOMAIN R.grants \union {g.id} -> Grant]
      /\ T.grants[g.id] = g
      /\ \A id \in DOMAIN R.grants : T.grants[id] = R.grants[id]
  BY <1>0, <1>1 DEF Typed
<1>3. Typed(T)
  <2>1. \A id \in DOMAIN R.grants : id \in Nat
    BY <1>0 DEF Typed, Grant
  <2>2. \A id \in DOMAIN R.grants : id <= T.next_fence
    BY <1>0, <1>1, <2>1 DEF Typed
  <2>3. \A id \in DOMAIN T.grants : T.grants[id].id = id /\ id <= T.next_fence
    BY <1>0, <1>1, <1>2, <2>2 DEF Typed
  <2> QED
    BY <1>0, <1>1, <1>2, <2>3 DEF Typed
<1>4. Indexed(T)
  <2>1. DOMAIN R.footprints \subseteq DOMAIN R.grants
    BY <1>0 DEF Indexed, live_grants
  <2>2. DOMAIN T.footprints \subseteq live_grants(T)
    BY <1>0, <1>1, <1>2 DEF Indexed, live_grants, is_live
  <2>3. ASSUME NEW r \in Ref
        PROVE  T.occupancy[r] =
                 {[id |-> id, mode |-> T.grants[id].mode] : id \in holders(T, r)}
    <3>1. holders(T, r) = holders(R, r)
      BY <1>1 DEF holders
    <3>2. R.occupancy[r] =
            {[id |-> id, mode |-> R.grants[id].mode] : id \in holders(R, r)}
      BY <1>0 DEF Indexed
    <3>3. \A id \in holders(R, r) : T.grants[id].mode = R.grants[id].mode
      BY <1>2, <2>1 DEF holders
    <3> QED
      BY <1>1, <3>1, <3>2, <3>3
  <2>4. T.occupancy = [r \in Ref |-> T.occupancy[r]]
    BY <1>0, <1>1 DEF Indexed
  <2>5. T.occupancy = [r \in Ref |->
           {[id |-> id, mode |-> T.grants[id].mode] : id \in holders(T, r)}]
    BY <2>3, <2>4, Zenon
  <2> QED
    BY <1>0, <1>1, <2>2, <2>5 DEF Indexed
<1>5. Armed(T)
  BY <1>0, <1>1, <1>2 DEF Armed
<1>6. Pending(T, s)
  BY <1>1, <1>2 DEF Pending, in_state
<1> QED
  BY <1>2, <1>3, <1>4, <1>5, <1>6

\* Changing neither the mode nor the liveness of a grant keeps the index.
LEMMA RelabelIndexed ==
  ASSUME NEW R, Indexed(R), NEW X, Compatible(R, X), NEW T,
         DOMAIN T.grants = DOMAIN R.grants,
         T.footprints = R.footprints, T.occupancy = R.occupancy,
         \A id \in DOMAIN R.grants :
           /\ T.grants[id].mode = R.grants[id].mode
           /\ is_live_state(R.grants[id].state) => is_live_state(T.grants[id].state)
  PROVE  Indexed(T) /\ Compatible(T, X)
<1>1. DOMAIN R.footprints \subseteq DOMAIN R.grants
  BY DEF Indexed, live_grants
<1>2. DOMAIN T.footprints \subseteq live_grants(T)
  BY <1>1 DEF Indexed, live_grants, is_live
<1>3. ASSUME NEW r \in Ref
      PROVE  T.occupancy[r] =
               {[id |-> id, mode |-> T.grants[id].mode] : id \in holders(T, r)}
  <2>1. holders(T, r) = holders(R, r)
    BY DEF holders
  <2>2. R.occupancy[r] =
          {[id |-> id, mode |-> R.grants[id].mode] : id \in holders(R, r)}
    BY DEF Indexed
  <2>3. \A id \in holders(R, r) : T.grants[id].mode = R.grants[id].mode
    BY <1>1 DEF holders
  <2> QED
    BY <2>1, <2>2, <2>3
<1>4. T.occupancy = [r \in Ref |-> T.occupancy[r]]
  BY DEF Indexed
<1>5. T.occupancy = [r \in Ref |->
         {[id |-> id, mode |-> T.grants[id].mode] : id \in holders(T, r)}]
  BY <1>3, <1>4
<1>6. Indexed(T)
  BY <1>2, <1>5 DEF Indexed
<1>7. Compatible(T, X)
  BY <1>1 DEF Compatible
<1> QED
  BY <1>6, <1>7

\* Identities are numbers up to the fence counter, so sets of them are finite.
LEMMA IdsFinite ==
  ASSUME NEW R, Typed(R), NEW ids \in SUBSET DOMAIN R.grants
  PROVE  Cardinality(ids) \in Nat
<1>1. \A id \in DOMAIN R.grants : id \in Nat /\ id <= R.next_fence
  BY DEF Typed, Grant
<1>2. ids \subseteq 0..R.next_fence
  BY <1>1 DEF Typed
<1>3. IsFiniteSet(0..R.next_fence)
  <2>1. R.next_fence \in Int /\ 0 \in Int
    BY DEF Typed
  <2> QED
    BY <2>1, FS_Interval
<1>4. IsFiniteSet(ids)
  BY <1>2, <1>3, FS_Subset, Zenon
<1> QED
  BY <1>4, FS_CardinalityType

\* revalidate re-arms what still holds and fences the rest: afterwards no grant
\* is recovering, and what is usable holds what its basis covers.
LEMMA RevalidateConsistent ==
  ASSUME NEW R, NEW X, Consistent(R, X), NEW s, is_snapshot(s), Pending(R, s),
         NEW inc \in Nat, NEW t \in Nat
  PROVE  /\ Consistent(revalidate(R, s, inc, t), X)
         /\ DOMAIN revalidate(R, s, inc, t).grants = DOMAIN R.grants
         /\ in_state(revalidate(R, s, inc, t), "recovering") = {}
         /\ Shrinks(R, revalidate(R, s, inc, t))
<1> DEFINE W == in_state(R, "recovering")
           K == {id \in W : revalidates(s, R.grants[id], t)}
           S == retire(R, W \ K, "fenced")
           F(id) == R.next_fence + Cardinality({j \in K : j <= id})
           T == revalidate(R, s, inc, t)
<1>1. W \in SUBSET DOMAIN R.grants /\ K \in SUBSET W
  BY DEF in_state
<1>2. /\ Consistent(S, X) /\ DOMAIN S.grants = DOMAIN R.grants
      /\ in_state(S, "recovering") = W \ (W \ K)
  BY <1>1, RetireConsistent DEF TerminalStates
<1>3. in_state(S, "recovering") = K
  BY <1>1, <1>2
<1>4. Pending(S, s)
  BY <1>1, RetirePending DEF TerminalStates
<1>5. Typed(R) /\ Typed(S) /\ Indexed(S) /\ Armed(S) /\ Compatible(S, X)
  BY <1>2 DEF Consistent
<1>6. S.next_fence = R.next_fence
  <2>1. Shape(R)
    BY <1>5, Zenon DEF Typed
  <2> QED
    BY <2>1, RetireMembers, SMTT(60)
<1>7. \A id \in K : S.grants[id] = R.grants[id]
  <2>1. \A id \in DOMAIN R.grants :
          S.grants[id] = IF id \in W \ K THEN [R.grants[id] EXCEPT !.state = "fenced"]
                                         ELSE R.grants[id]
    <3> DEFINE D == W \ K
    <3>1. S = retire(R, D, "fenced")
      OBVIOUS
    <3> HIDE DEF D, S, K, W
    <3>2. \A id \in DOMAIN R.grants :
            S.grants[id] = IF id \in D THEN [R.grants[id] EXCEPT !.state = "fenced"]
                                       ELSE R.grants[id]
      BY <1>5, <3>1, RetireGrants DEF Typed, TerminalStates
    <3> QED
      BY <3>2 DEF D
  <2> HIDE DEF S
  <2> QED
    BY <1>1, <2>1, Zenon
<1>8. Shrinks(R, S)
  BY <1>1, RetireShrinks DEF TerminalStates
<1>9. /\ Cardinality(K) \in Nat /\ Cardinality(W) \in Nat
      /\ \A id \in K : Cardinality({j \in K : j <= id}) \in Nat
  <2>1. ASSUME NEW id PROVE Cardinality({j \in K : j <= id}) \in Nat
    <3>1. {j \in K : j <= id} \in SUBSET DOMAIN R.grants
      BY <1>1
    <3> QED
      BY <3>1, <1>5, IdsFinite
  <2> QED
    BY <1>1, <1>5, <2>1, IdsFinite
<1>10. \A id \in K : F(id) \in Nat
  <2> HIDE DEF K, S, T
  <2>1. R.next_fence \in Nat
    BY <1>5 DEF Typed
  <2> QED
    BY <2>1, <1>9
<1>11. /\ Shape(T)
       /\ T.grants = [id \in DOMAIN R.grants |->
            IF id \in K THEN [S.grants[id] EXCEPT !.state = "active",
                                                  !.incarnation = inc,
                                                  !.fence = F(id)]
            ELSE S.grants[id]]
       /\ T.footprints = S.footprints /\ T.occupancy = S.occupancy
       /\ T.committed = S.committed /\ T.committed_total = S.committed_total
       /\ T.live = S.live /\ T.incarnation = inc
       /\ T.next_fence = R.next_fence + Cardinality(K)
       /\ T.recovering = floor_at_zero(R.recovering - Cardinality(W))
  <2> HIDE DEF S
  <2>1. T = [S EXCEPT
        !.grants = [id \in DOMAIN R.grants |->
            IF id \in K THEN [S.grants[id] EXCEPT !.state = "active",
                                                  !.incarnation = inc,
                                                  !.fence = F(id)]
            ELSE S.grants[id]],
        !.incarnation = inc,
        !.next_fence = R.next_fence + Cardinality(K),
        !.recovering = floor_at_zero(R.recovering - Cardinality(W))]
    BY DEF revalidate, S
  <2> HIDE DEF T, F, K, W
  <2> QED
    BY <1>5, <2>1 DEF Typed, Shape, Members
<1> HIDE DEF S, T, F, W, K
<1>20. /\ Shape(T) /\ DOMAIN T.grants = DOMAIN R.grants
       /\ T.grants = [id \in DOMAIN R.grants |-> T.grants[id]]
  BY <1>11, ZenonT(30)
<1>21. /\ T.footprints = S.footprints /\ T.occupancy = S.occupancy
       /\ T.committed = S.committed /\ T.committed_total = S.committed_total
       /\ T.live = S.live /\ T.incarnation = inc
       /\ T.next_fence = R.next_fence + Cardinality(K)
       /\ T.recovering = floor_at_zero(R.recovering - Cardinality(W))
  BY <1>11, ZenonT(30)
<1>12. \A id \in DOMAIN R.grants : id \notin K => T.grants[id] = S.grants[id]
  BY <1>11, Zenon
<1>13. \A id \in K :
         /\ T.grants[id] \in Grant /\ T.grants[id].id = S.grants[id].id
         /\ T.grants[id].mode = S.grants[id].mode
         /\ T.grants[id].state = "active"
         /\ T.grants[id].authority_basis = S.grants[id].authority_basis
  <2> TAKE id \in K
  <2> DEFINE g == S.grants[id]
             h == [g EXCEPT !.state = "active", !.incarnation = inc, !.fence = F(id)]
  <2>1. g \in Grant
    BY <1>1, <1>2, <1>5 DEF Typed
  <2>2. T.grants[id] = h
    BY <1>1, <1>11, Zenon
  <2>3. F(id) \in Nat
    BY <1>10
  <2> HIDE DEF g
  <2>4. /\ h \in Grant /\ h.id = g.id /\ h.mode = g.mode /\ h.state = "active"
        /\ h.authority_basis = g.authority_basis
    BY <2>1, <2>3, Zenon DEF Grant, GrantState
  <2> QED
    BY <2>2, <2>4 DEF g
<1>14. T.grants \in [DOMAIN R.grants -> Grant]
  <2>1. \A id \in DOMAIN R.grants : T.grants[id] \in Grant
    BY <1>2, <1>5, <1>12, <1>13 DEF Typed
  <2> QED
    BY <1>20, <2>1
<1>15. Typed(T)
  <2>1. \A id \in DOMAIN R.grants : id \in Nat /\ id <= R.next_fence
    BY <1>5 DEF Typed, Grant
  <2>2. \A id \in DOMAIN T.grants : T.grants[id].id = id /\ id <= T.next_fence
    <3>1. \A id \in DOMAIN R.grants : id <= T.next_fence
      BY <1>5, <1>9, <1>21, <2>1 DEF Typed
    <3>2. \A id \in DOMAIN R.grants : T.grants[id].id = id
      BY <1>2, <1>5, <1>12, <1>13 DEF Typed
    <3> QED
      BY <1>20, <3>1, <3>2
  <2>3. T.next_fence \in Nat
    BY <1>5, <1>9, <1>21 DEF Typed
  <2>4. T.recovering \in Nat
    BY <1>5, <1>9, <1>21 DEF Typed, floor_at_zero
  <2> QED
    BY <1>5, <1>14, <1>20, <1>21, <2>2, <2>3, <2>4, ZenonT(30) DEF Typed
<1>16. Indexed(T) /\ Compatible(T, X)
  <2>1. \A id \in DOMAIN S.grants :
          /\ T.grants[id].mode = S.grants[id].mode
          /\ is_live_state(S.grants[id].state) => is_live_state(T.grants[id].state)
    BY <1>2, <1>12, <1>13 DEF is_live_state
  <2> QED
    BY <1>2, <1>5, <1>14, <1>21, <2>1, RelabelIndexed
<1>17. Armed(T)
  <2>1. ASSUME NEW id \in K
        PROVE  id \in DOMAIN T.footprints
               /\ T.footprints[id] = T.grants[id].authority_basis.scope
    <3>1. /\ R.grants[id].scope \in DOMAIN s.scope
          /\ R.grants[id].authority_basis =
               authority_basis_digest(s, s.scope[R.grants[id].scope])
      BY DEF K, revalidates, resumable, basis_holds, scope_resolves, expand_scope
    <3>2. s.scope[R.grants[id].scope] \in SUBSET Ref
      BY <3>1 DEF is_snapshot
    <3>3. R.grants[id].authority_basis.scope = s.scope[R.grants[id].scope]
      BY <3>1, <3>2, BasisTyped
    <3>4. id \in DOMAIN S.footprints /\ S.footprints[id] = s.scope[R.grants[id].scope]
      BY <1>3, <1>4, <1>7, <3>1 DEF Pending
    <3> QED
      BY <1>7, <1>13, <1>21, <3>3, <3>4
  <2> QED
    BY <1>2, <1>5, <1>12, <1>14, <1>21, <2>1 DEF Armed
<1>18. in_state(T, "recovering") = {}
  <2>1. \A id \in DOMAIN R.grants : id \notin K => S.grants[id].state # "recovering"
    BY <1>2, <1>3 DEF in_state
  <2> QED
    BY <1>12, <1>13, <1>14, <2>1 DEF in_state
<1>19. Shrinks(R, T)
  <2>1. \A id \in DOMAIN R.grants : T.grants[id].mode = S.grants[id].mode
    BY <1>12, <1>13
  <2>2. \A id \in K : is_live(R, id)
    BY <1>1 DEF is_live, is_live_state, in_state, W
  <2> QED
    BY <1>2, <1>8, <1>12, <1>14, <1>21, <2>1, <2>2 DEF Shrinks, is_live
<1> QED
  BY <1>14, <1>15, <1>16, <1>17, <1>18, <1>19 DEF Consistent, T

\* resume_all re-arms or fences the suspended grants.
LEMMA ResumeConsistent ==
  ASSUME NEW R, NEW X, Consistent(R, X), NEW s, NEW t
  PROVE  /\ Consistent(resume_all(R, s, t), X)
         /\ in_state(resume_all(R, s, t), "recovering") = in_state(R, "recovering")
         /\ Shrinks(R, resume_all(R, s, t))
<1> DEFINE W == in_state(R, "suspended")
           K == {id \in W : resumable(s, R.grants[id], t)}
           S == retire(R, W \ K, "fenced")
<1>1. W \in SUBSET DOMAIN R.grants /\ K \in SUBSET W
  BY DEF in_state
<1>2. /\ Consistent(S, X) /\ DOMAIN S.grants = DOMAIN R.grants
      /\ in_state(S, "recovering") = in_state(R, "recovering") \ (W \ K)
  BY <1>1, RetireConsistent DEF TerminalStates
<1>3. Shrinks(R, S)
  BY <1>1, RetireShrinks DEF TerminalStates
<1>4. \A id \in K : S.grants[id].state = "suspended"
  <2> DEFINE D == W \ K
  <2>1. S = retire(R, D, "fenced") /\ \A id \in K : id \notin D
    OBVIOUS
  <2>2. \A id \in K : id \in DOMAIN R.grants /\ R.grants[id].state = "suspended"
    BY DEF in_state
  <2> HIDE DEF D, S, K, W
  <2>3. \A id \in DOMAIN R.grants :
          S.grants[id] = IF id \in D THEN [R.grants[id] EXCEPT !.state = "fenced"]
                                     ELSE R.grants[id]
    BY <2>1, RetireGrants DEF Consistent, Typed, TerminalStates
  <2> QED
    BY <2>1, <2>2, <2>3, Zenon
<1>5. resume_all(R, s, t) = set_state(S, K, "active")
  BY DEF resume_all
<1>6. in_state(S, "recovering") = in_state(R, "recovering")
      /\ in_state(S, "recovering") \ K = in_state(R, "recovering")
  BY <1>2, Zenon DEF in_state
<1> HIDE DEF S, K, W
<1>7. /\ Consistent(set_state(S, K, "active"), X)
      /\ in_state(set_state(S, K, "active"), "recovering") =
           in_state(S, "recovering") \ K
      /\ Shrinks(S, set_state(S, K, "active"))
  <2>1. K \in SUBSET DOMAIN S.grants
    BY <1>1, <1>2
  <2>2. "active" \in GrantState
    BY DEF GrantState
  <2>3. \A id \in K : is_live_state("active") = is_live_state(S.grants[id].state)
    BY <1>4 DEF is_live_state
  <2>4. \A id \in K : S.grants[id].state \in {"active", "suspended"}
    BY <1>4
  <2> QED
    BY <1>2, <2>1, <2>2, <2>3, <2>4, SetStateConsistent, Zenon
<1>8. Shrinks(R, set_state(S, K, "active"))
  BY <1>3, <1>7 DEF Shrinks
<1> QED
  BY <1>5, <1>6, <1>7, <1>8

\* apply_state retires a live grant or relabels a retired one.
LEMMA ApplyStateConsistent ==
  ASSUME NEW R, NEW X, Consistent(R, X), NEW s, Pending(R, s),
         NEW id, NEW state \in TerminalStates
  PROVE  /\ Consistent(apply_state(R, id, state), X)
         /\ Pending(apply_state(R, id, state), s)
         /\ Shrinks(R, apply_state(R, id, state))
<1>1. CASE id \notin DOMAIN R.grants
  BY <1>1 DEF apply_state, Shrinks
<1>2. CASE id \in DOMAIN R.grants /\ is_live(R, id)
  <2>1. apply_state(R, id, state) = retire(R, {id}, state) /\ {id} \in SUBSET DOMAIN R.grants
    BY <1>2 DEF apply_state
  <2>2. Consistent(retire(R, {id}, state), X)
    BY <2>1, RetireConsistent
  <2>3. Pending(retire(R, {id}, state), s)
    BY <2>1, RetirePending
  <2>4. Shrinks(R, retire(R, {id}, state))
    BY <2>1, RetireShrinks
  <2> QED
    BY <2>1, <2>2, <2>3, <2>4
<1>3. CASE id \in DOMAIN R.grants /\ ~is_live(R, id)
  <2> DEFINE T == set_state(R, {id}, state)
  <2>1. apply_state(R, id, state) = T /\ {id} \in SUBSET DOMAIN R.grants
    BY <1>3 DEF apply_state
  <2>2. /\ state \in GrantState /\ state # "recovering" /\ ~is_live_state(state)
        /\ state \notin {"active", "suspended"}
    BY DEF TerminalStates, GrantState, is_live_state
  <2>3. ~is_live_state(R.grants[id].state)
    BY <1>3 DEF is_live
  <2>4. /\ Consistent(T, X) /\ Shrinks(R, T)
        /\ in_state(T, "recovering") = in_state(R, "recovering") \ {id}
    <3>1. \A i \in {id} : is_live_state(state) = is_live_state(R.grants[i].state)
      BY <2>2, <2>3 DEF is_live_state
    <3> QED
      BY <2>1, <2>2, <3>1, SetStateConsistent, ZenonT(30)
  <2>5. /\ T.footprints = R.footprints
        /\ \A i \in DOMAIN R.grants : i # id => T.grants[i] = R.grants[i]
    BY DEF set_state, Consistent, Typed, Shape, Members
  <2> HIDE DEF T
  <2>6. Pending(T, s)
    BY <2>4, <2>5 DEF Pending, in_state
  <2> QED
    BY <2>1, <2>4, <2>6
<1> QED
  BY <1>1, <1>2, <1>3

\* install_recovered adds an unknown identity as restored, or does nothing.
LEMMA InstallConsistent ==
  ASSUME NEW R, NEW X, Consistent(R, X), DOMAIN R.grants = X,
         NEW s, is_snapshot(s), Pending(R, s), NEW d \in Grant, d.id <= d.fence
  PROVE  LET T == install_recovered(R, s, d) IN
         /\ Consistent(T, DOMAIN T.grants) /\ Pending(T, s)
         /\ T = R \/ Grows(R, T, d.id)
<1> DEFINE fence == IF d.fence > R.next_fence THEN d.fence ELSE R.next_fence
           pool  == IF d.capacity_pool # {} THEN d.capacity_pool
                    ELSE IF d.scope \in DOMAIN s.res THEN capacity_pool_refs(s, d.scope)
                         ELSE {}
           T == install_recovered(R, s, d)
<1>0. Typed(R) /\ Indexed(R) /\ Armed(R)
  BY DEF Consistent
<1>1. /\ fence \in Nat /\ fence >= R.next_fence /\ d.id <= fence
  <2>1. R.next_fence \in Nat
    BY <1>0, Zenon DEF Typed
  <2>2. d.fence \in Nat /\ d.id \in Nat
    BY DEF Grant
  <2> QED
    BY <2>1, <2>2
<1>2. pool \in SUBSET Ref
  BY PoolTyped DEF Grant
<1>3. CASE d.id \in DOMAIN R.grants \/ R.live >= MaxLive
  BY <1>3 DEF install_recovered
<1>4. CASE /\ ~(d.id \in DOMAIN R.grants \/ R.live >= MaxLive) /\ pool = {}
  <2> DEFINE g == [d EXCEPT !.state = "fenced"]
  <2>1. g \in Grant /\ g.id = d.id /\ g.state = "fenced"
    BY DEF Grant, GrantState
  <2>2. T = [put_grant(R, g) EXCEPT !.next_fence = fence]
    BY <1>4 DEF install_recovered
  <2> HIDE DEF g, fence, pool, T
  <2>3. /\ Typed(T) /\ Indexed(T) /\ Armed(T) /\ Pending(T, s)
        /\ DOMAIN T.grants = DOMAIN R.grants \union {g.id}
    BY <1>1, <1>4, <2>1, <2>2, InstallFenced, ZenonT(30)
  <2>4. Compatible(T, DOMAIN T.grants)
    BY <2>3, AllRestored
  <2>5. Grows(R, T, g.id)
    <3>1. /\ T.footprints = R.footprints
          /\ \A i \in DOMAIN R.grants : i # g.id => T.grants[i] = R.grants[i]
      BY <1>0, <2>2 DEF put_grant, Typed, Shape, Members
    <3> QED
      BY <1>4, <2>1, <2>3, <3>1 DEF Grows
  <2> QED
    BY <2>1, <2>3, <2>4, <2>5 DEF Consistent, T
<1>5. CASE /\ ~(d.id \in DOMAIN R.grants \/ R.live >= MaxLive) /\ pool # {}
  <2> DEFINE g == [d EXCEPT !.state = "recovering", !.capacity_pool = pool]
  <2>1. g \in Grant /\ g.id = d.id /\ g.state = "recovering"
    <3> HIDE DEF pool
    <3> QED
      BY <1>2, ZenonT(30) DEF Grant, GrantState
  <2>2. T = [add_live(R, s, g) EXCEPT !.next_fence = fence,
                                      !.recovering = R.recovering + 1]
    BY <1>5 DEF install_recovered
  <2> HIDE DEF g, fence, pool, T
  <2>3. /\ Typed(T) /\ Indexed(T) /\ Armed(T) /\ Pending(T, s)
        /\ DOMAIN T.grants = DOMAIN R.grants \union {g.id}
    <3> DEFINE A == attach(R, s, g)
    <3>1. /\ Shape(A) /\ A.grants = R.grants /\ A.incarnation = R.incarnation
          /\ A.committed \in [Ref -> 0..U64Max] /\ A.committed_total \in 0..U64Max
      <4>1. Shape(R) /\ R.committed \in [Ref -> 0..U64Max]
        BY <1>0 DEF Typed
      <4> QED
        BY <4>1, AttachMembers, SMTT(60)
    <3>2. R.live + 1 \in Nat /\ R.recovering + 1 \in Nat /\ R.incarnation \in Nat
      BY <1>0 DEF Typed
    <3> HIDE DEF A
    <3>3. /\ Shape(T) /\ Grown(R, s, g, T) /\ T.next_fence = fence
          /\ T.incarnation = R.incarnation /\ T.live \in Nat /\ T.recovering \in Nat
          /\ T.committed \in [Ref -> 0..U64Max] /\ T.committed_total \in 0..U64Max
      BY <2>2, <3>1, <3>2 DEF add_live, put_grant, Grown, Shape, Members, A
    <3>4. /\ T.next_fence \in Nat /\ T.next_fence >= R.next_fence /\ g.id <= T.next_fence
          /\ g.id \notin DOMAIN R.grants
      BY <1>1, <1>5, <2>1, <3>3
    <3> QED
      BY <2>1, <3>2, <3>3, <3>4, InstallLive, SMTT(30)
  <2>4. Compatible(T, DOMAIN T.grants)
    BY <2>3, AllRestored
  <2>5. Grows(R, T, g.id)
    <3>1. Grown(R, s, g, T)
      BY <1>0, <2>2 DEF add_live, put_grant, Grown, attach, Typed, Shape, Members
    <3>2. /\ DOMAIN R.footprints \subseteq DOMAIN T.footprints
          /\ DOMAIN T.footprints \subseteq DOMAIN R.footprints \union {g.id}
          /\ \A i \in DOMAIN R.footprints : i # g.id => T.footprints[i] = R.footprints[i]
      BY <1>0, <3>1 DEF Grown, attach, Typed, Shape, Members, scope_resolves, expand_scope
    <3>3. \A i \in DOMAIN R.grants : i # g.id => T.grants[i] = R.grants[i]
      BY <3>1 DEF Grown
    <3>4. DOMAIN R.footprints \subseteq DOMAIN R.grants
      BY <1>0 DEF Indexed, live_grants
    <3> QED
      BY <1>5, <2>1, <2>3, <3>2, <3>3, <3>4 DEF Grows
  <2> QED
    BY <2>1, <2>3, <2>4, <2>5 DEF Consistent, T
<1> QED
  BY <1>3, <1>4, <1>5

-----------------------------------------------------------------------------
(* The running counters.                                                   *)

\* live_ and recovering_ count the grants in those states, and live_ stays
\* within the limit that acquire and install_recovered check.
Counted(R) ==
  /\ R.live = Cardinality(live_grants(R)) /\ R.live <= MaxLive
  /\ R.recovering = Cardinality(in_state(R, "recovering"))

\* The sets that are counted are finite, and fit a counter.
LEMMA CountsFit ==
  ASSUME NEW R, Typed(R), Counted(R)
  PROVE  /\ IsFiniteSet(live_grants(R)) /\ IsFiniteSet(in_state(R, "recovering"))
         /\ R.live \in 0..U64Max /\ R.recovering \in 0..U64Max
<1>1. in_state(R, "recovering") \subseteq live_grants(R)
  BY DEF in_state, live_grants, is_live, is_live_state
<1>2. IsFiniteSet(live_grants(R))
  <2>1. \A id \in DOMAIN R.grants : id \in Nat /\ id <= R.next_fence
    BY DEF Typed, Grant
  <2>2. live_grants(R) \subseteq 0..R.next_fence /\ R.next_fence \in Int /\ 0 \in Int
    BY <2>1 DEF Typed, live_grants
  <2>3. IsFiniteSet(0..R.next_fence)
    BY <2>2, FS_Interval
  <2> QED
    BY <2>2, <2>3, FS_Subset, Zenon
<1>3. /\ IsFiniteSet(in_state(R, "recovering"))
      /\ Cardinality(in_state(R, "recovering")) <= Cardinality(live_grants(R))
  BY <1>1, <1>2, FS_Subset
<1>4. R.live \in Nat /\ R.recovering \in Nat
  BY DEF Typed
<1> QED
  BY <1>2, <1>3, <1>4, RegistryAssumption DEF Counted

\* Taking some elements away, in the arithmetic of a counter.
LEMMA CountLess ==
  ASSUME NEW S, IsFiniteSet(S), Cardinality(S) \in 0..U64Max, NEW D \in SUBSET S
  PROVE  floor_at_zero(Cardinality(S) - Cardinality(D)) = Cardinality(S \ D)
<1>1. /\ IsFiniteSet(S \ D) /\ Cardinality(S \ D) = Cardinality(S) - Cardinality(S \cap D)
  BY FS_Difference, Zenon
<1>2. S \cap D = D
  OBVIOUS
<1>3. IsFiniteSet(D)
  BY FS_Subset
<1>4. Cardinality(D) \in Nat /\ Cardinality(S \ D) \in Nat
  BY <1>1, <1>3, FS_CardinalityType
<1> QED
  BY <1>1, <1>2, <1>4, RegistryAssumption DEF floor_at_zero

\* A registry that differs in neither the counters nor what they count.
LEMMA SameCounted ==
  ASSUME NEW R, Counted(R), NEW T, T.live = R.live, T.recovering = R.recovering,
         live_grants(T) = live_grants(R),
         in_state(T, "recovering") = in_state(R, "recovering")
  PROVE  Counted(T)
BY DEF Counted

\* Retiring live grants takes each of them out of the counters once.
LEMMA RetireCounted ==
  ASSUME NEW R, Typed(R), Counted(R), NEW ids \in SUBSET live_grants(R),
         NEW state \in TerminalStates
  PROVE  Counted(retire(R, ids, state))
<1> DEFINE T == retire(R, ids, state)
           W == {id \in ids : R.grants[id].state = "recovering"}
<1>1. /\ T.live = floor_at_zero(R.live - Cardinality(ids))
      /\ T.recovering = floor_at_zero(R.recovering - Cardinality(W))
  <2>1. Shape(R)
    BY DEF Typed
  <2>2. Shape(detach(R, ids))
    BY <2>1, DetachMembers, Zenon
  <2> QED
    BY <2>2 DEF retire, Shape, Members
<1>2. /\ DOMAIN T.grants = DOMAIN R.grants
      /\ \A id \in DOMAIN R.grants :
           T.grants[id].state = IF id \in ids THEN state ELSE R.grants[id].state
  <2>1. /\ T.grants \in [DOMAIN R.grants -> Grant]
        /\ \A id \in DOMAIN R.grants :
             T.grants[id] = IF id \in ids THEN [R.grants[id] EXCEPT !.state = state]
                                          ELSE R.grants[id]
    BY RetireGrants DEF Typed
  <2> HIDE DEF T
  <2>2. \A id \in DOMAIN R.grants :
          T.grants[id].state = IF id \in ids THEN state ELSE R.grants[id].state
    BY <2>1, Zenon DEF Typed, Grant
  <2> QED
    BY <2>1, <2>2
<1> HIDE DEF T
<1>3. live_grants(T) = live_grants(R) \ ids
  BY <1>2 DEF live_grants, is_live, is_live_state, TerminalStates
<1>4. in_state(T, "recovering") = in_state(R, "recovering") \ W /\ W \subseteq in_state(R, "recovering")
  BY <1>2 DEF in_state, live_grants, TerminalStates
<1>5. /\ IsFiniteSet(live_grants(R)) /\ IsFiniteSet(in_state(R, "recovering"))
      /\ R.live = Cardinality(live_grants(R)) /\ R.live \in 0..U64Max
      /\ R.recovering = Cardinality(in_state(R, "recovering")) /\ R.recovering \in 0..U64Max
  BY CountsFit DEF Counted
<1> HIDE DEF W
<1>6. T.live = Cardinality(live_grants(T))
  BY <1>1, <1>3, <1>5, CountLess
<1>7. T.recovering = Cardinality(in_state(T, "recovering"))
  BY <1>1, <1>4, <1>5, CountLess
<1>8. T.live <= MaxLive
  <2>1. Cardinality(ids) \in Nat
    BY <1>5, FS_Subset, FS_CardinalityType
  <2> QED
    BY <1>1, <1>5, <2>1, RegistryAssumption DEF floor_at_zero, Counted
<1>9. Counted(T)
  BY <1>6, <1>7, <1>8 DEF Counted
<1> QED
  BY <1>9 DEF T

\* A change of state that moves no grant into or out of what is counted.
LEMMA SetStateCounted ==
  ASSUME NEW R, Typed(R), Counted(R), NEW ids \in SUBSET DOMAIN R.grants,
         NEW state \in GrantState, state # "recovering",
         \A id \in ids : /\ is_live_state(state) = is_live_state(R.grants[id].state)
                         /\ R.grants[id].state # "recovering"
  PROVE  Counted(set_state(R, ids, state))
<1> DEFINE T == set_state(R, ids, state)
<1>1. /\ T.live = R.live /\ T.recovering = R.recovering
      /\ T.grants = [id \in DOMAIN R.grants |->
                       IF id \in ids THEN [R.grants[id] EXCEPT !.state = state]
                                     ELSE R.grants[id]]
  BY DEF set_state, Typed, Shape, Members
<1> HIDE DEF T
<1>2. \A id \in DOMAIN R.grants :
        T.grants[id].state = IF id \in ids THEN state ELSE R.grants[id].state
  BY <1>1, Zenon DEF Typed, Grant
<1>3. DOMAIN T.grants = DOMAIN R.grants
  BY <1>1
<1>4. live_grants(T) = live_grants(R)
  BY <1>2, <1>3 DEF live_grants, is_live
<1>5. in_state(T, "recovering") = in_state(R, "recovering")
  BY <1>2, <1>3 DEF in_state
<1>6. Counted(T)
  BY <1>1, <1>4, <1>5, SameCounted
<1> QED
  BY <1>6 DEF T

\* A live grant that is added is counted once.
LEMMA GrownCounted ==
  ASSUME NEW R, Typed(R), Counted(R), R.live < MaxLive, NEW g, NEW id,
         id \notin DOMAIN R.grants, is_live_state(g.state),
         NEW T, DOMAIN T.grants = DOMAIN R.grants \union {id}, T.grants[id] = g,
         \A i \in DOMAIN R.grants : T.grants[i] = R.grants[i],
         T.live = R.live + 1,
         T.recovering = IF g.state = "recovering" THEN R.recovering + 1 ELSE R.recovering
  PROVE  Counted(T)
<1>1. /\ IsFiniteSet(live_grants(R)) /\ IsFiniteSet(in_state(R, "recovering"))
      /\ R.live = Cardinality(live_grants(R))
      /\ R.recovering = Cardinality(in_state(R, "recovering"))
  BY CountsFit DEF Counted
<1>2. live_grants(T) = live_grants(R) \union {id} /\ id \notin live_grants(R)
  BY DEF live_grants, is_live
<1>3. /\ id \notin in_state(R, "recovering")
      /\ in_state(T, "recovering") =
           IF g.state = "recovering" THEN in_state(R, "recovering") \union {id}
                                     ELSE in_state(R, "recovering")
  BY DEF in_state
<1>4. T.live = Cardinality(live_grants(T))
  BY <1>1, <1>2, FS_AddElement, Zenon
<1>5. T.recovering = Cardinality(in_state(T, "recovering"))
  <2>1. CASE g.state = "recovering"
    BY <1>1, <1>3, <2>1, FS_AddElement
  <2>2. CASE g.state # "recovering"
    BY <1>1, <1>3, <2>2
  <2> QED
    BY <2>1, <2>2
<1>6. T.live <= MaxLive
  BY RegistryAssumption DEF Typed
<1> QED
  BY <1>4, <1>5, <1>6 DEF Counted

\* acquire counts the grant it issues.
LEMMA AcquireCounted ==
  ASSUME NEW R, NEW X, Consistent(R, X), Counted(R), NEW s, is_snapshot(s), NEW q \in Req,
         NEW inc \in Nat, NEW t \in Nat, NEW allow
  PROVE  Counted(acquire(R, s, q, inc, t, allow).reg)
<1> DEFINE T == acquire(R, s, q, inc, t, allow).reg
<1>0. Typed(R) /\ Shape(R)
  BY DEF Consistent, Typed
<1>1. ASSUME NEW U, Shape(U), U.grants = R.grants, U.live = R.live, U.recovering = R.recovering
      PROVE  Counted(U)
  BY <1>1, SameCounted DEF live_grants, is_live, in_state
<1>2. CASE T = R
  BY <1>2
<1>3. CASE T = [R EXCEPT !.next_fence = R.next_fence + 1]
  BY <1>0, <1>1, <1>3 DEF Shape, Members
<1>4. CASE \E o : T = remember(R, q.request, o)
  BY <1>0, <1>1, <1>4 DEF remember, Shape, Members
<1>5. CASE /\ acquire_code(R, s, q, t, allow) = "ok"
           /\ T = issue(R, s, new_grant(R, s, q, inc, t))
  <2> DEFINE g == new_grant(R, s, q, inc, t)
  <2>1. R.live < MaxLive
    <3>1. ~(R.live >= MaxLive)
      BY <1>5, Zenon DEF acquire_code
    <3> QED
      BY <1>0, <3>1, RegistryAssumption DEF Typed
  <2>2. g.id = R.next_fence + 1 /\ g.state = "active"
    BY DEF new_grant
  <2>3. g.id \notin DOMAIN R.grants
    BY <1>0, <2>2 DEF Typed
  <2> HIDE DEF g
  <2>4. /\ T.grants = [id \in DOMAIN R.grants \union {g.id} |->
                         IF id = g.id THEN g ELSE R.grants[id]]
        /\ T.live = R.live + 1 /\ T.recovering = R.recovering
    <3>1. T = issue(R, s, g)
      BY <1>5 DEF g
    <3> HIDE DEF T
    <3>2. /\ Shape(attach(R, s, g)) /\ attach(R, s, g).grants = R.grants
          /\ attach(R, s, g).recovering = R.recovering
      <4>1. Shape(R) /\ R.committed \in [Ref -> 0..U64Max]
        BY <1>0 DEF Typed
      <4> QED
        BY <4>1 DEF attach, Shape, Members
    <3> QED
      BY <3>1, <3>2 DEF issue, remember, add_live, put_grant, Shape, Members
  <2> HIDE DEF T
  <2>5. /\ DOMAIN T.grants = DOMAIN R.grants \union {g.id} /\ T.grants[g.id] = g
        /\ \A i \in DOMAIN R.grants : T.grants[i] = R.grants[i]
    BY <2>3, <2>4
  <2>6. /\ is_live_state(g.state)
        /\ T.recovering = IF g.state = "recovering" THEN R.recovering + 1 ELSE R.recovering
    BY <2>2, <2>4 DEF is_live_state
  <2>7. Counted(T)
    BY <1>0, <2>1, <2>3, <2>4, <2>5, <2>6, GrownCounted
  <2> QED
    BY <2>7 DEF T
<1> QED
  BY <1>2, <1>3, <1>4, <1>5, AcquireCases

\* renew counts nothing.
LEMMA RenewCounted ==
  ASSUME NEW R, Typed(R), Counted(R), NEW tok, tok.grant \in DOMAIN R.grants, NEW ttl, NEW t
  PROVE  Counted(renew(R, tok, ttl, t))
<1> DEFINE T == renew(R, tok, ttl, t)
<1>1. /\ T.live = R.live /\ T.recovering = R.recovering /\ DOMAIN T.grants = DOMAIN R.grants
      /\ \A id \in DOMAIN R.grants :
           T.grants[id] = IF id = tok.grant THEN [R.grants[id] EXCEPT !.expires_at = t + ttl]
                                            ELSE R.grants[id]
  BY DEF renew, Typed, Shape, Members
<1> HIDE DEF T
<1>2. \A id \in DOMAIN R.grants : T.grants[id].state = R.grants[id].state
  BY <1>1, Zenon DEF Typed, Grant
<1>3. live_grants(T) = live_grants(R) /\ in_state(T, "recovering") = in_state(R, "recovering")
  BY <1>1, <1>2 DEF live_grants, is_live, in_state
<1>4. Counted(T)
  BY <1>1, <1>3, SameCounted
<1> QED
  BY <1>4 DEF T

\* resume_all takes what it fences out of the count of live grants.
LEMMA ResumeCounted ==
  ASSUME NEW R, NEW X, Consistent(R, X), Counted(R), NEW s, NEW t
  PROVE  Counted(resume_all(R, s, t))
<1> DEFINE W == in_state(R, "suspended")
           K == {id \in W : resumable(s, R.grants[id], t)}
           D == W \ K
           S == retire(R, D, "fenced")
<1>0. Typed(R)
  BY DEF Consistent
<1>1. D \in SUBSET live_grants(R) /\ D \in SUBSET DOMAIN R.grants /\ "fenced" \in TerminalStates
  BY DEF in_state, live_grants, is_live, is_live_state, TerminalStates
<1>2. \A id \in K : id \in DOMAIN R.grants /\ id \notin D /\ R.grants[id].state = "suspended"
  BY DEF in_state
<1>3. resume_all(R, s, t) = set_state(S, K, "active")
  BY DEF resume_all
<1> HIDE DEF D, K, W
<1>4. Counted(S) /\ Typed(S)
  BY <1>0, <1>1, RetireCounted, RetireTyped
<1>5. /\ DOMAIN S.grants = DOMAIN R.grants
      /\ \A id \in DOMAIN R.grants :
           S.grants[id] = IF id \in D THEN [R.grants[id] EXCEPT !.state = "fenced"]
                                      ELSE R.grants[id]
  BY <1>0, <1>1, RetireGrants DEF Typed
<1> HIDE DEF S
<1>6. \A id \in K : id \in DOMAIN S.grants /\ S.grants[id].state = "suspended"
  BY <1>2, <1>5, Zenon
<1>7. /\ K \in SUBSET DOMAIN S.grants /\ "active" \in GrantState /\ "active" # "recovering"
      /\ \A id \in K : /\ is_live_state("active") = is_live_state(S.grants[id].state)
                       /\ S.grants[id].state # "recovering"
  BY <1>6 DEF is_live_state, GrantState
<1>8. Counted(set_state(S, K, "active"))
  BY <1>4, <1>7, SetStateCounted
<1> QED
  BY <1>3, <1>8

\* apply_state counts a live grant out, and a retired one not again.
LEMMA ApplyStateCounted ==
  ASSUME NEW R, Typed(R), Counted(R), NEW id, NEW state \in TerminalStates
  PROVE  Counted(apply_state(R, id, state))
<1>1. CASE id \notin DOMAIN R.grants
  BY <1>1 DEF apply_state
<1>2. CASE id \in DOMAIN R.grants /\ is_live(R, id)
  <2>1. apply_state(R, id, state) = retire(R, {id}, state) /\ {id} \in SUBSET live_grants(R)
    BY <1>2 DEF apply_state, live_grants
  <2> QED
    BY <2>1, RetireCounted
<1>3. CASE id \in DOMAIN R.grants /\ ~is_live(R, id)
  <2>1. /\ apply_state(R, id, state) = set_state(R, {id}, state)
        /\ {id} \in SUBSET DOMAIN R.grants
        /\ state \in GrantState /\ state # "recovering"
        /\ \A i \in {id} : /\ is_live_state(state) = is_live_state(R.grants[i].state)
                           /\ R.grants[i].state # "recovering"
    BY <1>3 DEF apply_state, is_live, is_live_state, TerminalStates, GrantState
  <2> QED
    BY <2>1, SetStateCounted
<1> QED
  BY <1>1, <1>2, <1>3

\* install_recovered counts what it brings back in "recovering".
LEMMA InstallCounted ==
  ASSUME NEW R, Typed(R), Counted(R), NEW s, NEW d \in Grant
  PROVE  Counted(install_recovered(R, s, d))
<1> DEFINE fence == IF d.fence > R.next_fence THEN d.fence ELSE R.next_fence
           pool  == IF d.capacity_pool # {} THEN d.capacity_pool
                    ELSE IF d.scope \in DOMAIN s.res THEN capacity_pool_refs(s, d.scope)
                         ELSE {}
           T == install_recovered(R, s, d)
<1>1. CASE d.id \in DOMAIN R.grants \/ R.live >= MaxLive
  BY <1>1 DEF install_recovered
<1>2. CASE /\ ~(d.id \in DOMAIN R.grants \/ R.live >= MaxLive) /\ pool = {}
  <2> DEFINE g == [d EXCEPT !.state = "fenced"]
  <2>1. g.id = d.id /\ g.state = "fenced"
    BY DEF Grant
  <2>2. T = [put_grant(R, g) EXCEPT !.next_fence = fence]
    BY <1>2 DEF install_recovered
  <2> HIDE DEF g, fence, pool, T
  <2>3. /\ T.live = R.live /\ T.recovering = R.recovering
        /\ T.grants = [id \in DOMAIN R.grants \union {g.id} |->
                         IF id = g.id THEN g ELSE R.grants[id]]
    BY <2>2 DEF put_grant, Typed, Shape, Members
  <2>4. live_grants(T) = live_grants(R) /\ in_state(T, "recovering") = in_state(R, "recovering")
    BY <1>2, <2>1, <2>3 DEF live_grants, is_live, is_live_state, in_state
  <2>5. Counted(T)
    BY <2>3, <2>4, SameCounted
  <2> QED
    BY <2>5 DEF T
<1>3. CASE /\ ~(d.id \in DOMAIN R.grants \/ R.live >= MaxLive) /\ pool # {}
  <2> DEFINE g == [d EXCEPT !.state = "recovering", !.capacity_pool = pool]
  <2>1. g.id = d.id /\ g.state = "recovering"
    <3> HIDE DEF pool
    <3> QED
      BY Zenon DEF Grant
  <2>2. T = [add_live(R, s, g) EXCEPT !.next_fence = fence,
                                      !.recovering = R.recovering + 1]
    BY <1>3 DEF install_recovered
  <2> HIDE DEF g, fence, pool, T
  <2>3. R.live < MaxLive /\ g.id \notin DOMAIN R.grants
    BY <1>3, <2>1, RegistryAssumption DEF Typed
  <2>4. /\ T.grants = [id \in DOMAIN R.grants \union {g.id} |->
                         IF id = g.id THEN g ELSE R.grants[id]]
        /\ T.live = R.live + 1 /\ T.recovering = R.recovering + 1
    <3>1. Shape(R) /\ R.committed \in [Ref -> 0..U64Max]
      BY DEF Typed
    <3>2. Shape(attach(R, s, g)) /\ attach(R, s, g).grants = R.grants
      BY <3>1, AttachMembers
    <3> QED
      BY <2>2, <3>2 DEF add_live, put_grant, Shape, Members
  <2>5. /\ DOMAIN T.grants = DOMAIN R.grants \union {g.id} /\ T.grants[g.id] = g
        /\ \A i \in DOMAIN R.grants : T.grants[i] = R.grants[i]
    BY <2>3, <2>4
  <2>6. /\ is_live_state(g.state)
        /\ T.recovering = IF g.state = "recovering" THEN R.recovering + 1 ELSE R.recovering
    BY <2>1, <2>4 DEF is_live_state
  <2>7. Counted(T)
    BY <2>3, <2>4, <2>5, <2>6, GrownCounted
  <2> QED
    BY <2>7 DEF T
<1> QED
  BY <1>1, <1>2, <1>3

\* revalidate leaves no recovering grant, and counts out those it fences.
LEMMA RevalidateCounted ==
  ASSUME NEW R, NEW X, Consistent(R, X), Counted(R), NEW s, is_snapshot(s), Pending(R, s),
         NEW inc \in Nat, NEW t \in Nat
  PROVE  Counted(revalidate(R, s, inc, t))
<1> DEFINE W == in_state(R, "recovering")
           K == {id \in W : revalidates(s, R.grants[id], t)}
           D == W \ K
           S == retire(R, D, "fenced")
           F(id) == R.next_fence + Cardinality({j \in K : j <= id})
           T == revalidate(R, s, inc, t)
<1>0. Typed(R)
  BY DEF Consistent
<1>1. D \in SUBSET live_grants(R) /\ "fenced" \in TerminalStates
  BY DEF in_state, live_grants, is_live, is_live_state, TerminalStates
<1>2. \A id \in K : id \in DOMAIN R.grants /\ id \notin D /\ R.grants[id].state = "recovering"
  BY DEF in_state
<1>3. in_state(T, "recovering") = {}
  BY RevalidateConsistent
<1>4. T = [S EXCEPT
        !.grants = [id \in DOMAIN R.grants |->
            IF id \in K THEN [S.grants[id] EXCEPT !.state = "active",
                                                  !.incarnation = inc,
                                                  !.fence = F(id)]
            ELSE S.grants[id]],
        !.incarnation = inc,
        !.next_fence = R.next_fence + Cardinality(K),
        !.recovering = floor_at_zero(R.recovering - Cardinality(W))]
  BY DEF revalidate
<1> HIDE DEF D, K, T, F
<1>5. Counted(S) /\ Typed(S)
  BY <1>0, <1>1, RetireCounted, RetireTyped
<1>6. /\ DOMAIN S.grants = DOMAIN R.grants
      /\ \A id \in DOMAIN R.grants :
           S.grants[id] = IF id \in D THEN [R.grants[id] EXCEPT !.state = "fenced"]
                                      ELSE R.grants[id]
  BY <1>0, <1>1, RetireGrants DEF Typed
<1> HIDE DEF S
<1>7. \A id \in K : S.grants[id] \in Grant /\ S.grants[id].state = "recovering"
  BY <1>2, <1>5, <1>6, Zenon DEF Typed
<1>8. /\ T.live = S.live /\ T.recovering = floor_at_zero(R.recovering - Cardinality(W))
      /\ T.grants = [id \in DOMAIN R.grants |->
            IF id \in K THEN [S.grants[id] EXCEPT !.state = "active",
                                                  !.incarnation = inc,
                                                  !.fence = F(id)]
            ELSE S.grants[id]]
  <2> HIDE DEF W
  <2> QED
    BY <1>4, <1>5 DEF Typed, Shape, Members
<1>9. \A id \in DOMAIN R.grants :
        T.grants[id].state = IF id \in K THEN "active" ELSE S.grants[id].state
  <2>1. \A id \in K : [S.grants[id] EXCEPT !.state = "active", !.incarnation = inc,
                                           !.fence = F(id)].state = "active"
    BY <1>7, Zenon DEF Grant
  <2> QED
    BY <1>2, <1>8, <2>1, Zenon
<1>10. DOMAIN T.grants = DOMAIN S.grants
  BY <1>6, <1>8, Zenon
<1>11. live_grants(T) = live_grants(S)
  BY <1>6, <1>7, <1>9, <1>10 DEF live_grants, is_live, is_live_state
<1>12. T.recovering = 0 /\ Cardinality({}) = 0
  <2>1. R.recovering = Cardinality(W) /\ R.recovering \in Nat
    BY <1>0, Zenon DEF Counted, Typed
  <2> HIDE DEF W
  <2>2. R.recovering - Cardinality(W) = 0
    BY <2>1
  <2> QED
    BY <1>8, <2>2, FS_EmptySet, RegistryAssumption, Zenon DEF floor_at_zero
<1>13. Counted(T)
  <2>1. S.live = Cardinality(live_grants(S)) /\ S.live <= MaxLive
    BY <1>5 DEF Counted
  <2> QED
    BY <1>3, <1>8, <1>11, <1>12, <2>1, Zenon DEF Counted
<1> QED
  BY <1>13 DEF T

-----------------------------------------------------------------------------
(* Sums of capacities.                                                     *)

\* A non-empty set of natural numbers has a least element.
LEMMA Least ==
  ASSUME NEW T \in SUBSET Nat, T # {}
  PROVE  \E x \in T : \A y \in T : x <= y
<1> DEFINE L == OpToRel(<, Nat)
<1>1. IsWellFoundedOn(L, Nat)
  BY NatLessThanWellFounded, Zenon
<1>2. \A y, x \in Nat : <<y, x>> \in L <=> y < x
  BY DEF OpToRel
<1> HIDE DEF L
<1>3. PICK x \in T : \A y \in T : <<y, x>> \notin L
  BY <1>1, WFMin, Zenon
<1>4. \A y \in T : ~(y < x)
  BY <1>2, <1>3, Zenon
<1> QED
  BY <1>4

\* A gives every part of W the sum of its capacities.
Additive(A, R, W) ==
  /\ A \in [SUBSET W -> Nat] /\ A[{}] = 0
  /\ \A s \in SUBSET W : \A x \in W \ s : A[s \union {x}] = A[s] + R.grants[x].capacity

Metered(R, W) == IsFiniteSet(W) /\ \A x \in W : R.grants[x].capacity \in Nat

\* Every finite set of grants has such sums.
LEMMA SomeAdditive ==
  ASSUME NEW R, NEW W, Metered(R, W)
  PROVE  \E A : Additive(A, R, W)
<1> DEFINE T == {n \in Nat : \E V \in SUBSET W : Cardinality(V) = n /\ ~ \E A : Additive(A, R, V)}
<1>1. SUFFICES ASSUME T # {} PROVE FALSE
  <2>1. Cardinality(W) \in Nat
    BY FS_CardinalityType DEF Metered
  <2> QED
    BY <2>1
<1>2. PICK n \in T : \A y \in T : n <= y
  BY <1>1, Least, Zenon
<1>3. PICK V \in SUBSET W : Cardinality(V) = n /\ ~ \E A : Additive(A, R, V)
  BY <1>2
<1>4. V # {}
  <2> SUFFICES ASSUME V = {} PROVE FALSE
    OBVIOUS
  <2> DEFINE A == [s \in {{}} |-> 0]
  <2>1. Additive(A, R, {})
    BY DEF Additive
  <2> QED
    BY <1>3, <2>1
<1>5. PICK w \in V : TRUE
  BY <1>4
<1> DEFINE U == V \ {w}
<1>6. /\ U \in SUBSET W /\ U \in SUBSET V /\ w \notin U /\ w \in W
      /\ Cardinality(U) \in Nat /\ n \in Nat /\ Cardinality(U) < n
  <2>1. IsFiniteSet(V)
    BY FS_Subset DEF Metered
  <2>2. IsFiniteSet(U) /\ Cardinality(U) = Cardinality(V) - 1
    BY <1>5, <2>1, FS_RemoveElement
  <2>3. Cardinality(U) \in Nat
    BY <2>2, FS_CardinalityType
  <2> QED
    BY <1>2, <1>3, <1>5, <2>2, <2>3
<1>7. Cardinality(U) \notin T
  <2> HIDE DEF T, U
  <2> QED
    BY <1>2, <1>6
<1>8. PICK B : Additive(B, R, U)
  BY <1>6, <1>7
<1> DEFINE c == R.grants[w].capacity
           A == [s \in SUBSET V |-> IF w \in s THEN B[s \ {w}] + c ELSE B[s]]
<1>9. c \in Nat /\ \A x \in U : R.grants[x].capacity \in Nat
  BY <1>6 DEF Metered
<1>10. \A s \in SUBSET V : s \ {w} \in SUBSET U /\ (w \notin s => s \in SUBSET U)
  OBVIOUS
<1>11. \A s \in SUBSET U : B[s] \in Nat
  BY <1>8 DEF Additive
<1>12. A \in [SUBSET V -> Nat] /\ A[{}] = 0
  <2>1. \A s \in SUBSET V : (IF w \in s THEN B[s \ {w}] + c ELSE B[s]) \in Nat
    BY <1>9, <1>10, <1>11
  <2>2. B[{}] = 0
    BY <1>8 DEF Additive
  <2> QED
    BY <2>1, <2>2
<1>13. ASSUME NEW s \in SUBSET V, NEW x \in V \ s
       PROVE  A[s \union {x}] = A[s] + R.grants[x].capacity
  <2>1. s \union {x} \in SUBSET V
    OBVIOUS
  <2>2. CASE x = w
    <3>1. (s \union {x}) \ {w} = s /\ w \notin s /\ w \in s \union {x}
      BY <2>2
    <3>2. A[s \union {x}] = B[s] + c /\ A[s] = B[s]
      BY <2>1, <3>1
    <3> QED
      BY <2>2, <3>2
  <2>3. CASE x # w
    <3> DEFINE t == s \ {w}
    <3>1. t \in SUBSET U /\ x \in U \ t /\ (s \union {x}) \ {w} = t \union {x}
      BY <2>3
    <3>2. B[t \union {x}] = B[t] + R.grants[x].capacity
      BY <1>8, <3>1, Zenon DEF Additive
    <3>3. CASE w \in s
      <4>1. A[s \union {x}] = B[t \union {x}] + c /\ A[s] = B[t] + c
        BY <2>1, <3>1, <3>3
      <4>2. B[t] \in Nat /\ R.grants[x].capacity \in Nat
        BY <1>9, <1>11, <3>1
      <4> HIDE DEF A, t, c
      <4> QED
        BY <1>9, <3>2, <4>1, <4>2
    <3>4. CASE w \notin s
      <4>1. s = t /\ w \notin s \union {x}
        BY <2>3, <3>4
      <4>2. A[s \union {x}] = B[s \union {x}] /\ A[s] = B[s]
        BY <2>1, <3>4, <4>1
      <4> QED
        BY <3>2, <4>1, <4>2, Zenon
    <3> QED
      BY <3>3, <3>4
  <2> QED
    BY <2>2, <2>3
<1> HIDE DEF A
<1>14. Additive(A, R, V)
  BY <1>12, <1>13, Zenon DEF Additive
<1> QED
  BY <1>3, <1>14, Zenon

\* h is the running sum the fold computes over the parts of S.
Sums(h, R, S) ==
  h = [s \in SUBSET S |->
         IF s = {} THEN 0
         ELSE R.grants[CHOOSE x \in s : TRUE].capacity + h[s \ {CHOOSE x \in s : TRUE}]]

\* units_of is the fold.
LEMMA UnitsFold ==
  ASSUME NEW R, NEW S
  PROVE  units_of(R, S) = (CHOOSE h : Sums(h, R, S))[S]
BY DEF units_of, MapThenSumSet, MapThenFoldSet, Sums

\* The fold over S agrees with any additive sums of S.
LEMMA UnitsAre ==
  ASSUME NEW R, NEW S, NEW A, Metered(R, S), Additive(A, R, S)
  PROVE  units_of(R, S) = A[S]
<1> DEFINE first(s) == CHOOSE x \in s : TRUE
<1>1. \A s : s # {} => first(s) \in s
  BY Zenon
<1>2. \A s \in SUBSET S :
        s # {} => A[s] = R.grants[first(s)].capacity + A[s \ {first(s)}]
  <2> SUFFICES ASSUME NEW s \in SUBSET S, s # {}
               PROVE  A[s] = R.grants[first(s)].capacity + A[s \ {first(s)}]
    OBVIOUS
  <2>1. PICK x : x = first(s)
    OBVIOUS
  <2> DEFINE t == s \ {x}
  <2>2. x \in s /\ t \in SUBSET S /\ x \in S \ t /\ t \union {x} = s
    BY <1>1, <2>1
  <2> HIDE DEF t, first
  <2>3. A[s] = A[t] + R.grants[x].capacity /\ A[t] \in Nat
    BY <2>2 DEF Additive
  <2>4. R.grants[x].capacity \in Nat
    BY <2>2 DEF Metered
  <2>5. A[s] = R.grants[x].capacity + A[t]
    BY <2>3, <2>4
  <2> QED
    BY <2>1, <2>5 DEF t
<1>3. Sums(A, R, S)
  <2>1. A = [s \in SUBSET S |-> A[s]] /\ A[{}] = 0
    BY DEF Additive
  <2> QED
    BY <1>2, <2>1, Zenon DEF Sums
<1>4. PICK h : h = CHOOSE g : Sums(g, R, S)
  OBVIOUS
<1>5. Sums(h, R, S)
  BY <1>3, <1>4, Zenon
<1>6. /\ h[{}] = 0
      /\ \A s \in SUBSET S :
           s # {} => h[s] = R.grants[first(s)].capacity + h[s \ {first(s)}]
  BY <1>5 DEF Sums
<1> DEFINE T == {n \in Nat : \E s \in SUBSET S : Cardinality(s) = n /\ h[s] # A[s]}
<1>7. T = {}
  <2>1. SUFFICES ASSUME T # {} PROVE FALSE
    OBVIOUS
  <2>2. PICK n \in T : \A y \in T : n <= y
    BY <2>1, Least, Zenon
  <2>3. PICK s \in SUBSET S : Cardinality(s) = n /\ h[s] # A[s]
    BY <2>2
  <2>4. s # {}
    BY <1>6, <2>3, Zenon DEF Additive
  <2>5. PICK x : x = first(s)
    OBVIOUS
  <2> DEFINE t == s \ {x}
  <2>6. x \in s /\ t \in SUBSET S
    BY <1>1, <2>4, <2>5
  <2>7. Cardinality(t) \in Nat /\ Cardinality(t) < n /\ n \in Nat
    <3>1. IsFiniteSet(s)
      BY FS_Subset DEF Metered
    <3>2. IsFiniteSet(t) /\ Cardinality(t) = Cardinality(s) - 1
      BY <2>6, <3>1, FS_RemoveElement
    <3>3. Cardinality(t) \in Nat
      BY <3>2, FS_CardinalityType
    <3> QED
      BY <2>2, <2>3, <3>2, <3>3
  <2>8. h[t] = A[t]
    <3>1. Cardinality(t) \notin T
      <4> HIDE DEF T, t
      <4> QED
        BY <2>2, <2>7
    <3> QED
      BY <2>6, <2>7, <3>1, Zenon
  <2> HIDE DEF t, first, T
  <2>9. h[s] = R.grants[x].capacity + h[t] /\ A[s] = R.grants[x].capacity + A[t]
    BY <1>2, <1>6, <2>4, <2>5, Zenon DEF t
  <2> QED
    BY <2>3, <2>8, <2>9
<1>8. h[S] = A[S]
  <2>1. Cardinality(S) \in Nat /\ S \in SUBSET S
    BY FS_CardinalityType DEF Metered
  <2> QED
    BY <1>7, <2>1
<1> QED
  BY <1>4, <1>8, UnitsFold

\* ... and over every part of it.
LEMMA UnitsOfPart ==
  ASSUME NEW R, NEW W, NEW A, Metered(R, W), Additive(A, R, W), NEW s \in SUBSET W
  PROVE  units_of(R, s) = A[s] /\ A[s] \in Nat
<1> DEFINE B == [t \in SUBSET s |-> A[t]]
<1>1. Metered(R, s)
  BY FS_Subset DEF Metered
<1>2. Additive(B, R, s)
  <2>1. B \in [SUBSET s -> Nat] /\ B[{}] = 0
    BY DEF Additive
  <2>2. ASSUME NEW t \in SUBSET s, NEW x \in s \ t
        PROVE  B[t \union {x}] = B[t] + R.grants[x].capacity
    <3>1. t \in SUBSET W /\ x \in W \ t /\ t \union {x} \in SUBSET s
      OBVIOUS
    <3>2. A[t \union {x}] = A[t] + R.grants[x].capacity
      BY <3>1, Zenon DEF Additive
    <3> QED
      BY <3>1, <3>2
  <2> HIDE DEF B
  <2> QED
    BY <2>1, <2>2, Zenon DEF Additive
<1>3. units_of(R, s) = B[s]
  <2> HIDE DEF B
  <2> QED
    BY <1>1, <1>2, UnitsAre
<1> QED
  BY <1>3 DEF Additive

\* Nothing draws nothing; one grant more draws its capacity more.
LEMMA UnitsAdd ==
  ASSUME NEW R, NEW W, Metered(R, W)
  PROVE  /\ units_of(R, {}) = 0
         /\ \A s \in SUBSET W : units_of(R, s) \in Nat
         /\ \A s \in SUBSET W : \A x \in W \ s :
              units_of(R, s \union {x}) = units_of(R, s) + R.grants[x].capacity
<1>1. PICK A : Additive(A, R, W)
  BY SomeAdditive
<1>2. \A s \in SUBSET W : units_of(R, s) = A[s] /\ A[s] \in Nat
  BY <1>1, UnitsOfPart
<1>3. {} \in SUBSET W /\ \A s \in SUBSET W : \A x \in W \ s : s \union {x} \in SUBSET W
  OBVIOUS
<1> QED
  BY <1>1, <1>2, <1>3 DEF Additive

\* Q and R give the grants of W the same capacities.
SameCapacity(Q, R, W) == \A x \in W : Q.grants[x].capacity = R.grants[x].capacity

\* What a set draws is settled by its capacities alone.
LEMMA UnitsSame ==
  ASSUME NEW Q, NEW R, NEW W, Metered(R, W), SameCapacity(Q, R, W)
  PROVE  \A s \in SUBSET W : units_of(Q, s) = units_of(R, s)
<1>1. PICK A : Additive(A, R, W)
  BY SomeAdditive
<1>2. Metered(Q, W) /\ Additive(A, Q, W)
  BY <1>1 DEF Metered, Additive, SameCapacity
<1> QED
  BY <1>1, <1>2, UnitsOfPart

\* What is left after some grants are taken away draws the difference.
LEMMA UnitsLess ==
  ASSUME NEW R, NEW W, Metered(R, W), NEW S \in SUBSET W, NEW D \in SUBSET S
  PROVE  units_of(R, S \ D) + units_of(R, D) = units_of(R, S)
<1> DEFINE u(v) == units_of(R, v)
           T == {n \in Nat : \E v \in SUBSET S : Cardinality(v) = n /\ u(S \ v) + u(v) # u(S)}
<1>1. /\ u({}) = 0 /\ \A v \in SUBSET W : u(v) \in Nat
      /\ \A v \in SUBSET W : \A x \in W \ v : u(v \union {x}) = u(v) + R.grants[x].capacity
  BY UnitsAdd
<1>2. \A v \in SUBSET S : IsFiniteSet(v) /\ Cardinality(v) \in Nat
  <2> TAKE v \in SUBSET S
  <2>1. IsFiniteSet(v)
    <3>1. v \in SUBSET W
      OBVIOUS
    <3> QED
      BY <3>1, FS_Subset DEF Metered
  <2> QED
    BY <2>1, FS_CardinalityType
<1>3. T = {}
  <2>1. SUFFICES ASSUME T # {} PROVE FALSE
    BY Zenon
  <2>2. PICK n \in T : \A y \in T : n <= y
    BY <2>1, Least, Zenon
  <2>3. PICK v \in SUBSET S : Cardinality(v) = n /\ u(S \ v) + u(v) # u(S)
    BY <2>2
  <2>4. v # {}
    <3> SUFFICES ASSUME v = {} PROVE FALSE
      OBVIOUS
    <3>1. S \ v = S
      OBVIOUS
    <3> HIDE DEF u
    <3> QED
      BY <1>1, <2>3, <3>1
  <2>5. PICK x \in v : TRUE
    BY <2>4
  <2> DEFINE z == v \ {x}
  <2>6. /\ z \in SUBSET S /\ z \in SUBSET W /\ x \in W \ z /\ z \union {x} = v
        /\ S \ v \in SUBSET W /\ x \in W \ (S \ v) /\ (S \ v) \union {x} = S \ z
        /\ v \in SUBSET W /\ S \ z \in SUBSET W
    OBVIOUS
  <2>7. Cardinality(z) < n /\ n \in Nat /\ Cardinality(z) \in Nat
    <3>1. Cardinality(z) = Cardinality(v) - 1
      BY <1>2, FS_RemoveElement
    <3> HIDE DEF z
    <3> QED
      BY <1>2, <2>2, <2>3, <2>6, <3>1
  <2>8. u(S \ z) + u(z) = u(S)
    <3>1. Cardinality(z) \notin T
      <4> HIDE DEF T, z
      <4> QED
        BY <2>2, <2>7
    <3> HIDE DEF u
    <3> QED
      BY <2>6, <2>7, <3>1, Zenon
  <2> HIDE DEF u, z, T
  <2>9. u(v) = u(z) + R.grants[x].capacity /\ u(S \ z) = u(S \ v) + R.grants[x].capacity
    BY <1>1, <2>6, Zenon
  <2>10. /\ u(v) \in Nat /\ u(z) \in Nat /\ u(S \ z) \in Nat /\ u(S \ v) \in Nat
         /\ R.grants[x].capacity \in Nat /\ u(S) \in Nat
    BY <1>1, <2>6 DEF Metered
  <2> QED
    BY <2>3, <2>8, <2>9, <2>10
<1> HIDE DEF u
<1> QED
  BY <1>2, <1>3, Zenon DEF u

\* A part draws no more than the whole.
LEMMA UnitsPart ==
  ASSUME NEW R, NEW W, Metered(R, W), NEW s \in SUBSET W
  PROVE  units_of(R, s) <= units_of(R, W)
<1>1. W \in SUBSET W /\ W \ s \in SUBSET W
  OBVIOUS
<1>2. units_of(R, W \ s) + units_of(R, s) = units_of(R, W)
  BY <1>1, UnitsLess
<1>3. \A v \in SUBSET W : units_of(R, v) \in Nat
  BY UnitsAdd
<1> QED
  BY <1>1, <1>2, <1>3

=============================================================================
