------------------------ MODULE ExclusiveAuthority -------------------------
(***************************************************************************)
(* What the grant registry promises about exclusivity, without index,      *)
(* counters, capacity or leases: a table of the resources each live grant  *)
(* holds.  Before the rack is opened, grants are restored unchecked; after *)
(* that a grant is added only if it is compatible with everything held,    *)
(* under an identity never used before; what is held never changes until   *)
(* it is dropped for good.                                                 *)
(***************************************************************************)
EXTENDS RackTypes

VARIABLES
  held,      \* identity -> [scope, mode] of the grants that hold resources
  ever,      \* identities in use so far
  open,      \* whether new authority may be issued
  restored   \* identities brought back from an earlier incarnation

avars == <<held, ever, open, restored>>

clash(a, b) ==
  occupant_conflicts(a.mode, b.mode) /\ a.scope \intersect b.scope # {}

Init ==
  /\ held = [id \in {} |-> 0]
  /\ ever = {}
  /\ open = FALSE
  /\ restored = {}

\* Whatever is held afterwards was held before, unchanged, except for `fresh`.
Extends(fresh) ==
  /\ DOMAIN held' = DOMAIN held \union fresh
  /\ \A id \in DOMAIN held : held'[id] = held[id]

Issue(id) ==
  /\ open /\ open' = open
  /\ id \notin ever /\ ever' = ever \union {id}
  /\ Extends({id})
  /\ \A i \in DOMAIN held : ~clash(held'[id], held[i])
  /\ restored' = restored

Restore(id) ==
  /\ ~open /\ open' = open
  /\ id \notin ever /\ ever' = ever \union {id}
  /\ restored' = restored \union {id}
  /\ Extends({}) \/ Extends({id})

Drop ==
  /\ DOMAIN held' \subseteq DOMAIN held
  /\ \A id \in DOMAIN held' : held'[id] = held[id]
  /\ ever' = ever /\ restored' = restored
  /\ open' \in {open, TRUE}

Next ==
  \/ \E id \in ever' \ ever : Issue(id) \/ Restore(id)
  \/ Drop

Spec == Init /\ [][Next]_avars

\* Grants that hold a common resource are shared, or were both restored.
Exclusive ==
  \A i, j \in DOMAIN held :
    i # j /\ clash(held[i], held[j]) => {i, j} \subseteq restored

=============================================================================
