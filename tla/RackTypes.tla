----------------------------- MODULE RackTypes -----------------------------
(***************************************************************************)
(* The enumerations shared by the authority layer and the daemon: grant    *)
(* modes and states (include/rnf/authority/grant.hpp), the rack lifecycle  *)
(* and its transition table (include/rnf/model/types.hpp,                  *)
(* src/model/types.cpp).                                                   *)
(***************************************************************************)

GrantMode == {"shared", "exclusive"}

GrantState ==
  {"pending", "recovering", "active", "suspended", "released", "expired", "fenced"}

TerminalStates == {"released", "expired", "fenced"}

is_live_state(state) ==
  state \in {"pending", "recovering", "active", "suspended"}

\* A resource is shared only between shared holders.
occupant_conflicts(requested, held) ==
  requested = "exclusive" \/ held = "exclusive"

LifecycleState ==
  {"assembling", "active", "degraded", "draining", "maintenance",
   "recovering", "retired"}

lifecycle_accepts_new_authority(state) == state \in {"active", "degraded"}

lifecycle_honours_existing_authority(state) ==
  state \in {"active", "degraded", "draining"}

LegalTargets ==
  [assembling  |-> {"active", "degraded", "retired", "recovering"},
   active      |-> {"degraded", "draining", "maintenance", "recovering",
                    "retired", "assembling"},
   degraded    |-> {"active", "draining", "maintenance", "recovering", "retired"},
   draining    |-> {"maintenance", "active", "degraded", "recovering", "retired"},
   maintenance |-> {"draining", "recovering", "retired"},
   recovering  |-> {"active", "degraded", "draining", "maintenance", "retired"},
   retired     |-> {}]

lifecycle_transition_allowed(from, to) == from = to \/ to \in LegalTargets[from]

=============================================================================
