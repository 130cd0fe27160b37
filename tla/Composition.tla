---------------------------- MODULE Composition ----------------------------
(***************************************************************************)
(* The evidence ledger and the composer together: observations arrive in   *)
(* any order and from any source, the target generation advances, and the  *)
(* rack is composed again after each step (compose_locked).                *)
(***************************************************************************)
EXTENDS LedgerOps, ComposerOps

CONSTANTS
  Baseline,        \* a sequence of observations that describe a working rack
  Updates,         \* the observations that may arrive later
  MaxUpdates,      \* bound: how many of them do
  MaxGeneration    \* bound: the last generation

VARIABLES
  ledger,
  generation,      \* the generation composed for
  arrived,         \* how many updates have arrived
  outcome          \* what the last compose() returned

vars == <<ledger, generation, arrived, outcome>>

\* What the ledger is given: the record with its slot and whether it is valid.
submit(l, r) == insert(l, r @@ [slot |-> slot_of(r), valid |-> validate_evidence(r)])

\* Some prefix of the baseline has been accepted.
Init ==
  /\ \E n \in 0 .. Len(Baseline) :
       ledger = FoldLeft(submit, empty_ledger, SubSeq(Baseline, 1, n))
  /\ generation = 1
  /\ arrived = 0
  /\ outcome = compose(ledger.slots, generation)

Observe(r) ==
  /\ arrived < MaxUpdates
  /\ arrived' = arrived + 1
  /\ ledger' = submit(ledger, r)
  /\ outcome' = compose(ledger'.slots, generation)
  /\ UNCHANGED generation

Advance ==
  /\ generation < MaxGeneration
  /\ generation' = generation + 1
  /\ outcome' = compose(ledger.slots, generation')
  /\ UNCHANGED <<ledger, arrived>>

Next == (\E r \in Updates : Observe(r)) \/ Advance

Spec == Init /\ [][Next]_vars

------------------------------------------------------------------------------
eligible(ref) ==
  ref \in DOMAIN outcome.resources /\ outcome.resources[ref].eligibility = "eligible"

ends(l) == {outcome.links[l].port_a, outcome.links[l].port_b}

under_port(p) == {<<"port", p>>, <<"device", outcome.ports[p].device>>}

under_link(l) == {<<"link", l>>} \union UNION {under_port(p) : p \in ends(l)}

\* The parts that must work for an eligible resource to work.
rests_on(ref) ==
  CASE ref[1] = "rack" -> {}
    [] ref[1] = "device" -> {ref}
    [] ref[1] = "port" -> under_port(ref[2])
    [] ref[1] = "link" -> under_link(ref[2])
    [] ref[1] = "attachment" -> {ref} \union under_port(outcome.attachments[ref[2]].port)
    [] ref[1] = "path" -> UNION {under_link(ref[2][i]) : i \in DOMAIN ref[2]}

\* The links of a path lead from its start to its end without meeting a port twice.
simple_chain(path) ==
  \E ports \in [0 .. Len(path.links) -> DOMAIN outcome.ports] :
    /\ ports[0] = path.start /\ ports[Len(path.links)] = path.end
    /\ \A i \in DOMAIN path.links : ends(path.links[i]) = {ports[i - 1], ports[i]}
    /\ \A i, j \in DOMAIN ports : ports[i] = ports[j] => i = j

\* Authority rests on authority: whatever an eligible resource needs (the ports
\* and devices of a link, the links of a path, the port and device of an
\* attachment) is itself eligible and carries at least as much, its owners are
\* the current incarnations, and a path is a simple chain that starts at an
\* eligible attachment.  composer.cpp decides each table from the one before.
EligibleRestsOnEligible ==
  outcome.ok =>
    /\ \A ref \in {r \in DOMAIN outcome.resources : eligible(r)} : \A part \in rests_on(ref) :
         /\ eligible(part)
         /\ part[1] \in {"link", "port"} =>
              outcome.resources[ref].capacity <= outcome.resources[part].capacity
         /\ part[1] = "device" =>
              <<part[2], outcome.devices[part[2]].incarnation>> \in outcome.resources[ref].owners
    /\ \A path \in outcome.paths :
         /\ simple_chain(path)
         /\ Len(path.links) <= MaxPathHops
         /\ \E a \in eligible_in(outcome.attachments) : outcome.attachments[a].port = path.start

\* The directives in force: some source's newest record for a target, when it
\* applies to the generation and is not a clear.
in_force ==
  {s \in DOMAIN ledger.slots : s.kind = "maintenance" /\ applies(ledger.slots[s], generation)
                               /\ ledger.slots[s].claim.action # "clear"}

\* A drain holds: while any source's newest directive for the rack, a device, a
\* port or a link is a drain or a maintenance window, nothing that rests on that
\* target is eligible, whatever other sources say and in whatever order the
\* directives came.  The maintenance step of compose() and exclusion_of.
DrainsHold ==
  outcome.ok =>
    \A s \in in_force : \A ref \in {r \in DOMAIN outcome.resources : eligible(r)} :
      s.a # "rack" /\ (s.a \in {"device", "port", "link"} => <<s.a, s.b>> \notin rests_on(ref))

\* The capacity ledger is the rack: usable is what the eligible devices carry,
\* every obligation that names a resource of the rack is counted once however
\* many sources import it, both identities hold, a deficit is never hidden by
\* uncommitted capacity, and the obligations published with the resources add
\* up to the total (those to the rack by its own id aside, see README).
LedgerIsTheRack ==
  outcome.ok =>
    LET c == outcome.capacity
        published(ref) == outcome.resources[ref].obligated
        to_rack_id == obligated_to(outcome.obligations, <<"rack", Rack>>)
    IN  /\ closes(c)
        /\ c.usable = MapThenSumSet(LAMBDA d : outcome.resources[<<"device", d>>].capacity,
                                    eligible_in(outcome.devices))
        /\ c.deficit = 0 \/ c.uncommitted = 0
        /\ MapThenSumSet(published, DOMAIN outcome.resources) + to_rack_id = c.obligated

\* Overlap is seen: an eligible resource and each part it rests on have scopes
\* that intersect, so exclusive authority over one refuses the other, and no
\* scope reaches a resource that the snapshot does not have.  expand_scope.
OverlapIsSeen ==
  outcome.ok =>
    \A ref \in {r \in DOMAIN outcome.resources : eligible(r)} :
      /\ expand_scope(outcome, ref) \subseteq DOMAIN outcome.resources
      /\ \A part \in rests_on(ref) :
           scopes_intersect(expand_scope(outcome, ref), expand_scope(outcome, part))

=============================================================================
