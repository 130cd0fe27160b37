---------------------------- MODULE ComposerOps ----------------------------
(***************************************************************************)
(* The composer (src/compose/composer.cpp): the pure function from the     *)
(* accepted evidence and a topology generation to a snapshot of the rack,  *)
(* and the expansion of a scope over that snapshot (scope.cpp).            *)
(*                                                                         *)
(* A record is a LedgerOps record with its kind, source, ephemeral         *)
(* (Durability) and claim, its payload; a slot is [kind, a, b, source].    *)
(* Ids are positive, 0 is unset.  A resource reference is <<kind, id>>,    *)
(* the id of a path its links (path_identity hashes them).                 *)
(* Diagnostics, names and statistics are left out, except that the path    *)
(* enumeration was truncated.  An error status is just ~ok.                *)
(***************************************************************************)
EXTENDS ComposerPaths, TLC

CONSTANTS
  Rack,            \* RackConfig::rack
  HeadroomFloor,   \* RackConfig::headroom_floor
  ComposeLimits,   \* the bound on each table of a snapshot, by name
  U64Max           \* the largest Capacity

\* The subject of a claim: subject_a and subject_b of its slot.
subject_of(kind, claim) ==
  CASE kind = "member" -> <<claim.device, claim.rack>>
    [] kind = "device" -> <<claim.device, 0>>
    [] kind = "port" -> <<claim.port, 0>>
    [] kind = "link" -> <<claim.link, 0>>
    [] kind = "attachment" -> <<claim.attachment, 0>>
    [] kind = "maintenance" -> claim.target
    [] kind = "obligation" -> <<claim.obligation, claim.target[2]>>

slot_of(r) ==
  LET subject == subject_of(r.kind, r.claim)
  IN  [kind |-> r.kind, a |-> subject[1], b |-> subject[2], source |-> r.source]

\* The checks on identities and targets; those on text and encoding are left out.
validate_evidence(r) ==
  /\ r.source # 0
  /\ CASE r.kind = "member" -> r.claim.device # 0 /\ r.claim.rack # 0
       [] r.kind = "device" -> r.claim.device # 0
       [] r.kind = "port" -> r.claim.port # 0 /\ r.claim.device # 0
       [] r.kind = "link" -> 0 \notin {r.claim.link, r.claim.port_a, r.claim.port_b}
                             /\ r.claim.port_a # r.claim.port_b
       [] r.kind = "attachment" -> 0 \notin {r.claim.attachment, r.claim.device, r.claim.port}
       [] r.kind = "maintenance" -> r.claim.target[1] = "rack" <=> r.claim.target[2] = 0
       [] r.kind = "obligation" -> r.claim.obligation # 0
                                   /\ (r.claim.target[2] = 0 => r.claim.target[1] = "rack")

\* applicability_of = kApply.
applies(r, target) == r.generation <= target /\ (r.ephemeral => r.generation = target)

claims(slots, target, kind) ==
  {slots[s] : s \in {t \in DOMAIN slots : t.kind = kind /\ applies(slots[t], target)}}

------------------------------------------------------------------------------
\* Selection.  The ledger map is walked in slot order: among the slots of one
\* kind and one subject_a, by subject_b and then by source.
slot_before(r, q) ==
  \/ r.slot.b < q.slot.b
  \/ r.slot.b = q.slot.b /\ r.slot.source < q.slot.source

strictly_newer(r, q) ==
  \/ r.generation > q.generation
  \/ r.generation = q.generation /\ r.sequence > q.sequence

absent == [present |-> FALSE, conflicted |-> FALSE]

\* conflicted survives a newer record (slot.conflicted = was_conflicted).
offer(sel, r) ==
  IF ~sel.present THEN [present |-> TRUE, conflicted |-> FALSE, record |-> r]
  ELSE IF strictly_newer(r, sel.record) THEN [sel EXCEPT !.record = r]
  ELSE IF strictly_newer(sel.record, r) \/ r.digest = sel.record.digest THEN sel
  ELSE [sel EXCEPT !.conflicted = TRUE,
                   !.record = IF r.digest < @.digest THEN r ELSE @]

in_slot_order(R) == SetToSortSeq(R, slot_before)

selections(R) ==
  [id \in {r.slot.a : r \in R} |->
     FoldLeft(offer, absent, in_slot_order({r \in R : r.slot.a = id}))]

------------------------------------------------------------------------------
\* Membership and maintenance.
members_of(R) ==
  LET here == {r \in R : r.claim.rack = Rack}
  IN  [d \in {r.slot.a : r \in here} |->
         LET seen == {r.claim.incarnation : r \in {q \in here : q.slot.a = d}}
         IN  [indeterminate |-> Cardinality(seen) > 1, incarnation |-> Max(seen)]]

\* Variant: the newest directive for a target decides, whoever sent it.
excluded_by_newest(R) ==
  {<<r.slot.a, r.slot.b>> : r \in {q \in R :
     /\ q.claim.action # "clear"
     /\ \A o \in R : <<o.slot.a, o.slot.b>> = <<q.slot.a, q.slot.b>> => ~strictly_newer(o, q)}}

\* The targets that some source's newest directive drains or maintains.
excluded_targets(R) ==
  {<<r.slot.a, r.slot.b>> : r \in {q \in R : q.claim.action # "clear"}}

rack_excluded(excluded) == <<"rack", 0>> \in excluded

exclusion_of(excluded, kind, id) == rack_excluded(excluded) \/ <<kind, id>> \in excluded

------------------------------------------------------------------------------
\* The tables.  Each entry has eligibility, and capacity meaningful when known.
is_usable(availability) == availability \in {"up", "degraded"}

availability_rank == [unknown |-> 0, down |-> 1, maintenance |-> 2, degraded |-> 3, up |-> 4]

combine_availability(a, b) == IF availability_rank[a] <= availability_rank[b] THEN a ELSE b

judged(incomplete, eligible) ==
  IF incomplete THEN "incomplete" ELSE IF eligible THEN "eligible" ELSE "ineligible"

eligible_in(table) == {id \in DOMAIN table : table[id].eligibility = "eligible"}

device_table(selected, members, excluded) ==
  [d \in DOMAIN members |->
     IF d \notin DOMAIN selected
     THEN [incarnation |-> members[d].incarnation, capacity |-> 0, known |-> FALSE,
           availability |-> "unknown", eligibility |-> "incomplete"]
     ELSE LET c == selected[d].record.claim
          IN  [incarnation |-> members[d].incarnation, capacity |-> c.capacity,
               known |-> c.known, availability |-> c.availability,
               eligibility |-> judged(selected[d].conflicted \/ members[d].indeterminate,
                                      /\ ~exclusion_of(excluded, "device", d)
                                      /\ c.known /\ is_usable(c.availability))]]

port_table(selected, devices, excluded) ==
  [p \in {q \in DOMAIN selected : selected[q].record.claim.device \in DOMAIN devices} |->
     LET c == selected[p].record.claim
     IN  [device |-> c.device, role |-> c.role, capacity |-> c.capacity, known |-> c.known,
          availability |-> c.availability,
          eligibility |-> judged(selected[p].conflicted,
                                 /\ ~exclusion_of(excluded, "device", c.device)
                                 /\ ~exclusion_of(excluded, "port", p)
                                 /\ devices[c.device].eligibility = "eligible"
                                 /\ c.known /\ is_usable(c.availability) /\ c.enabled)]]

\* Variant: the state of the ports themselves is not looked at.
sound_ends_ignored(c, a, b, excluded) ==
  /\ \A d \in {a.device, b.device} : ~exclusion_of(excluded, "device", d)
  /\ \A p \in {c.port_a, c.port_b} : ~exclusion_of(excluded, "port", p)

sound_ends(c, a, b, excluded) ==
  /\ \A d \in {a.device, b.device} : ~exclusion_of(excluded, "device", d)
  /\ \A p \in {c.port_a, c.port_b} : ~exclusion_of(excluded, "port", p)
  /\ {a.eligibility, b.eligibility} = {"eligible"}

\* A link whose two ports, a and b, are both known.
link_between(sel, id, a, b, excluded) ==
  LET c == sel.record.claim
      availability == combine_availability(combine_availability(c.availability, a.availability),
                                           b.availability)
      known == c.known /\ a.known /\ b.known
  IN  [port_a |-> c.port_a, port_b |-> c.port_b, availability |-> availability, known |-> known,
       capacity |-> IF a.known /\ b.known THEN Min({c.capacity, a.capacity, b.capacity})
                    ELSE c.capacity,
       eligibility |-> judged(sel.conflicted,
                              /\ sound_ends(c, a, b, excluded)
                              /\ ~exclusion_of(excluded, "link", id)
                              /\ known /\ is_usable(availability))]

link_table(selected, ports, excluded) ==
  [l \in DOMAIN selected |->
     LET c == selected[l].record.claim
     IN  IF {c.port_a, c.port_b} \subseteq DOMAIN ports
         THEN link_between(selected[l], l, ports[c.port_a], ports[c.port_b], excluded)
         ELSE [port_a |-> c.port_a, port_b |-> c.port_b, availability |-> c.availability,
               known |-> c.known, capacity |-> c.capacity, eligibility |-> "incomplete"]]

attachment_table(selected, devices, ports) ==
  [a \in DOMAIN selected |->
     LET c == selected[a].record.claim
         bound == /\ c.device \in DOMAIN devices /\ c.port \in DOMAIN ports
                  /\ ports[c.port].device = c.device
     IN  [device |-> c.device, port |-> c.port,
          eligibility |-> judged(~bound \/ selected[a].conflicted,
                                 /\ devices[c.device].eligibility = "eligible"
                                 /\ ports[c.port].eligibility = "eligible")]]

\* entry.first is the target of the last slot walked, whatever was selected.
obligation_table(R, in_rack) ==
  LET selected == selections(R)
      target(id) == Last(in_slot_order({r \in R : r.slot.a = id})).claim.target
  IN  [id \in {o \in DOMAIN selected : target(o) \in in_rack} |->
         [target |-> target(id), capacity |-> selected[id].record.claim.capacity]]

------------------------------------------------------------------------------
\* The capacity ledger; with a sum past U64Max the composition fails.
units(table, S) == MapThenSumSet(LAMBDA id : table[id].capacity, S)

obligated_to(obligations, target) ==
  units(obligations, {o \in DOMAIN obligations : obligations[o].target = target})

known_in(devices) == {d \in DOMAIN devices : devices[d].known}

\* Variant: a device that is up but excluded or in conflict still counts.
out_of_service_down(devices) == {d \in known_in(devices) : ~is_usable(devices[d].availability)}

\* An eligible device is usable, so is_usable adds nothing to the test.
out_of_service(devices) == known_in(devices) \ eligible_in(devices)

capacity_ledger(devices, obligations) ==
  LET total == units(devices, known_in(devices))
      unavailable == units(devices, out_of_service(devices))
      usable == total - unavailable
      obligated == units(obligations, DOMAIN obligations)
      claimed == obligated + HeadroomFloor
  IN  [total |-> total, unavailable |-> unavailable, usable |-> usable, obligated |-> obligated,
       headroom_floor |-> HeadroomFloor,
       deficit |-> IF claimed > usable THEN claimed - usable ELSE 0,
       uncommitted |-> IF claimed > usable THEN 0 ELSE usable - claimed,
       overflow |-> total > U64Max \/ claimed > U64Max]

\* CapacityLedger::closes.
closes(c) ==
  /\ c.unavailable + c.usable = c.total
  /\ c.usable + c.deficit = c.obligated + c.headroom_floor + c.uncommitted
  /\ {c.total, c.usable + c.deficit} \subseteq 0 .. U64Max

------------------------------------------------------------------------------
\* The published resource states.
resource(entry, capacity, known, obligated, maintenance, owners) ==
  [eligibility |-> entry.eligibility, capacity |-> capacity, known |-> known,
   obligated |-> obligated, maintenance |-> maintenance, owners |-> owners]

\* A device that is not a member owns nothing.
owner_of(devices, d) == IF d \in DOMAIN devices THEN {<<d, devices[d].incarnation>>} ELSE {}

port_owner(data, p) ==
  IF p \in DOMAIN data.ports THEN owner_of(data.devices, data.ports[p].device) ELSE {}

link_owners(data, l) ==
  port_owner(data, data.links[l].port_a) \union port_owner(data, data.links[l].port_b)

\* What an attachment can carry: its port, and no more than its device.
attachment_capacity(data, a) ==
  LET at == data.attachments[a]
      known == at.port \in DOMAIN data.ports /\ data.ports[at.port].known
      device_known == at.device \in DOMAIN data.devices /\ data.devices[at.device].known
  IN  [known |-> known,
       units |-> IF ~known THEN 0
                 ELSE Min({data.ports[at.port].capacity}
                          \union IF device_known THEN {data.devices[at.device].capacity} ELSE {})]

path_states(data, obligations) ==
  [links \in {p.links : p \in data.paths} |->
     LET known == \A i \in DOMAIN links : links[i] \in eligible_in(data.links)
     IN  resource([eligibility |-> IF known THEN "eligible" ELSE "incomplete"],
                  Min({data.links[links[i]].capacity : i \in DOMAIN links}), known,
                  obligated_to(obligations, <<"path", links>>), FALSE,
                  UNION {link_owners(data, links[i]) : i \in DOMAIN links})]

\* The rack's obligations are looked up under id 0 only; the maintenance flag of
\* a link leaves out directives on its ports.
resource_table(data, obligations, excluded, total) ==
  LET refs(kind, table) == {<<kind, id>> : id \in DOMAIN table}
      ob(ref) == obligated_to(obligations, ref)
      drained(d) == d \in DOMAIN data.devices /\ exclusion_of(excluded, "device", d)
      device(d) == resource(data.devices[d], data.devices[d].capacity, data.devices[d].known,
                            ob(<<"device", d>>), drained(d), owner_of(data.devices, d))
      port(p) == resource(data.ports[p], data.ports[p].capacity, data.ports[p].known,
                          ob(<<"port", p>>),
                          drained(data.ports[p].device) \/ exclusion_of(excluded, "port", p),
                          port_owner(data, p))
      link(l) == resource(data.links[l], data.links[l].capacity, data.links[l].known,
                          ob(<<"link", l>>),
                          \/ exclusion_of(excluded, "link", l)
                          \/ \E p \in {data.links[l].port_a, data.links[l].port_b} :
                               p \in DOMAIN data.ports /\ drained(data.ports[p].device),
                          link_owners(data, l))
      attachment(a) == resource(data.attachments[a], attachment_capacity(data, a).units,
                                attachment_capacity(data, a).known, ob(<<"attachment", a>>),
                                drained(data.attachments[a].device),
                                owner_of(data.devices, data.attachments[a].device))
      rack == resource([eligibility |-> IF rack_excluded(excluded) THEN "ineligible" ELSE "eligible"],
                       total, TRUE, ob(<<"rack", 0>>), rack_excluded(excluded),
                       UNION {owner_of(data.devices, d) : d \in DOMAIN data.devices})
      paths == path_states(data, obligations)
  IN  [ref \in {<<"rack", Rack>>} \union refs("device", data.devices) \union refs("port", data.ports)
                \union refs("link", data.links) \union refs("attachment", data.attachments)
                \union refs("path", paths) |->
         CASE ref[1] = "rack" -> rack
           [] ref[1] = "device" -> device(ref[2])
           [] ref[1] = "port" -> port(ref[2])
           [] ref[1] = "link" -> link(ref[2])
           [] ref[1] = "attachment" -> attachment(ref[2])
           [] ref[1] = "path" -> paths[ref[2]]]

------------------------------------------------------------------------------
in_rack_targets(data) ==
  {<<"rack", Rack>>, <<"rack", 0>>}
  \union {<<"device", d>> : d \in DOMAIN data.devices} \union {<<"port", p>> : p \in DOMAIN data.ports}
  \union {<<"link", l>> : l \in DOMAIN data.links}
  \union {<<"attachment", a>> : a \in DOMAIN data.attachments}

within_limits(data, excluded, obligations) ==
  /\ Cardinality(DOMAIN data.devices) <= ComposeLimits.devices
  /\ Cardinality(DOMAIN data.ports) <= ComposeLimits.ports
  /\ Cardinality(DOMAIN data.links) <= ComposeLimits.links
  /\ Cardinality(DOMAIN data.attachments) <= ComposeLimits.attachments
  /\ Cardinality(excluded) <= ComposeLimits.maintenance
  /\ Cardinality(DOMAIN obligations) <= ComposeLimits.obligations

\* The tables that compose() fills in this order, each from the ones before it.
topology(slots, target, excluded) ==
  LET chosen(kind) == selections(claims(slots, target, kind))
      devices == device_table(chosen("device"), members_of(claims(slots, target, "member")), excluded)
      ports == port_table(chosen("port"), devices, excluded)
  IN  [devices |-> devices, ports |-> ports,
       links |-> link_table(chosen("link"), ports, excluded),
       attachments |-> attachment_table(chosen("attachment"), devices, ports)]

\* The paths from the ports of eligible attachments to the ports that leave the rack.
search(data) ==
  enumerate(data.links, eligible_in(data.links),
            {data.attachments[a].port : a \in eligible_in(data.attachments)},
            {p \in DOMAIN data.ports : data.ports[p].role \in {"uplink", "fabric", "peer"}})

compose(slots, target) ==
  LET excluded == excluded_targets(claims(slots, target, "maintenance"))
      tables == topology(slots, target, excluded)
      obligations == obligation_table(claims(slots, target, "obligation"), in_rack_targets(tables))
      capacity == capacity_ledger(tables.devices, obligations)
      searched == search(tables)
      data == tables @@ [paths |-> distinct_candidates(searched.paths)]
  IN  IF \/ ~within_limits(tables, excluded, obligations)
         \/ capacity.overflow \/ ~closes(capacity)
         \/ Cardinality(searched.paths) > ComposeLimits.paths
      THEN [ok |-> FALSE]
      ELSE [ok |-> TRUE, capacity |-> capacity, obligations |-> obligations,
            maintenance |-> excluded, truncated |-> searched.truncated,
            resources |-> resource_table(data, obligations, excluded, capacity.total)] @@ data

------------------------------------------------------------------------------
\* Variant: a scope covers its root only.
expand_scope_shallow(snapshot, root) == {root}

\* What a scope covers: {} when the snapshot does not have the root.
expand_scope(snapshot, root) ==
  LET id == root[2]
      end(l) == {snapshot.links[l].port_a, snapshot.links[l].port_b}
      of_device(p) == p \in DOMAIN snapshot.ports /\ snapshot.ports[p].device = id
      links(P(_)) == {<<"link", l>> : l \in {k \in DOMAIN snapshot.links : \E p \in end(k) : P(p)}}
      attached(P(_)) == {<<"attachment", a>> : a \in {b \in DOMAIN snapshot.attachments : P(snapshot.attachments[b])}}
  IN  IF root \notin DOMAIN snapshot.resources THEN {}
      ELSE CASE root[1] = "rack" -> DOMAIN snapshot.resources
             [] root[1] = "device" ->
                  {root} \union {<<"port", p>> : p \in {q \in DOMAIN snapshot.ports : of_device(q)}}
                  \union links(of_device) \union attached(LAMBDA a : a.device = id)
             [] root[1] = "port" ->
                  {root} \union links(LAMBDA p : p = id) \union attached(LAMBDA a : a.port = id)
             [] root[1] = "link" -> {root} \union {<<"port", p>> : p \in end(id)}
             [] root[1] = "attachment" -> {root}
             [] root[1] = "path" -> {root} \union {<<"link", id[i]>> : i \in DOMAIN id}

scopes_intersect(a, b) == a \intersect b # {}

=============================================================================
