-------------------------- MODULE MCGrantRegistry --------------------------
(***************************************************************************)
(* A rack of two devices and, in some snapshots, a link between their      *)
(* ports.  The snapshots differ in topology, eligibility, maintenance,     *)
(* capacity and membership, so a lease can be overtaken by each of them.   *)
(***************************************************************************)
EXTENDS GrantRegistry

d1 == 2
d2 == 3
p1 == 4
p2 == 5
link == 6

MCRef == 1..6
MCRack == 1
MCDevices == {d1, d2}

ports(d) == IF d = d1 THEN {p1} ELSE {p2}
device_of(r) == IF r \in {d1, p1} THEN d1 ELSE d2

owners(r, inc2) ==
  {[device |-> d, incarnation |-> IF d = d1 THEN 1 ELSE inc2] :
     d \in IF r = MCRack THEN {} ELSE IF r = link THEN {d1, d2} ELSE {device_of(r)}}

\* linked: the link exists; down: ineligible resources; closed: resources
\* inside a maintenance window; inc2: the incarnation of device d2.  The rack
\* has less to give in the second epoch.
mk(generation, epoch, lifecycle, linked, down, closed, inc2) ==
  LET present == IF linked THEN MCRef ELSE MCRef \ {link}
      wire    == present \intersect {link}
  IN  [generation |-> generation, epoch |-> epoch, lifecycle |-> lifecycle,
       uncommitted |-> IF epoch = 1 THEN 3 ELSE 1,
       res |-> [r \in present |->
                  [eligible |-> r \notin down, maintenance |-> r \in closed,
                   capacity_known |-> TRUE, capacity |-> IF r \in {d1, d2} THEN 2 ELSE 1,
                   obligated |-> 0, owners |-> owners(r, inc2)]],
       scope |-> [r \in present |->
                    CASE r = MCRack -> present
                      [] r \in {d1, d2} -> {r} \union ports(r) \union wire
                      [] r \in {p1, p2} -> {r} \union wire
                      [] r = link -> {link, p1, p2}]]

MCSnapshots ==
  {mk(1, 1, "active", FALSE, {}, {}, 1),
   mk(2, 1, "active", TRUE, {}, {}, 1),
   mk(2, 1, "draining", FALSE, {d2, p2}, {d1}, 1),
   mk(3, 2, "active", TRUE, {}, {}, 2)}

order(scope, mode, capacity, ttl) ==
  [scope |-> scope, mode |-> mode, capacity |-> capacity, ttl |-> ttl, wellformed |-> TRUE]

MCOrders == {order(d1, "exclusive", 1, 2), order(d2, "shared", 1, 1)}

first == CHOOSE s \in MCSnapshots : s.generation = 1

durable(id, fence, request, scope, mode) ==
  [id |-> id, request |-> request, scope |-> scope, mode |-> mode, capacity |-> 1,
   generation |-> 1, epoch |-> 1, incarnation |-> 1, fence |-> fence, expires_at |-> 2,
   state |-> "active",
   authority_basis |-> authority_basis_digest(first, expand_scope(first, scope)),
   capacity_pool |-> capacity_pool_refs(first, scope)]

CONSTANTS r1, r2

MCDurableGrants ==
  {g \in {durable(1, 1, r1, d1, "exclusive"), durable(2, 3, r2, d1, "exclusive")} :
     basis_holds(first, g)}

=============================================================================
