------------------------------ MODULE MCDaemon ------------------------------
(***************************************************************************)
(* A rack of up to two devices.  A device is a member once evidence for    *)
(* its slot has arrived; there is nothing to compose in an empty rack.     *)
(***************************************************************************)
EXTENDS Daemon

CONSTANTS r1, r2

Requests == {[r \in {r1, r2} |-> IF r = r1 THEN r2 ELSE r1]}

rack == 1
d1 == 2
d2 == 3

MCRef == 1..3
MCRack == rack
MCSlot == {d1, d2}
MCSourceOf == [s \in MCSlot |-> s]

device(up1) ==
  [eligible |-> up1, maintenance |-> FALSE, capacity_known |-> TRUE, capacity |-> 2,
   obligated |-> 0, owners |-> {}]

\* Digest 1 reports a device that is up, digest 2 one that is down.
MCTopology(slots) ==
  LET members == DOMAIN slots
      refs    == {rack} \union members
  IN  [ok |-> TRUE, members |-> members, uncommitted |-> 2 * Cardinality(members),
       res |-> [r \in refs |-> device(r = rack \/ slots[r].digest = 1)],
       scope |-> [r \in refs |-> IF r = rack THEN refs ELSE {r}]]

report(slot, sequence, digest) ==
  [slot |-> slot, generation |-> 1, sequence |-> sequence, digest |-> digest, valid |-> TRUE]

MCJoin == <<report(d1, 1, 1), report(d2, 1, 1)>>
MCFlap == <<report(d1, 1, 1), report(d1, 2, 2), report(d1, 3, 1)>>
MCOne == <<report(d1, 1, 1)>>

order(scope, mode) ==
  [scope |-> scope, mode |-> mode, capacity |-> 1, ttl |-> 1, wellformed |-> TRUE]

MCExclusive == {order(d1, "exclusive")}
MCShared == {order(d1, "shared")}
MCMixed == {order(d1, "exclusive"), order(d1, "shared")}

=============================================================================
