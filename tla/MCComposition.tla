-------------------------- MODULE MCComposition --------------------------
(***************************************************************************)
(* Two devices.  Port 11 is on device 1 and has the attachment; ports 21   *)
(* and 22 are on device 2 and 22 leaves the rack.  Links 31 (11-21), 32    *)
(* (21-22) and 33 (11-22) give a direct path and one of two hops.  Sources *)
(* 1 and 2 observe; U64Max is small so that sums can overflow.             *)
(***************************************************************************)
EXTENDS Composition

\* One observation: its digest is unique, as two sources' records always differ.
rec(digest, kind, source, sequence, claim) ==
  [kind |-> kind, source |-> source, generation |-> 1, sequence |-> sequence,
   digest |-> digest, ephemeral |-> FALSE, claim |-> claim]

member(id, rack, incarnation) == [device |-> id, rack |-> rack, incarnation |-> incarnation]
device(id, capacity, availability) ==
  [device |-> id, capacity |-> capacity, known |-> TRUE, availability |-> availability]
port(id, on, role, capacity, availability, enabled) ==
  [port |-> id, device |-> on, role |-> role, capacity |-> capacity, known |-> TRUE,
   availability |-> availability, enabled |-> enabled]
link(id, a, b, capacity) ==
  [link |-> id, port_a |-> a, port_b |-> b, capacity |-> capacity, known |-> TRUE,
   availability |-> "up"]
attachment(id, on, at) == [attachment |-> id, device |-> on, port |-> at]
directive(action, kind, id) == [action |-> action, target |-> <<kind, id>>]
obligation(id, kind, target, capacity) ==
  [obligation |-> id, target |-> <<kind, target>>, capacity |-> capacity]

MCBaseline ==
  <<rec(1, "member", 1, 1, member(1, 9, 1)), rec(2, "member", 1, 1, member(2, 9, 1)),
    rec(3, "device", 1, 1, device(1, 5, "up")), rec(4, "device", 1, 1, device(2, 6, "up")),
    rec(5, "port", 1, 1, port(11, 1, "access", 4, "up", TRUE)),
    rec(6, "port", 1, 1, port(21, 2, "access", 3, "up", TRUE)),
    rec(7, "port", 1, 1, port(22, 2, "uplink", 4, "degraded", TRUE)),
    rec(8, "link", 1, 1, link(31, 11, 21, 4)), rec(9, "link", 1, 1, link(32, 21, 22, 4)),
    rec(10, "link", 1, 1, link(33, 11, 22, 2)),
    rec(11, "attachment", 1, 1, attachment(41, 1, 11))>>

MCUpdates ==
  {rec(20, "member", 2, 1, member(1, 9, 2)),              \* another incarnation
   rec(21, "member", 2, 1, member(2, 8, 1)),              \* another rack
   [rec(22, "device", 2, 2, device(1, 5, "down")) EXCEPT !.ephemeral = TRUE],
   rec(23, "device", 2, 1, device(2, 14, "up")),          \* the same rank: conflict, overflow
   rec(24, "port", 1, 2, port(21, 2, "access", 3, "up", FALSE)),
   [rec(25, "port", 1, 2, port(22, 1, "peer", 4, "up", TRUE)) EXCEPT !.generation = 2],
   rec(26, "link", 2, 1, link(33, 11, 21, 2)),            \* the same rank: conflict
   rec(19, "link", 2, 1, link(34, 21, 21, 2)),            \* refused: one port twice
   rec(27, "attachment", 1, 1, attachment(42, 2, 21)),
   rec(28, "attachment", 1, 2, attachment(41, 2, 11)),
   rec(29, "maintenance", 1, 1, directive("drain", "port", 22)),
   rec(30, "maintenance", 1, 1, directive("maintenance", "device", 1)),
   rec(31, "maintenance", 2, 2, directive("clear", "device", 1)),  \* another source's clear
   rec(32, "maintenance", 1, 3, directive("clear", "device", 1)),
   [rec(33, "maintenance", 2, 1, directive("drain", "rack", 0)) EXCEPT !.ephemeral = TRUE],
   rec(34, "obligation", 1, 1, obligation(51, "device", 2, 3)),
   rec(35, "obligation", 2, 2, obligation(51, "port", 11, 4)),
   rec(36, "obligation", 1, 1, obligation(52, "rack", 0, 2)),
   rec(37, "obligation", 1, 1, obligation(53, "device", 7, 9))}    \* outside the rack

MCSlot ==
  {slot_of(r) : r \in MCUpdates} \union {slot_of(MCBaseline[i]) : i \in DOMAIN MCBaseline}

MCSourceOf == [s \in MCSlot |-> s.source]

MCLimits == [devices |-> 2, ports |-> 3, links |-> 3, attachments |-> 2, paths |-> 3,
             maintenance |-> 2, obligations |-> 2]

=============================================================================
