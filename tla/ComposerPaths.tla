--------------------------- MODULE ComposerPaths ---------------------------
(***************************************************************************)
(* Path enumeration: the depth first search of compose() from the access   *)
(* ports over the eligible links to the exit ports, with its bounds on     *)
(* hops and on paths for each pair of ports.  The bound of 2^18 expansions *)
(* is not reached by the instances checked and is left out.                *)
(***************************************************************************)
EXTENDS Integers, FiniteSets, FiniteSetsExt, Sequences, SequencesExt

CONSTANTS
  MaxPathsPerPair,   \* RackConfig::max_paths_per_pair
  MaxPathHops        \* RackConfig::max_path_hops

\* The neighbours of a port over the eligible links, sorted by link and port.
neighbours(links, eligible, port) ==
  LET ends == {<<l, links[l].port_b>> : l \in {k \in eligible : links[k].port_a = port}}
              \union {<<l, links[l].port_a>> : l \in {k \in eligible : links[k].port_b = port}}
  IN  SetToSortSeq(ends, LAMBDA m, n : m[1] < n[1] \/ (m[1] = n[1] /\ m[2] < n[2]))

RECURSIVE explore(_, _, _, _, _)

\* One port's frame: search is [start, exits, adjacency], stack the links taken
\* so far, visited the ports of the open frames.
explore(search, found, port, stack, visited) ==
  LET step(acc, n) ==
        IF n[2] \in visited THEN acc
        ELSE IF Len(stack) >= MaxPathHops THEN [acc EXCEPT !.truncated = TRUE]
        ELSE IF n[2] \notin search.exits
        THEN explore(search, acc, n[2], Append(stack, n[1]), visited \union {n[2]})
        ELSE IF Cardinality({c \in acc.paths : c.start = search.start /\ c.end = n[2]})
                  < MaxPathsPerPair
        THEN [acc EXCEPT !.paths = @ \union
               {[start |-> search.start, end |-> n[2], links |-> Append(stack, n[1])]}]
        ELSE [acc EXCEPT !.truncated = TRUE]
  IN  FoldLeft(step, found, search.adjacency[port])

\* The search stops at the first access port whose search was truncated.
enumerate(links, eligible, access, exits) ==
  LET ports == UNION {{links[l].port_a, links[l].port_b} : l \in eligible} \union access
      adjacency == [p \in ports |-> neighbours(links, eligible, p)]
      from(acc, start) ==
        IF acc.truncated THEN acc
        ELSE explore([start |-> start, exits |-> exits, adjacency |-> adjacency],
                     acc, start, <<>>, {start})
  IN  FoldLeft(from, [paths |-> {}, truncated |-> FALSE], SetToSortSeq(access, <))

sequence_before(s, t) ==
  \/ IsStrictPrefix(s, t)
  \/ \E i \in DOMAIN s \intersect DOMAIN t :
       s[i] < t[i] /\ \A j \in 1 .. i - 1 : s[j] = t[j]

candidate_before(c, d) ==
  \/ c.start < d.start
  \/ c.start = d.start /\ c.end < d.end
  \/ c.start = d.start /\ c.end = d.end /\ sequence_before(c.links, d.links)

\* Sorted, then std::unique by links: adjacent candidates with the same links
\* (one link walked from either end) are one.
distinct_candidates(paths) ==
  LET sorted == SetToSortSeq(paths, candidate_before)
  IN  {sorted[i] : i \in {j \in DOMAIN sorted : j > 1 => sorted[j].links # sorted[j - 1].links}}

=============================================================================
