--------------------------- MODULE OperatorProofs ---------------------------
(***************************************************************************)
(* For any number of invocations of rnfctl side by side, any stories and   *)
(* any width of the identities: exit codes tell the truth, a declaration   *)
(* is not hidden by an earlier one, and lookup finds what acquire decided. *)
(***************************************************************************)
EXTENDS Operator, WellFoundedInduction, TLAPS

-----------------------------------------------------------------------------
(* The inductive invariant.                                                *)

Members ==
  {"at", "command", "fault", "arg", "generation", "sequence", "exit", "took", "lost",
   "due", "answer", "before"}

\* One invocation: what it may have been told, and what it ends with.
Sound(r) ==
  /\ DOMAIN r = Members /\ r.at \in {"parsed", "viewed", "exited"}
  /\ r.generation \in Nat /\ r.sequence \in Nat
  /\ r.command = "compose" => r.arg \in Nat
  /\ r.at # "exited" => r.exit = 0 /\ r.took = "nothing" /\ r.due = {}
  /\ r.at = "exited" => /\ r.exit = 0 => r.took = "accepted"
                        /\ r.exit = 2 => r.took = "nothing"
                        /\ r.command = "lookup" => r.due \subseteq r.answer

\* The rank an invocation gives its record is not ahead of the daemon's
\* generation and the clock.
Dated(r, generation, time) == r.generation <= generation /\ r.sequence <= time

\* What had ended when an invocation began was numbered lower, as soon as it
\* has numbered its own record.
Follows(r, q, time) ==
  /\ q.at = "exited"
  /\ r.at = "parsed" => q.sequence < time
  /\ r.at = "viewed" \/ r.took = "accepted" =>
       q.sequence < r.sequence /\ q.generation <= r.generation

Invoked(p) ==
  /\ Sound(proc[p]) /\ Dated(proc[p], core.generation, clock)
  /\ \A q \in proc[p].before : q \in Invocations /\ Follows(proc[p], proc[q], clock)

Procs ==
  /\ DOMAIN proc = Invocations /\ clock \in Nat
  /\ story \in Stories
  /\ \A p \in Invocations : proc[p] = unused \/ Invoked(p)

\* The record an invocation declares.
declared(p, r) ==
  [slot |-> r.command, generation |-> r.generation, sequence |-> r.sequence,
   digest |-> p, valid |-> TRUE]

\* A slot holds the record of an invocation that has ended, and a record that
\* was taken is not above it.
Stored ==
  /\ DOMAIN core.ledger = {"slots", "history", "sources", "conflicts", "superseded"}
  /\ \A s \in DOMAIN core.ledger.slots : \E q \in Invocations :
       /\ proc[q].at = "exited" /\ proc[q].command = s
       /\ core.ledger.slots[s] = declared(q, proc[q])
  /\ \A p \in Invocations :
       (/\ proc[p].at = "exited" /\ proc[p].took = "accepted"
        /\ proc[p].command \in EvidenceCommands) =>
         /\ proc[p].command \in DOMAIN core.ledger.slots
         /\ ~outranked(core.ledger.slots[proc[p].command], declared(p, proc[p]))

Core ==
  /\ DOMAIN core = {"ledger", "generation", "fence", "live", "outcomes", "asked"}
  /\ core.generation \in Nat

\* What acquire decided for a text is remembered under its request.
Decided ==
  \A x \in core.asked : \E o \in core.outcomes :
    o.id = acquire_request(x.text) /\ o.fence = x.fence

IInv == Core /\ Procs /\ Stored /\ Decided

-----------------------------------------------------------------------------
(* Text: the loop of lookup and the two loops of acquire.                  *)

\* A non-empty set of natural numbers has a least element.
LEMMA Least ==
  ASSUME NEW T \in SUBSET Nat, T # {}
  PROVE  \E x \in T : \A y \in T : x <= y
<1> DEFINE R == OpToRel(<, Nat)
<1>1. IsWellFoundedOn(R, Nat)
  BY NatLessThanWellFounded, Zenon
<1>2. \A y, x \in Nat : <<y, x>> \in R <=> y < x
  BY DEF OpToRel
<1> HIDE DEF R
<1>3. PICK x \in T : \A y \in T : <<y, x>> \notin R
  BY <1>1, WFMin, Zenon
<1>4. \A y \in T : ~(y < x)
  BY <1>2, <1>3, Zenon
<1> QED
  BY <1>4

\* One more digit.
next_value(v, c) == (v * 16 + digit_of(c)) % Values

\* The values after each digit from first to end.
Shifts(f, text, first, end) ==
  f = [i \in (first - 1) .. end |->
         IF i = first - 1 THEN 0 ELSE next_value(f[i - 1], text[i])]

\* A loop over any part of a text has such values.
LEMMA SomeShifts ==
  ASSUME NEW text, NEW first \in Nat \ {0}, NEW n \in Nat
  PROVE  \E f : Shifts(f, text, first, first - 1 + n)
<1> DEFINE T == {m \in Nat : ~ \E f : Shifts(f, text, first, first - 1 + m)}
<1>1. SUFFICES ASSUME T # {} PROVE FALSE
  OBVIOUS
<1>2. PICK m \in T : \A y \in T : m <= y
  BY <1>1, Least, Zenon
<1>3. m # 0
  <2> DEFINE f == [i \in (first - 1) .. (first - 1) |-> 0]
  <2>1. f = [i \in (first - 1) .. (first - 1 + 0) |->
               IF i = first - 1 THEN 0 ELSE next_value(f[i - 1], text[i])]
    OBVIOUS
  <2> HIDE DEF f
  <2>2. \E g : Shifts(g, text, first, first - 1 + 0)
    BY <2>1, Zenon DEF Shifts
  <2> QED
    BY <2>2
<1>4. m \in Nat /\ m - 1 \in Nat /\ m - 1 \notin T
  BY <1>2, <1>3
<1>5. PICK f : Shifts(f, text, first, first - 1 + (m - 1))
  BY <1>4
<1> DEFINE e == first - 1 + m
           g == [i \in (first - 1) .. e |-> IF i = e THEN next_value(f[e - 1], text[e]) ELSE f[i]]
<1>6. e \in Nat /\ e > first - 1 /\ first - 1 + (m - 1) = e - 1
  BY <1>4
<1>7. f = [i \in (first - 1) .. (e - 1) |->
             IF i = first - 1 THEN 0 ELSE next_value(f[i - 1], text[i])]
  BY <1>5, <1>6, Zenon DEF Shifts
<1> HIDE DEF e
<1>8. ASSUME NEW i \in (first - 1) .. e
      PROVE  g[i] = IF i = first - 1 THEN 0 ELSE next_value(g[i - 1], text[i])
  <2>1. CASE i = e
    <3>1. g[i] = next_value(f[e - 1], text[e]) /\ g[i - 1] = f[e - 1]
      BY <1>6, <2>1
    <3> QED
      BY <1>6, <2>1, <3>1
  <2>2. CASE i # e
    <3>1. i \in (first - 1) .. (e - 1) /\ g[i] = f[i]
      BY <1>6, <2>2
    <3>2. i # first - 1 => g[i - 1] = f[i - 1]
      BY <1>6, <2>2
    <3>3. f[i] = IF i = first - 1 THEN 0 ELSE next_value(f[i - 1], text[i])
      BY <1>7, <3>1, Zenon
    <3> QED
      BY <3>1, <3>2, <3>3
  <2> QED
    BY <2>1, <2>2
<1>9. g = [i \in (first - 1) .. e |->
             IF i = first - 1 THEN 0 ELSE next_value(g[i - 1], text[i])]
  BY <1>8
<1> HIDE DEF g
<1>10. Shifts(g, text, first, first - 1 + m)
  BY <1>9, Zenon DEF Shifts, e
<1> QED
  BY <1>2, <1>10

\* What a loop returns is the last of the values it goes through.
LEMMA ShiftedValue ==
  ASSUME NEW text, NEW first \in Nat \ {0}, NEW end \in Nat, end >= first - 1
  PROVE  \E f : Shifts(f, text, first, end) /\ shifted(text, first, end) = f[end]
<1> DEFINE h == CHOOSE f : Shifts(f, text, first, end)
<1>1. end - (first - 1) \in Nat /\ first - 1 + (end - (first - 1)) = end
  OBVIOUS
<1>2. \E f : Shifts(f, text, first, end)
  BY <1>1, SomeShifts, Zenon
<1>3. Shifts(h, text, first, end)
  BY <1>2, Zenon
<1>4. shifted(text, first, end) = h[end]
  BY Zenon DEF shifted, Shifts, next_value
<1> QED
  BY <1>3, <1>4, Zenon

\* What lookup's loop makes of a text are the halves that acquire's two loops
\* make of it, for any number of digits.
LEMMA OneLoop ==
  ASSUME NEW text
  PROVE  lookup_request(text) = acquire_request(text)
<1> DEFINE D == Digits
           E == 2 * Digits
<1>0. D \in Nat \ {0} /\ E \in Nat /\ E = D + D /\ D + 1 \in Nat \ {0}
  BY OperatorAssumption
<1>1. PICK u : Shifts(u, text, 1, D) /\ shifted(text, 1, D) = u[D]
  BY <1>0, ShiftedValue
<1>2. PICK v : Shifts(v, text, D + 1, E) /\ shifted(text, D + 1, E) = v[E]
  BY <1>0, ShiftedValue
<1>3. u = [i \in 0 .. D |-> IF i = 0 THEN 0 ELSE next_value(u[i - 1], text[i])]
  BY <1>0, <1>1 DEF Shifts
<1>4. v = [i \in D .. E |-> IF i = D THEN 0 ELSE next_value(v[i - 1], text[i])]
  BY <1>0, <1>2 DEF Shifts
<1> HIDE DEF D, E
<1> DEFINE step(x, i) ==
             [x EXCEPT ![IF i <= D THEN 1 ELSE 2] = next_value(@, text[i])]
           Loop(g) == g = [i \in 0 .. E |-> IF i = 0 THEN <<0, 0>> ELSE step(g[i - 1], i)]
           both == [i \in 0 .. E |-> IF i <= D THEN <<u[i], 0>> ELSE <<u[D], v[i]>>]
<1>5. ASSUME NEW i \in 1 .. E
      PROVE  both[i] = step(both[i - 1], i)
  <2>1. CASE i <= D
    <3>1. both[i] = <<u[i], 0>> /\ both[i - 1] = <<u[i - 1], 0>>
      BY <1>0, <2>1
    <3>2. u[i] = next_value(u[i - 1], text[i])
      BY <1>0, <1>3, <2>1
    <3> HIDE DEF both
    <3> QED
      BY <2>1, <3>1, <3>2
  <2>2. CASE i = D + 1
    <3>1. both[i] = <<u[D], v[i]>> /\ both[i - 1] = <<u[D], 0>> /\ ~(i <= D)
      BY <1>0, <2>2
    <3>2. v[i] = next_value(0, text[i])
      BY <1>0, <1>4, <2>2
    <3> HIDE DEF both
    <3> QED
      BY <3>1, <3>2
  <2>3. CASE i > D + 1
    <3>1. both[i] = <<u[D], v[i]>> /\ both[i - 1] = <<u[D], v[i - 1]>> /\ ~(i <= D)
      BY <1>0, <2>3
    <3>2. v[i] = next_value(v[i - 1], text[i])
      BY <1>0, <1>4, <2>3
    <3> HIDE DEF both
    <3> QED
      BY <3>1, <3>2
  <2> QED
    BY <1>0, <2>1, <2>2, <2>3
<1>6. both[0] = <<0, 0>> /\ both[E] = <<u[D], v[E]>>
  BY <1>0, <1>3
<1> DEFINE read == CHOOSE g : Loop(g)
<1>7. Loop(both)
  <2>1. DOMAIN both = 0 .. E /\ both = [i \in 0 .. E |-> both[i]]
    OBVIOUS
  <2> HIDE DEF both, step
  <2>2. ASSUME NEW i \in 0 .. E
        PROVE  both[i] = IF i = 0 THEN <<0, 0>> ELSE step(both[i - 1], i)
    <3>1. i # 0 => i \in 1 .. E
      BY <1>0
    <3> QED
      BY <1>5, <1>6, <3>1, Zenon
  <2> QED
    BY <2>1, <2>2
<1> HIDE DEF both, step
<1>8. Loop(read)
  <2> HIDE DEF Loop
  <2> QED
    BY <1>7, Zenon
<1>9. lookup_request(text) = read[E]
  BY Zenon DEF lookup_request, next_value, D, E, step
<1> HIDE DEF read
<1>10. read[E] = both[E]
  <2> DEFINE T == {i \in 0 .. E : read[i] # both[i]}
  <2>1. SUFFICES ASSUME T # {} PROVE FALSE
    BY <1>0
  <2>2. PICK i \in T : \A y \in T : i <= y
    <3>1. T \in SUBSET Nat
      BY <1>0
    <3> QED
      BY <2>1, <3>1, Least, Zenon
  <2>3. i # 0
    BY <1>0, <1>6, <1>8, <2>2
  <2>4. i \in 1 .. E /\ i - 1 \in 0 .. E /\ i - 1 \notin T
    BY <1>0, <2>2, <2>3
  <2>5. read[i - 1] = both[i - 1]
    BY <2>4
  <2>6. read[i] = step(read[i - 1], i)
    BY <1>8, <2>3, <2>4
  <2> QED
    BY <1>5, <2>2, <2>4, <2>5, <2>6
<1>11. acquire_request(text) = <<u[D], v[E]>>
  BY <1>1, <1>2, Zenon DEF acquire_request, D, E
<1> QED
  BY <1>6, <1>9, <1>10, <1>11, Zenon

-----------------------------------------------------------------------------
(* The invariant is kept by every action.                                  *)

\* The initial states.
LEMMA InitIInv == Init => IInv
<1> SUFFICES ASSUME Init PROVE IInv
  OBVIOUS
<1>1. /\ core.ledger = empty_ledger /\ core.generation = 0 /\ core.asked = {}
      /\ DOMAIN core = {"ledger", "generation", "fence", "live", "outcomes", "asked"}
  BY DEF Init
<1>2. /\ DOMAIN proc = Invocations /\ \A p \in Invocations : proc[p] = unused
      /\ clock \in Nat /\ story \in Stories
  BY DEF Init
<1>3. \A p \in Invocations : proc[p].at = "unused"
  BY <1>2 DEF unused
<1>4. Stored
  <2>1. /\ DOMAIN core.ledger = {"slots", "history", "sources", "conflicts", "superseded"}
        /\ DOMAIN core.ledger.slots = {}
    BY <1>1 DEF empty_ledger
  <2> QED
    BY <1>3, <2>1 DEF Stored
<1> QED
  BY <1>1, <1>2, <1>4 DEF IInv, Core, Procs, Decided

\* What an invocation that ends keeps of itself.
Ends(r, s) ==
  /\ s.at = "exited" /\ Sound(s)
  /\ s.command = r.command /\ s.generation = r.generation /\ s.sequence = r.sequence
  /\ s.before = r.before
  /\ s.took = "accepted" => r.at = "viewed"

ended(r, code, took, lost) ==
  [r EXCEPT !.at = "exited", !.exit = code, !.took = took, !.lost = lost]

\* The code says what the daemon did, which did something only for a command
\* that was sent.
fits(r, code, took) ==
  /\ code = 0 => took = "accepted"
  /\ code = 2 => took = "nothing"
  /\ took = "accepted" => r.at = "viewed"

\* exits() ends an invocation that is at work.
LEMMA ExitEnds ==
  ASSUME NEW r, Sound(r), r.at # "exited", NEW code, NEW took, NEW lost,
         fits(r, code, took)
  PROVE  Ends(r, ended(r, code, took, lost))
<1> DEFINE s == ended(r, code, took, lost)
<1>1. /\ DOMAIN s = Members /\ s.at = "exited" /\ s.exit = code /\ s.took = took
      /\ s.command = r.command /\ s.generation = r.generation /\ s.sequence = r.sequence
      /\ s.before = r.before /\ s.arg = r.arg /\ s.due = r.due
  BY DEF Sound, Members, ended
<1> HIDE DEF s
<1>2. Sound(s)
  BY <1>1 DEF Sound, fits
<1> QED
  BY <1>1, <1>2 DEF Ends, s, fits

\* The other invocations when one ends, whatever that did to the daemon.
LEMMA EndedProcs ==
  ASSUME IInv, NEW p \in Invocations, proc[p].at \in {"parsed", "viewed"}, NEW s,
         Ends(proc[p], s), proc' = [proc EXCEPT ![p] = s], clock' = clock, story' = story,
         core'.generation \in Nat, core.generation <= core'.generation
  PROVE  Procs'
<1>1. Procs /\ core.generation \in Nat
  BY DEF IInv, Core
<1>2. proc[p] # unused /\ Invoked(p)
  BY <1>1 DEF Procs, unused
<1>3. /\ DOMAIN proc' = Invocations /\ proc'[p] = s
      /\ \A q \in Invocations \ {p} : proc'[q] = proc[q]
  BY <1>1 DEF Procs
<1>4. \A q \in Invocations : proc[q].at = "exited" => proc'[q] = proc[q]
  BY <1>3
<1>5. ASSUME NEW q \in Invocations, proc'[q] # unused PROVE Invoked(q)'
  <2> DEFINE r == proc[q]
             t == proc'[q]
  <2>1. /\ Invoked(q) /\ Sound(t) /\ t.generation = r.generation /\ t.sequence = r.sequence
        /\ t.before = r.before
        /\ t.at = "parsed" => r.at = "parsed"
        /\ t.at = "viewed" \/ t.took = "accepted" => r.at = "viewed" \/ r.took = "accepted"
    <3>1. CASE q = p
      BY <1>2, <1>3, <3>1 DEF Ends
    <3>2. CASE q # p
      BY <1>1, <1>3, <1>5, <3>2 DEF Procs, Invoked
    <3> QED
      BY <3>1, <3>2
  <2>2. Dated(t, core'.generation, clock')
    <3>1. r.generation \in Nat /\ r.generation <= core.generation /\ r.sequence <= clock
      BY <2>1 DEF Invoked, Sound, Dated
    <3> QED
      BY <1>1, <2>1, <3>1 DEF Dated
  <2>3. ASSUME NEW b \in t.before
        PROVE  b \in Invocations /\ Follows(t, proc'[b], clock')
    <3>1. b \in Invocations /\ Follows(r, proc[b], clock)
      BY <2>1 DEF Invoked
    <3>2. proc'[b] = proc[b]
      BY <1>4, <3>1 DEF Follows
    <3> QED
      BY <2>1, <3>1, <3>2 DEF Follows
  <2> QED
    BY <2>1, <2>2, <2>3 DEF Invoked
<1> QED
  BY <1>1, <1>3, <1>5 DEF Procs

\* The slots when an invocation ends that declared nothing.
LEMMA EndedStored ==
  ASSUME IInv, NEW p \in Invocations, proc[p].at \in {"parsed", "viewed"}, NEW s,
         Ends(proc[p], s), proc' = [proc EXCEPT ![p] = s], core'.ledger = core.ledger,
         ~(s.took = "accepted" /\ s.command \in EvidenceCommands)
  PROVE  Stored'
<1>1. /\ proc'[p] = s /\ \A q \in Invocations \ {p} : proc'[q] = proc[q]
  BY DEF IInv, Procs
<1>2. ASSUME NEW c \in DOMAIN core.ledger.slots
      PROVE  \E q \in Invocations : /\ proc'[q].at = "exited" /\ proc'[q].command = c
                                    /\ core'.ledger.slots[c] = declared(q, proc'[q])
  <2>1. PICK q \in Invocations : /\ proc[q].at = "exited" /\ proc[q].command = c
                                 /\ core.ledger.slots[c] = declared(q, proc[q])
    BY DEF IInv, Stored
  <2>2. proc'[q] = proc[q]
    BY <1>1, <2>1
  <2> QED
    BY <2>1, <2>2
<1>3. ASSUME NEW q \in Invocations, proc'[q].at = "exited", proc'[q].took = "accepted",
             proc'[q].command \in EvidenceCommands
      PROVE  /\ proc'[q].command \in DOMAIN core.ledger.slots
             /\ ~outranked(core.ledger.slots[proc'[q].command], declared(q, proc'[q]))
  <2>1. proc'[q] = proc[q]
    BY <1>1, <1>3
  <2> QED
    BY <1>3, <2>1 DEF IInv, Stored
<1> QED
  BY <1>2, <1>3 DEF IInv, Stored

\* An invocation that ends without a declaration.
LEMMA EndedIInv ==
  ASSUME IInv, NEW p \in Invocations, proc[p].at \in {"parsed", "viewed"}, NEW s,
         Ends(proc[p], s), proc' = [proc EXCEPT ![p] = s], clock' = clock, story' = story,
         ~(s.took = "accepted" /\ s.command \in EvidenceCommands),
         Core', core.generation <= core'.generation, core'.ledger = core.ledger, Decided'
  PROVE  IInv'
<1>1. core'.generation \in Nat
  BY DEF Core
<1>2. Procs'
  BY <1>1, EndedProcs
<1>3. Stored'
  BY EndedStored
<1> QED
  BY <1>2, <1>3 DEF IInv

\* The same for exits() and a daemon that stays as it was.
LEMMA ExitIInv ==
  ASSUME IInv, NEW p \in Invocations, proc[p].at \in {"parsed", "viewed"},
         NEW code, NEW took, NEW lost, exits(p, code, took, lost),
         fits(proc[p], code, took),
         ~(took = "accepted" /\ proc[p].command \in EvidenceCommands),
         Core', core.generation <= core'.generation, core'.ledger = core.ledger, Decided',
         UNCHANGED <<clock, story>>
  PROVE  IInv'
<1> DEFINE s == ended(proc[p], code, took, lost)
<1>1. Sound(proc[p]) /\ proc[p].at # "exited"
  <2>1. proc[p] # unused
    BY DEF unused
  <2> QED
    BY <2>1 DEF IInv, Procs, Invoked
<1>2. Ends(proc[p], s)
  BY <1>1, ExitEnds, Zenon
<1>3. proc' = [proc EXCEPT ![p] = s]
  BY DEF exits, ended
<1> HIDE DEF s
<1>4. s.command = proc[p].command /\ s.took = took
  BY <1>1, <1>2 DEF Ends, s, ended, Sound, Members
<1> QED
  BY <1>2, <1>3, <1>4, EndedIInv

\* What the actions of rnfctl alone leave to the daemon.
LEMMA SameCore ==
  ASSUME IInv, core' = core
  PROVE  /\ Core' /\ core.generation <= core'.generation /\ core'.ledger = core.ledger
         /\ Decided'
BY DEF IInv, Core, Decided

\* A command that was sent and run, whether or not its answer arrives.
LEMMA RunsIInv ==
  ASSUME IInv, NEW p \in Invocations, proc[p].at = "viewed",
         NEW code, NEW took, runs(p, code, took),
         code = 0 => took = "accepted", code # 2,
         ~(took = "accepted" /\ proc[p].command \in EvidenceCommands),
         Core', core.generation <= core'.generation, core'.ledger = core.ledger, Decided',
         UNCHANGED <<clock, story>>
  PROVE  IInv'
<1>1. proc[p].at \in {"parsed", "viewed"} /\ fits(proc[p], code, took) /\ fits(proc[p], 1, took)
  BY DEF fits
<1>2. CASE exits(p, code, took, FALSE)
  BY <1>1, <1>2, ExitIInv
<1>3. CASE exits(p, 1, took, TRUE)
  BY <1>1, <1>3, ExitIInv
<1> QED
  BY <1>2, <1>3 DEF runs

\* Invocations that end without the daemon's answer.
LEMMA UnansweredIInv ==
  ASSUME IInv, NEW p \in Invocations, NoSession(p) \/ Refuse(p) \/ Unreached(p) \/ BadRequest(p)
  PROVE  IInv'
<1> DEFINE quits(code, lost) == /\ exits(p, code, "nothing", lost) /\ code # 0
                                /\ proc[p].at \in {"parsed", "viewed"}
                                /\ UNCHANGED <<core, clock, story>>
<1>a. 1 # 0 /\ 2 # 0
  OBVIOUS
<1>0. quits(1, TRUE) \/ quits(usage_exit(proc[p]), FALSE) \/ quits(2, FALSE)
  <2>1. NoSession(p) => quits(1, TRUE)
    BY <1>a, Zenon DEF NoSession
  <2>2. Refuse(p) => quits(usage_exit(proc[p]), FALSE)
    BY Zenon DEF Refuse
  <2>3. Unreached(p) => quits(1, TRUE)
    BY <1>a, Zenon DEF Unreached
  <2>4. BadRequest(p) => quits(2, FALSE)
    BY <1>a, Zenon DEF BadRequest, sends
  <2> QED
    BY <2>1, <2>2, <2>3, <2>4, Zenon
<1>1. PICK code, lost : quits(code, lost)
  <2> HIDE DEF quits
  <2> QED
    BY <1>0, Zenon
<1>2. fits(proc[p], code, "nothing")
  BY <1>1 DEF fits
<1>3. /\ Core' /\ core.generation <= core'.generation /\ core'.ledger = core.ledger /\ Decided'
  BY <1>1, SameCore
<1> QED
  BY <1>1, <1>2, <1>3, ExitIInv

\* Commands that leave the ledger and the requests alone.
LEMMA CommandIInv ==
  ASSUME IInv, NEW p \in Invocations, Inspect(p) \/ Compose(p) \/ Control(p)
  PROVE  IInv'
<1> DEFINE commands == {"state", "stats", "paths", "grants", "resources", "hello", "compose",
                        "lifecycle", "checkpoint", "shutdown"}
<1>1. /\ proc[p].at = "viewed" /\ proc[p].command \in commands /\ UNCHANGED <<clock, story>>
  BY DEF Inspect, Compose, Control, sends
<1>2. proc[p].command \notin EvidenceCommands
  BY <1>1 DEF EvidenceCommands
<1>3. \E code \in {0, 1}, took \in {"accepted", "refused"} :
        runs(p, code, took) /\ (code = 0 => took = "accepted")
  <2>1. CASE Inspect(p)
    BY <2>1 DEF Inspect
  <2>2. CASE Compose(p)
    <3>1. CASE \E composed \in BOOLEAN :
                 runs(p, IF composed THEN 0 ELSE 1, IF composed THEN "accepted" ELSE "refused")
      <4>1. PICK composed \in BOOLEAN :
              runs(p, IF composed THEN 0 ELSE 1, IF composed THEN "accepted" ELSE "refused")
        BY <3>1
      <4>2. CASE composed
        BY <4>1, <4>2
      <4>3. CASE ~composed
        BY <4>1, <4>3
      <4> QED
        BY <4>2, <4>3
    <3>2. CASE runs(p, 1, "refused")
      BY <3>2
    <3> QED
      BY <2>2, <3>1, <3>2 DEF Compose
  <2>3. CASE Control(p)
    BY <2>3 DEF Control
  <2> QED
    BY <2>1, <2>2, <2>3
<1>4. /\ Core' /\ core.generation <= core'.generation /\ core'.ledger = core.ledger /\ Decided'
  <2>1. CASE core' = core
    BY <2>1, SameCore
  <2>2. CASE /\ proc[p].command = "compose" /\ proc[p].arg >= core.generation
             /\ core' = [core EXCEPT !.generation = proc[p].arg]
    <3>1. proc[p].arg \in Nat
      <4>1. proc[p] # unused
        BY <1>1 DEF unused
      <4> QED
        BY <2>2, <4>1 DEF IInv, Procs, Invoked, Sound
    <3>2. /\ DOMAIN core' = DOMAIN core /\ core'.generation = proc[p].arg
          /\ core'.ledger = core.ledger /\ core'.asked = core.asked
          /\ core'.outcomes = core.outcomes
      BY <2>2 DEF IInv, Core
    <3> QED
      BY <2>2, <3>1, <3>2 DEF IInv, Core, Decided
  <2> QED
    BY <2>1, <2>2 DEF Inspect, Compose, Control, sends
<1> QED
  BY <1>1, <1>2, <1>3, <1>4, RunsIInv

\* acquire decides, and the daemon remembers the decision.
LEMMA AcquireIInv ==
  ASSUME IInv, NEW p \in Invocations, Acquire(p)
  PROVE  IInv'
<1> DEFINE id == acquire_request(proc[p].arg)
<1>1. /\ proc[p].at = "viewed" /\ proc[p].command = "acquire" /\ UNCHANGED <<clock, story>>
  BY DEF Acquire, sends
<1>2. PICK fence :
        /\ core' = [core EXCEPT !.outcomes = @ \union {[id |-> id, fence |-> fence]},
                                !.asked = @ \union {[text |-> proc[p].arg, fence |-> fence]},
                                !.fence = IF fence > @ THEN fence ELSE @,
                                !.live = IF fence > core.fence THEN @ \union {fence} ELSE @]
        /\ runs(p, acquire_exit(fence), IF fence = 0 THEN "refused" ELSE "accepted")
  BY Zenon DEF Acquire
<1>3. /\ DOMAIN core' = DOMAIN core /\ core'.generation = core.generation
      /\ core'.ledger = core.ledger
      /\ core'.outcomes = core.outcomes \union {[id |-> id, fence |-> fence]}
      /\ core'.asked = core.asked \union {[text |-> proc[p].arg, fence |-> fence]}
  BY <1>2 DEF IInv, Core
<1>4. Decided'
  <2> SUFFICES ASSUME NEW x \in core'.asked
               PROVE  \E o \in core'.outcomes : o.id = acquire_request(x.text) /\ o.fence = x.fence
    BY DEF Decided
  <2>1. CASE x \in core.asked
    BY <1>3, <2>1 DEF IInv, Decided
  <2>2. CASE x = [text |-> proc[p].arg, fence |-> fence]
    <3>1. x.text = proc[p].arg /\ x.fence = fence
      BY <2>2
    <3>2. [id |-> id, fence |-> fence] \in core'.outcomes
      BY <1>3
    <3> QED
      BY <3>1, <3>2
  <2> QED
    BY <1>3, <2>1, <2>2
<1>5. Core' /\ core.generation <= core'.generation
  BY <1>3 DEF IInv, Core
<1>6. proc[p].command \notin EvidenceCommands
  BY <1>1 DEF EvidenceCommands
<1>7. CASE fence = 0
  <2>1. runs(p, 1, "refused")
    BY <1>2, <1>7 DEF acquire_exit
  <2> QED
    BY <1>1, <1>3, <1>4, <1>5, <1>6, <2>1, RunsIInv
<1>8. CASE fence # 0
  <2>1. runs(p, 0, "accepted")
    BY <1>2, <1>8 DEF acquire_exit
  <2> QED
    BY <1>1, <1>3, <1>4, <1>5, <1>6, <2>1, RunsIInv
<1> QED
  BY <1>7, <1>8

\* lookup reads the request as acquire does, so it finds what was decided.
LEMMA LookupIInv ==
  ASSUME IInv, NEW p \in Invocations, Lookup(p)
  PROVE  IInv'
<1> DEFINE r == proc[p]
           due == {a.fence : a \in {x \in core.asked : x.text = r.arg}}
           answer == remembered(lookup_request(r.arg))
           s == [r EXCEPT !.at = "exited", !.took = "accepted", !.due = due, !.answer = answer]
<1>1. /\ r.at = "viewed" /\ r.command = "lookup" /\ UNCHANGED <<core, clock, story>>
      /\ proc' = [proc EXCEPT ![p] = s]
  BY DEF Lookup, sends
<1>2. due \subseteq answer
  <2> SUFFICES ASSUME NEW a \in core.asked, a.text = r.arg
               PROVE  a.fence \in remembered(lookup_request(r.arg))
    OBVIOUS
  <2>1. PICK o \in core.outcomes : o.id = acquire_request(a.text) /\ o.fence = a.fence
    BY DEF IInv, Decided
  <2>2. o.id = lookup_request(r.arg)
    BY <2>1, OneLoop
  <2> QED
    BY <2>1, <2>2 DEF remembered
<1> HIDE DEF due, answer
<1>3. Sound(r)
  <2>1. r # unused
    BY <1>1 DEF unused
  <2> QED
    BY <2>1 DEF IInv, Procs, Invoked
<1>4. /\ DOMAIN s = Members /\ s.at = "exited" /\ s.exit = 0 /\ s.took = "accepted"
      /\ s.command = "lookup" /\ s.generation = r.generation /\ s.sequence = r.sequence
      /\ s.before = r.before /\ s.arg = r.arg /\ s.due = due /\ s.answer = answer
  BY <1>1, <1>3 DEF Sound, Members
<1> HIDE DEF s
<1>5. Ends(r, s) /\ s.command \notin EvidenceCommands
  BY <1>1, <1>2, <1>3, <1>4 DEF Ends, Sound, EvidenceCommands
<1>6. /\ Core' /\ core.generation <= core'.generation /\ core'.ledger = core.ledger /\ Decided'
  BY <1>1, SameCore
<1> QED
  BY <1>1, <1>5, <1>6, EndedIInv

\* renew, release and validate.
LEMMA TokenIInv ==
  ASSUME IInv, NEW p \in Invocations, Token(p)
  PROVE  IInv'
<1> DEFINE r == proc[p]
           due == {shifted(r.arg, 1, Digits)} \intersect core.live
           s(code, took, lost) ==
             [r EXCEPT !.at = "exited", !.exit = code, !.took = took, !.lost = lost, !.due = due]
<1>1. r.at = "viewed" /\ r.command \in TokenCommands /\ UNCHANGED <<clock, story>>
  BY DEF Token, sends
<1> DEFINE ends(code, took, lost) == /\ proc' = [proc EXCEPT ![p] = s(code, took, lost)]
                                     /\ code = 0 => took = "accepted"
                                     /\ code # 2
<1>2. \E code, took, lost : ends(code, took, lost)
  <2> DEFINE typed == parse_u64(r.arg)
             printed == shifted(r.arg, 1, Digits)
             alive == typed.value = printed /\ printed \in core.live
             now(code, took, lost) == proc' = [proc EXCEPT ![p] = s(code, took, lost)]
  <2>1. \/ now(1, "nothing", FALSE)
        \/ now(IF alive THEN 0 ELSE 1, IF alive THEN "accepted" ELSE "refused", FALSE)
        \/ now(1, IF alive THEN "accepted" ELSE "refused", TRUE)
    BY Zenon DEF Token
  <2>2. \A took, lost : now(1, took, lost) => ends(1, took, lost)
    OBVIOUS
  <2>3. now(0, "accepted", FALSE) => ends(0, "accepted", FALSE)
    OBVIOUS
  <2> HIDE DEF now, ends, alive
  <2>4. \/ now(1, "nothing", FALSE) \/ now(0, "accepted", FALSE) \/ now(1, "refused", FALSE)
        \/ now(1, "accepted", TRUE) \/ now(1, "refused", TRUE)
    BY <2>1, Zenon
  <2> QED
    BY <2>2, <2>3, <2>4, Zenon
<1>3. PICK code, took, lost : ends(code, took, lost)
  BY <1>2, Zenon
<1> DEFINE t == s(code, took, lost)
<1>4. Sound(r)
  <2>1. r # unused
    BY <1>1 DEF unused
  <2> QED
    BY <2>1 DEF IInv, Procs, Invoked
<1>5. /\ DOMAIN t = Members /\ t.at = "exited" /\ t.exit = code /\ t.took = took
      /\ t.command = r.command /\ t.generation = r.generation /\ t.sequence = r.sequence
      /\ t.before = r.before /\ t.arg = r.arg
  BY <1>4 DEF Sound, Members
<1>6. proc' = [proc EXCEPT ![p] = t]
  BY <1>3
<1> HIDE DEF t
<1>7. Ends(r, t) /\ t.command \notin EvidenceCommands
  BY <1>1, <1>3, <1>4, <1>5 DEF Ends, Sound, EvidenceCommands, TokenCommands
<1>8. /\ Core' /\ core.generation <= core'.generation /\ core'.ledger = core.ledger /\ Decided'
  <2>1. CASE core' = core
    BY <2>1, SameCore
  <2>2. CASE \E new : core' = [core EXCEPT !.live = new]
    <3>1. /\ DOMAIN core' = DOMAIN core /\ core'.generation = core.generation
          /\ core'.ledger = core.ledger /\ core'.asked = core.asked
          /\ core'.outcomes = core.outcomes
      BY <2>2 DEF IInv, Core
    <3> QED
      BY <3>1 DEF IInv, Core, Decided
  <2> QED
    BY <2>1, <2>2, Zenon DEF Token
<1> QED
  BY <1>1, <1>6, <1>7, <1>8, EndedIInv

\* What insert() makes of the slots, for a record that is not there yet.
LEMMA InsertSlots ==
  ASSUME NEW l, NEW r, ~refused(l, r),
         DOMAIN l = {"slots", "history", "sources", "conflicts", "superseded"},
         r.generation \in Nat, r.sequence \in Nat,
         r.slot \in DOMAIN l.slots => /\ l.slots[r.slot].digest # r.digest
                                      /\ l.slots[r.slot].generation \in Nat
                                      /\ l.slots[r.slot].sequence \in Nat
  PROVE  LET n == insert(l, r)
         IN  /\ DOMAIN n = DOMAIN l /\ DOMAIN n.slots = DOMAIN l.slots \union {r.slot}
             /\ \A c \in DOMAIN l.slots \ {r.slot} : n.slots[c] = l.slots[c]
             /\ \/ n.slots[r.slot] = r
                \/ r.slot \in DOMAIN l.slots /\ n.slots[r.slot] = l.slots[r.slot]
             /\ ~outranked(n.slots[r.slot], r)
             /\ r.slot \in DOMAIN l.slots => ~outranked(n.slots[r.slot], l.slots[r.slot])
<1> DEFINE n == insert(l, r)
           old == l.slots[r.slot]
           new == [c \in DOMAIN l.slots \union {r.slot} |-> IF c = r.slot THEN r ELSE l.slots[c]]
<1>1. ~outranked(r, r)
  BY DEF outranked
<1>2. /\ DOMAIN n = DOMAIN l
      /\ \/ n.slots = new /\ (r.slot \in DOMAIN l.slots => ~outranked(r, old))
         \/ r.slot \in DOMAIN l.slots /\ n.slots = l.slots /\ ~outranked(old, r)
  <2>1. CASE r.slot \notin DOMAIN l.slots
    <3>1. n = insert_new(l, r)
      BY <2>1 DEF insert
    <3> QED
      BY <2>1, <3>1 DEF insert_new, store_slot
  <2>2. CASE r.slot \in DOMAIN l.slots /\ outranked(r, old)
    <3>1. n = insert_older(l, r)
      BY <2>2 DEF insert
    <3>2. ~outranked(old, r)
      BY <2>2 DEF outranked
    <3>3. DOMAIN n = DOMAIN l /\ n.slots = l.slots
      BY <3>1 DEF insert_older, store_history
    <3> QED
      BY <2>2, <3>2, <3>3
  <2>3. CASE r.slot \in DOMAIN l.slots /\ ~outranked(r, old) /\ outranked(old, r)
    <3>1. n = insert_newer(l, r)
      BY <2>3 DEF insert
    <3>2. DOMAIN n = DOMAIN l /\ n.slots = new
      BY <3>1 DEF insert_newer, store_history, store_slot
    <3> QED
      BY <2>3, <3>2
  <2>4. CASE r.slot \in DOMAIN l.slots /\ ~outranked(r, old) /\ ~outranked(old, r)
    <3>1. n = insert_conflicting(l, r)
      BY <2>4 DEF insert
    <3>2. DOMAIN n = DOMAIN l /\ n.slots \in {new, l.slots}
      BY <3>1 DEF insert_conflicting, store_history, store_slot
    <3> QED
      BY <2>4, <3>2
  <2> QED
    BY <2>1, <2>2, <2>3, <2>4
<1> HIDE DEF n
<1>3. CASE n.slots = new /\ (r.slot \in DOMAIN l.slots => ~outranked(r, old))
  <2>1. /\ DOMAIN n.slots = DOMAIN l.slots \union {r.slot} /\ n.slots[r.slot] = r
        /\ \A c \in DOMAIN l.slots \ {r.slot} : n.slots[c] = l.slots[c]
    BY <1>3
  <2> QED
    BY <1>1, <1>2, <1>3, <2>1 DEF n
<1>4. CASE r.slot \in DOMAIN l.slots /\ n.slots = l.slots /\ ~outranked(old, r)
  <2>1. ~outranked(old, old)
    BY <1>4 DEF outranked
  <2>2. DOMAIN n.slots = DOMAIN l.slots \union {r.slot}
    BY <1>4
  <2> QED
    BY <1>2, <1>4, <2>1, <2>2 DEF n
<1> QED
  BY <1>2, <1>3, <1>4

ranked(r) == r.generation \in Nat /\ r.sequence \in Nat

\* Ranks are ordered.
LEMMA RankOrder ==
  ASSUME NEW a, NEW b, NEW d, ranked(a), ranked(b), ranked(d),
         ~outranked(a, b), ~outranked(b, d)
  PROVE  ~outranked(a, d)
<1>1. ASSUME NEW ag \in Nat, NEW aq \in Nat, NEW bg \in Nat, NEW bq \in Nat,
             NEW dg \in Nat, NEW dq \in Nat,
             ag >= bg, ag = bg => aq >= bq, bg >= dg, bg = dg => bq >= dq
      PROVE  ag >= dg /\ (ag = dg => aq >= dq)
  BY <1>1
<1>2. /\ a.generation >= b.generation /\ b.generation >= d.generation
      /\ a.generation = b.generation => a.sequence >= b.sequence
      /\ b.generation = d.generation => b.sequence >= d.sequence
  BY DEF outranked, ranked
<1>3. /\ a.generation >= d.generation
      /\ a.generation = d.generation => a.sequence >= d.sequence
  BY <1>1, <1>2 DEF ranked
<1> QED
  BY <1>3 DEF outranked, ranked

\* The slots after a declaration that was taken.
LEMMA DeclaredStored ==
  ASSUME IInv, NEW p \in Invocations, proc[p].at = "viewed",
         proc[p].command \in EvidenceCommands, NEW s, Ends(proc[p], s),
         proc' = [proc EXCEPT ![p] = s],
         ~refused(core.ledger, declared(p, proc[p])),
         core'.ledger = insert(core.ledger, declared(p, proc[p]))
  PROVE  Stored'
<1> DEFINE r == proc[p]
           l == core.ledger
           n == insert(l, declared(p, r))
           c == r.command
<1>1. /\ proc'[p] = s /\ \A q \in Invocations \ {p} : proc'[q] = proc[q]
  BY DEF IInv, Procs
<1>2. /\ s.at = "exited" /\ s.command = c /\ s.generation = r.generation
      /\ s.sequence = r.sequence
  BY DEF Ends
<1>3. \A q \in Invocations : proc[q].at \in {"viewed", "exited"} => 
        proc[q].generation \in Nat /\ proc[q].sequence \in Nat
  <2> SUFFICES ASSUME NEW q \in Invocations, proc[q].at \in {"viewed", "exited"}
               PROVE  proc[q].generation \in Nat /\ proc[q].sequence \in Nat
    OBVIOUS
  <2>1. proc[q] # unused
    BY DEF unused
  <2> QED
    BY <2>1 DEF IInv, Procs, Invoked, Sound
<1>4. ASSUME NEW q, NEW t
      PROVE  /\ declared(q, t).slot = t.command /\ declared(q, t).generation = t.generation
             /\ declared(q, t).sequence = t.sequence /\ declared(q, t).digest = q
  BY DEF declared
<1>5. ASSUME NEW k \in DOMAIN l.slots
      PROVE  \E q \in Invocations \ {p} : /\ proc[q].at = "exited" /\ proc[q].command = k
                                          /\ l.slots[k] = declared(q, proc[q])
  BY DEF IInv, Stored
<1>6. /\ DOMAIN l = {"slots", "history", "sources", "conflicts", "superseded"}
      /\ declared(p, r).generation \in Nat /\ declared(p, r).sequence \in Nat
      /\ declared(p, r).slot = c /\ declared(p, s) = declared(p, r)
  BY <1>2, <1>3 DEF declared, IInv, Stored
<1>7. c \in DOMAIN l.slots => /\ l.slots[c].digest # p
                              /\ l.slots[c].generation \in Nat /\ l.slots[c].sequence \in Nat
  <2> SUFFICES ASSUME c \in DOMAIN l.slots
               PROVE  /\ l.slots[c].digest # p
                      /\ l.slots[c].generation \in Nat /\ l.slots[c].sequence \in Nat
    OBVIOUS
  <2>1. PICK q \in Invocations \ {p} : proc[q].at = "exited" /\ l.slots[c] = declared(q, proc[q])
    BY <1>5
  <2> QED
    BY <1>3, <1>4, <2>1
<1>8. /\ DOMAIN n = DOMAIN l /\ DOMAIN n.slots = DOMAIN l.slots \union {c}
      /\ \A k \in DOMAIN l.slots \ {c} : n.slots[k] = l.slots[k]
      /\ n.slots[c] = declared(p, r) \/ (c \in DOMAIN l.slots /\ n.slots[c] = l.slots[c])
      /\ ~outranked(n.slots[c], declared(p, r))
      /\ c \in DOMAIN l.slots => ~outranked(n.slots[c], l.slots[c])
  <2> DEFINE d == declared(p, r)
  <2>1. d.digest = p /\ d.slot = c
    BY <1>4
  <2>2. /\ ~refused(l, d)
        /\ DOMAIN l = {"slots", "history", "sources", "conflicts", "superseded"}
        /\ d.generation \in Nat /\ d.sequence \in Nat
        /\ d.slot \in DOMAIN l.slots => /\ l.slots[d.slot].digest # d.digest
                                         /\ l.slots[d.slot].generation \in Nat
                                         /\ l.slots[d.slot].sequence \in Nat
    BY <1>6, <1>7, <2>1
  <2> HIDE DEF d
  <2>3. /\ DOMAIN insert(l, d) = DOMAIN l
        /\ DOMAIN insert(l, d).slots = DOMAIN l.slots \union {d.slot}
        /\ \A k \in DOMAIN l.slots \ {d.slot} : insert(l, d).slots[k] = l.slots[k]
        /\ \/ insert(l, d).slots[d.slot] = d
           \/ d.slot \in DOMAIN l.slots /\ insert(l, d).slots[d.slot] = l.slots[d.slot]
        /\ ~outranked(insert(l, d).slots[d.slot], d)
        /\ d.slot \in DOMAIN l.slots => ~outranked(insert(l, d).slots[d.slot], l.slots[d.slot])
    BY <2>2, InsertSlots, Zenon
  <2> QED
    BY <2>1, <2>3, Zenon DEF d
<1>9. core'.ledger = n
  OBVIOUS
<1> HIDE DEF n
<1>10. ASSUME NEW k \in DOMAIN n.slots
       PROVE  \E q \in Invocations : /\ proc'[q].at = "exited" /\ proc'[q].command = k
                                     /\ n.slots[k] = declared(q, proc'[q])
  <2>1. CASE k = c /\ n.slots[c] = declared(p, r)
    BY <1>1, <1>2, <1>6, <2>1
  <2>2. CASE k \in DOMAIN l.slots /\ n.slots[k] = l.slots[k]
    <3>1. PICK q \in Invocations \ {p} : /\ proc[q].at = "exited" /\ proc[q].command = k
                                         /\ l.slots[k] = declared(q, proc[q])
      BY <1>5, <2>2
    <3> QED
      BY <1>1, <2>2, <3>1
  <2> QED
    BY <1>8, <1>10, <2>1, <2>2
<1>11. ASSUME NEW q \in Invocations, proc'[q].at = "exited", proc'[q].took = "accepted",
              proc'[q].command \in EvidenceCommands
       PROVE  /\ proc'[q].command \in DOMAIN n.slots
              /\ ~outranked(n.slots[proc'[q].command], declared(q, proc'[q]))
  <2>1. CASE q = p
    BY <1>1, <1>2, <1>6, <1>8, <2>1
  <2>2. CASE q # p
    <3> DEFINE k == proc[q].command
               d == declared(q, proc[q])
    <3>1. proc'[q] = proc[q]
      BY <1>1, <2>2
    <3>2. k \in DOMAIN l.slots /\ ~outranked(l.slots[k], d)
      BY <1>11, <3>1 DEF IInv, Stored
    <3>3. CASE k # c
      BY <1>8, <3>1, <3>2, <3>3
    <3>4. CASE k = c
      <4>1. ~outranked(n.slots[c], l.slots[c]) /\ ~outranked(l.slots[c], d)
        BY <1>8, <3>2, <3>4
      <4>2. ranked(d)
        BY <1>3, <1>4, <1>11, <3>1 DEF ranked
      <4>3. ranked(l.slots[c]) /\ ranked(declared(p, r))
        BY <1>6, <1>7, <3>2, <3>4 DEF ranked
      <4>4. ranked(n.slots[c])
        BY <1>8, <4>3, Zenon
      <4> HIDE DEF d
      <4>5. ~outranked(n.slots[c], d)
        BY <4>1, <4>2, <4>3, <4>4, RankOrder, Zenon
      <4> QED
        BY <1>8, <3>1, <3>4, <4>5 DEF d
    <3> QED
      BY <3>3, <3>4
  <2> QED
    BY <2>1, <2>2
<1>12. DOMAIN n = {"slots", "history", "sources", "conflicts", "superseded"}
  BY <1>6, <1>8, Zenon
<1>13. \A k \in DOMAIN n.slots : \E q \in Invocations :
         /\ proc'[q].at = "exited" /\ proc'[q].command = k
         /\ n.slots[k] = declared(q, proc'[q])
  BY <1>10, Zenon
<1>14. \A q \in Invocations :
         (/\ proc'[q].at = "exited" /\ proc'[q].took = "accepted"
          /\ proc'[q].command \in EvidenceCommands) =>
           /\ proc'[q].command \in DOMAIN n.slots
           /\ ~outranked(n.slots[proc'[q].command], declared(q, proc'[q]))
  BY <1>11, Zenon
<1> QED
  BY <1>9, <1>12, <1>13, <1>14 DEF Stored

\* A declaration.
LEMMA DeclareIInv ==
  ASSUME IInv, NEW p \in Invocations, Declare(p)
  PROVE  IInv'
<1> DEFINE record == declared(p, proc[p])
<1>1. /\ proc[p].at = "viewed" /\ proc[p].command \in EvidenceCommands
      /\ core' = [core EXCEPT !.ledger = insert(core.ledger, record)]
      /\ UNCHANGED <<clock, story>>
      /\ IF refused(core.ledger, record) THEN runs(p, 1, "refused") ELSE runs(p, 0, "accepted")
  BY DEF Declare, sends, begin_record, declared
<1> HIDE DEF record
<1>2. /\ DOMAIN core' = DOMAIN core /\ core'.generation = core.generation
      /\ core'.ledger = insert(core.ledger, record)
      /\ core'.asked = core.asked /\ core'.outcomes = core.outcomes
  BY <1>1 DEF IInv, Core
<1>3. Core' /\ core.generation <= core'.generation /\ core'.generation \in Nat /\ Decided'
  BY <1>2 DEF IInv, Core, Decided
<1>4. CASE refused(core.ledger, record)
  <2>1. core'.ledger = core.ledger /\ runs(p, 1, "refused")
    BY <1>1, <1>2, <1>4 DEF insert
  <2> QED
    BY <1>1, <1>3, <2>1, RunsIInv
<1>5. CASE ~refused(core.ledger, record)
  <2>1. PICK code \in {0, 1}, lost \in BOOLEAN : exits(p, code, "accepted", lost)
    BY <1>1, <1>5 DEF runs
  <2> DEFINE s == ended(proc[p], code, "accepted", lost)
  <2>2. Sound(proc[p]) /\ proc[p].at # "exited" /\ fits(proc[p], code, "accepted")
    <3>1. proc[p] # unused
      BY <1>1 DEF unused
    <3> QED
      BY <1>1, <2>1, <3>1 DEF IInv, Procs, Invoked, fits
  <2>3. Ends(proc[p], s)
    BY <2>2, ExitEnds
  <2>4. proc' = [proc EXCEPT ![p] = s]
    BY <2>1 DEF exits, ended
  <2> HIDE DEF s
  <2>5. Procs'
    BY <1>1, <1>3, <2>3, <2>4, EndedProcs
  <2>6. Stored'
    BY <1>1, <1>2, <1>5, <2>3, <2>4, DeclaredStored DEF record
  <2> QED
    BY <1>3, <2>5, <2>6 DEF IInv
<1> QED
  BY <1>4, <1>5

\* An invocation that is not at its end changes nothing for the others.
LEMMA AtWork ==
  ASSUME IInv, NEW p \in Invocations, proc[p].at # "exited", NEW s,
         proc' = [proc EXCEPT ![p] = s], UNCHANGED <<core, clock, story>>,
         s.at = "exited" => s.took = "nothing",
         Sound(s), Dated(s, core.generation, clock),
         \A b \in s.before : b \in Invocations /\ Follows(s, proc[b], clock)
  PROVE  IInv'
<1>1. /\ DOMAIN proc' = Invocations /\ proc'[p] = s
      /\ \A q \in Invocations \ {p} : proc'[q] = proc[q]
  BY DEF IInv, Procs
<1>2. \A q \in Invocations : proc[q].at = "exited" => proc'[q] = proc[q]
  BY <1>1
<1>3. ASSUME NEW q \in Invocations, proc'[q] # unused PROVE Invoked(q)'
  <2>1. CASE q = p
    <3>1. \A b \in s.before : proc'[b] = proc[b]
      BY <1>2 DEF Follows
    <3> QED
      BY <1>1, <2>1, <3>1 DEF Invoked
  <2>2. CASE q # p
    <3>1. proc'[q] = proc[q] /\ Invoked(q)
      BY <1>1, <1>3, <2>2 DEF IInv, Procs
    <3>2. \A b \in proc[q].before : proc'[b] = proc[b]
      BY <1>2, <3>1 DEF Follows, Invoked
    <3> QED
      BY <3>1, <3>2 DEF Invoked
  <2> QED
    BY <2>1, <2>2
<1>4. Procs'
  BY <1>1, <1>3 DEF IInv, Procs
<1>5. Stored'
  <2>1. ASSUME NEW c \in DOMAIN core.ledger.slots
        PROVE  \E q \in Invocations : /\ proc'[q].at = "exited" /\ proc'[q].command = c
                                      /\ core.ledger.slots[c] = declared(q, proc'[q])
    <3>1. PICK q \in Invocations : /\ proc[q].at = "exited" /\ proc[q].command = c
                                   /\ core.ledger.slots[c] = declared(q, proc[q])
      BY DEF IInv, Stored
    <3> QED
      BY <1>2, <3>1
  <2>2. ASSUME NEW q \in Invocations, proc'[q].at = "exited", proc'[q].took = "accepted",
               proc'[q].command \in EvidenceCommands
        PROVE  /\ proc'[q].command \in DOMAIN core.ledger.slots
               /\ ~outranked(core.ledger.slots[proc'[q].command], declared(q, proc'[q]))
    <3>1. proc'[q] = proc[q]
      BY <1>1, <2>2
    <3> QED
      BY <2>2, <3>1 DEF IInv, Stored
  <2> QED
    BY <2>1, <2>2 DEF IInv, Stored
<1> QED
  BY <1>4, <1>5 DEF IInv, Core, Decided

\* An invocation begins.
LEMMA StartIInv ==
  ASSUME IInv, NEW p \in Invocations, Start(p)
  PROVE  IInv'
<1>1. PICK a \in story[p] :
        \E arg \in IF a.command \in TokenCommands THEN {hex64(g) : g \in core.live} ELSE {a.arg} :
          proc' = [proc EXCEPT ![p] =
                     [begun(a, arg) EXCEPT !.at = IF a.fault = "usage" THEN "exited" ELSE "parsed",
                                           !.exit = IF a.fault = "usage" THEN 2 ELSE 0]]
  BY DEF Start
<1>2. PICK arg \in IF a.command \in TokenCommands THEN {hex64(g) : g \in core.live} ELSE {a.arg} :
        proc' = [proc EXCEPT ![p] =
                   [begun(a, arg) EXCEPT !.at = IF a.fault = "usage" THEN "exited" ELSE "parsed",
                                         !.exit = IF a.fault = "usage" THEN 2 ELSE 0]]
  BY <1>1
<1> DEFINE s == [begun(a, arg) EXCEPT !.at = IF a.fault = "usage" THEN "exited" ELSE "parsed",
                                      !.exit = IF a.fault = "usage" THEN 2 ELSE 0]
<1>3. /\ proc[p] = unused /\ UNCHANGED <<core, clock, story>>
      /\ \A q \in Invocations : proc[q].at = "exited" => proc[q].sequence < clock
  BY DEF Start, exited
<1>4. proc[p].at # "exited"
  BY <1>3 DEF unused
<1>5. a.command = "compose" => arg \in Nat
  <2>1. a.command = "compose" => arg = a.arg
    BY <1>2 DEF TokenCommands
  <2>2. a.command = "compose" => a.arg \in Nat
    BY OperatorAssumption DEF IInv, Procs
  <2> QED
    BY <2>1, <2>2
<1>6. /\ DOMAIN s = Members /\ s.at \in {"exited", "parsed"} /\ s.exit \in {0, 2}
      /\ s.at = "exited" => s.exit = 2
      /\ s.at = "parsed" => s.exit = 0
      /\ s.command = a.command /\ s.arg = arg /\ s.generation = 0 /\ s.sequence = 0
      /\ s.took = "nothing" /\ s.due = {} /\ s.before = {q \in Invocations : proc[q].at = "exited"}
  BY DEF begun, Members, exited
<1>7. proc' = [proc EXCEPT ![p] = s]
  BY <1>2
<1> HIDE DEF s
<1>8. Sound(s)
  BY <1>5, <1>6 DEF Sound
<1>9. Dated(s, core.generation, clock)
  BY <1>6 DEF Dated, IInv, Core, Procs
<1>10. \A b \in s.before : b \in Invocations /\ Follows(s, proc[b], clock)
  BY <1>3, <1>6 DEF Follows
<1> QED
  BY <1>3, <1>4, <1>6, <1>7, <1>8, <1>9, <1>10, AtWork

\* An invocation reads the rack's state and the clock.
LEMMA ViewIInv ==
  ASSUME IInv, NEW p \in Invocations, View(p)
  PROVE  IInv'
<1> DEFINE r == proc[p]
           s == [r EXCEPT !.at = "viewed", !.generation = core.generation, !.sequence = clock]
<1>1. /\ r.at = "parsed" /\ UNCHANGED <<core, clock, story>> /\ proc' = [proc EXCEPT ![p] = s]
  BY DEF View, default_sequence
<1>2. Invoked(p)
  <2>1. r # unused
    BY <1>1 DEF unused
  <2> QED
    BY <2>1 DEF IInv, Procs
<1>3. core.generation \in Nat /\ clock \in Nat
  BY DEF IInv, Core, Procs
<1>4. /\ DOMAIN s = Members /\ s.at = "viewed" /\ s.generation = core.generation
      /\ s.sequence = clock /\ s.exit = r.exit /\ s.took = r.took /\ s.due = r.due
      /\ s.command = r.command /\ s.arg = r.arg /\ s.before = r.before
  BY <1>2 DEF Invoked, Sound, Members
<1> HIDE DEF s
<1>5. Sound(s)
  BY <1>1, <1>2, <1>3, <1>4 DEF Invoked, Sound
<1>6. Dated(s, core.generation, clock)
  BY <1>3, <1>4 DEF Dated
<1>7. ASSUME NEW b \in s.before PROVE b \in Invocations /\ Follows(s, proc[b], clock)
  <2>1. b \in Invocations /\ Follows(r, proc[b], clock)
    BY <1>2, <1>4 DEF Invoked
  <2>2. proc[b] # unused
    BY <2>1 DEF Follows, unused
  <2>3. proc[b].generation <= core.generation
    BY <2>1, <2>2 DEF IInv, Procs, Invoked, Dated
  <2> QED
    BY <1>1, <1>4, <2>1, <2>3 DEF Follows
<1> QED
  BY <1>1, <1>4, <1>5, <1>6, <1>7, AtWork

\* The clock moves.
LEMMA TickIInv ==
  ASSUME IInv, Tick
  PROVE  IInv'
<1>1. clock \in Nat /\ clock' = clock + 1 /\ UNCHANGED <<core, story, proc>>
  BY DEF IInv, Procs, Tick
<1>2. ASSUME NEW p \in Invocations, Invoked(p) PROVE Invoked(p)'
  <2>1. Dated(proc[p], core.generation, clock')
    BY <1>1, <1>2 DEF Invoked, Sound, Dated
  <2>2. ASSUME NEW b \in proc[p].before
        PROVE  b \in Invocations /\ Follows(proc[p], proc[b], clock')
    <3>1. b \in Invocations /\ Follows(proc[p], proc[b], clock)
      BY <1>2 DEF Invoked
    <3>2. proc[b] # unused
      BY <3>1 DEF Follows, unused
    <3>3. proc[b].sequence \in Nat
      BY <3>1, <3>2 DEF IInv, Procs, Invoked, Sound
    <3> QED
      BY <1>1, <3>1, <3>3 DEF Follows
  <2> QED
    BY <1>1, <1>2, <2>1, <2>2 DEF Invoked
<1>3. Procs'
  BY <1>1, <1>2 DEF IInv, Procs
<1> QED
  BY <1>1, <1>3 DEF IInv, Core, Stored, Decided

\* Every step keeps the invariant.
LEMMA StepIInv == IInv /\ [Next]_vars => IInv'
<1> SUFFICES ASSUME IInv, [Next]_vars PROVE IInv'
  OBVIOUS
<1>1. CASE UNCHANGED vars
  <2>1. core' = core /\ clock' = clock /\ story' = story /\ proc' = proc
    BY <1>1 DEF vars
  <2>2. Core' /\ Decided'
    BY <2>1 DEF IInv, Core, Decided
  <2>3. Procs'
    BY <2>1, Zenon DEF IInv, Procs, Invoked
  <2>4. Stored'
    BY <2>1, Zenon DEF IInv, Stored
  <2> QED
    BY <2>2, <2>3, <2>4 DEF IInv
<1> QED
  BY <1>1, StartIInv, ViewIInv, TickIInv, UnansweredIInv, CommandIInv, DeclareIInv,
     AcquireIInv, LookupIInv, TokenIInv
  DEF Next

\* The invariant holds for ever.
LEMMA Invariance == Spec => []IInv
BY InitIInv, StepIInv, PTL DEF Spec

-----------------------------------------------------------------------------
(* Theorems.                                                               *)

\* rnfctl ends with 0 only when the daemon took the command and with 2 only
\* when none was sent, whatever argument is wrong and whichever message is
\* lost.
THEOREM ExitCodes == Spec => []ExitTellsTruth
<1>1. IInv => ExitTellsTruth
  <2> SUFFICES ASSUME IInv, NEW p \in Invocations, exited(p)
               PROVE  /\ proc[p].exit = 0 => proc[p].took = "accepted"
                      /\ proc[p].exit = 2 => proc[p].took = "nothing"
    BY DEF ExitTellsTruth
  <2>1. proc[p] # unused
    BY DEF exited, unused
  <2> QED
    BY <2>1 DEF IInv, Procs, Invoked, Sound, exited
<1> QED
  BY <1>1, Invariance, PTL

\* The generation read from the state and the sequence read from the clock
\* rank a declaration above all that had ended before it began, so the ledger
\* never prefers one of those, however the invocations interleave.
THEOREM DeclarationsOrdered == Spec => []LaterDeclarationWins
<1>1. IInv => LaterDeclarationWins
  <2> SUFFICES ASSUME IInv, NEW p \in Invocations, exited(p),
                      proc[p].command \in EvidenceCommands, proc[p].took = "accepted",
                      core.ledger.slots[proc[p].command].digest \in proc[p].before
               PROVE  FALSE
    BY DEF LaterDeclarationWins
  <2> DEFINE c == proc[p].command
  <2>1. c \in DOMAIN core.ledger.slots /\ ~outranked(core.ledger.slots[c], declared(p, proc[p]))
    BY DEF IInv, Stored, exited
  <2>2. PICK q \in Invocations : core.ledger.slots[c] = declared(q, proc[q])
    BY <2>1 DEF IInv, Stored
  <2>3. q \in proc[p].before
    BY <2>2 DEF declared
  <2>4. Invoked(p)
    <3>1. proc[p] # unused
      BY DEF exited, unused
    <3> QED
      BY <3>1 DEF IInv, Procs
  <2>5. Follows(proc[p], proc[q], clock)
    BY <2>3, <2>4 DEF Invoked
  <2>6. proc[q] # unused
    BY <2>5 DEF Follows, unused
  <2>7. /\ proc[q].sequence < proc[p].sequence /\ proc[q].generation <= proc[p].generation
        /\ proc[q].generation \in Nat /\ proc[p].generation \in Nat
    BY <2>4, <2>5, <2>6 DEF Follows, IInv, Procs, Invoked, Sound
  <2>8. outranked(declared(q, proc[q]), declared(p, proc[p]))
    <3> DEFINE a == declared(q, proc[q])
               b == declared(p, proc[p])
    <3>1. /\ a.sequence = proc[q].sequence /\ a.generation = proc[q].generation
          /\ b.sequence = proc[p].sequence /\ b.generation = proc[p].generation
      BY DEF declared
    <3> HIDE DEF a, b
    <3>2. /\ a.sequence < b.sequence /\ a.generation <= b.generation
          /\ a.generation \in Nat /\ b.generation \in Nat
      BY <2>7, <3>1
    <3>3. outranked(a, b)
      BY <3>2 DEF outranked
    <3> QED
      BY <3>3, Zenon DEF a, b
  <2> QED
    BY <2>1, <2>2, <2>8
<1> QED
  BY <1>1, Invariance, PTL

\* The loop that reads --request in lookup and the two loops in acquire agree
\* on every text, so a lookup finds what an acquire of the same text decided.
THEOREM LookupFinds == Spec => []LookupFindsAcquire
<1>1. IInv => LookupFindsAcquire
  <2> SUFFICES ASSUME IInv, NEW p \in Invocations, exited(p), proc[p].command = "lookup"
               PROVE  proc[p].due \subseteq proc[p].answer
    BY DEF LookupFindsAcquire
  <2>1. proc[p] # unused
    BY DEF exited, unused
  <2> QED
    BY <2>1 DEF IInv, Procs, Invoked, Sound, exited
<1> QED
  BY <1>1, Invariance, PTL

=============================================================================
