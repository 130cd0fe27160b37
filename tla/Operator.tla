------------------------------ MODULE Operator ------------------------------
(***************************************************************************)
(* The operator's command line (apps/rnfctl/main.cpp).                     *)
(*                                                                         *)
(* An invocation of rnfctl parses its arguments, connects, says hello,     *)
(* reads the rack's state, runs one command and exits with 0, 1 or 2.      *)
(* Several invocations run side by side against one daemon.  The daemon is *)
(* what the commands tell apart of it: the evidence ledger (LedgerOps),    *)
(* the generation, the outcome of each request and the last grant number.  *)
(*                                                                         *)
(* Every evidence command declares one subject, which is its slot of the   *)
(* ledger.  At most one argument of an invocation is faulty.               *)
(***************************************************************************)
EXTENDS LedgerOps

CONSTANTS
  Invocations,    \* 1 .. n: the processes
  Stories,        \* what they may be asked to do: sequences of sets of
                  \* [command, fault, arg], one set per process
  Digits,         \* hexadecimal digits of an identity (16 in the code)
  FirstFences     \* the last grant number of the daemon the story begins with

EvidenceCommands ==
  {"declare-member", "declare-device", "declare-port", "declare-link", "attach",
   "maintenance", "obligate"}

TokenCommands == {"renew", "release", "validate"}

ASSUME OperatorAssumption ==
  /\ Slot = EvidenceCommands
  /\ Digits \in Nat \ {0} /\ FirstFences \subseteq Nat
  /\ \A told \in Stories : \A p \in Invocations : \A a \in told[p] :
       a.command = "compose" => a.arg \in Nat

VARIABLES
  core,    \* the daemon
  clock,   \* milliseconds
  story,   \* the story of this behaviour
  proc     \* each invocation

vars == <<core, clock, story, proc>>

-----------------------------------------------------------------------------
(* Text.  A text is a sequence of characters: 0 .. 15 are the digits 0-9   *)
(* and a-f, 16 .. 21 are A-F, and 22 is any other character.               *)

Values == 16 ^ Digits

\* hex64.
hex64(value) == [i \in 1 .. Digits |-> (value \div 16 ^ (Digits - i)) % 16]

\* parse_u64: decimal digits only, and no value that does not fit.
parse_u64(text) ==
  LET parsed[i \in 0 .. Len(text)] ==
        IF i = 0 THEN [ok |-> Len(text) > 0, value |-> 0]
        ELSE LET before == parsed[i - 1]
                 digit == text[i]
             IN  IF ~before.ok \/ digit > 9 \/ before.value > (Values - 1 - digit) \div 10
                 THEN [ok |-> FALSE, value |-> 0]
                 ELSE [ok |-> TRUE, value |-> before.value * 10 + digit]
  IN  parsed[Len(text)]

\* The value of a hexadecimal character, and 255 for any other.
digit_of(c) == IF c < 16 THEN c ELSE IF c < 22 THEN c - 6 ELSE 255

\* hi or lo << 4 | digit, over a part of the text.
shifted(text, first, end) ==
  LET value[i \in (first - 1) .. end] ==
        IF i = first - 1 THEN 0 ELSE (value[i - 1] * 16 + digit_of(text[i])) % Values
  IN  value[end]

\* --request needs the digits of two halves.
well_formed(text) ==
  Len(text) = 2 * Digits /\ \A i \in DOMAIN text : digit_of(text[i]) # 255

\* How "acquire" reads --request: one loop for each half.
acquire_request(text) ==
  <<shifted(text, 1, Digits), shifted(text, Digits + 1, 2 * Digits)>>

\* Variant: the halves meet one digit too late.
lookup_request_late(text) ==
  <<shifted(text, 1, Digits + 1), shifted(text, Digits + 2, 2 * Digits)>>

\* How "lookup" reads it: one loop over both halves.
lookup_request(text) ==
  LET read[i \in 0 .. 2 * Digits] ==
        IF i = 0 THEN <<0, 0>>
        ELSE LET half == IF i <= Digits THEN 1 ELSE 2
             IN  [read[i - 1] EXCEPT ![half] = (@ * 16 + digit_of(text[i])) % Values]
  IN  read[2 * Digits]

-----------------------------------------------------------------------------
(* Arguments.                                                              *)

\* evidence_defaults is evaluated for every command from the first evidence
\* command on.
defaults == {"source", "sequence", "generation", "durability"}

\* Arguments whose fault ends the invocation with 1: what CTL_TRY unwraps.
fails_with_1(command) ==
  CASE command = "compose"        -> {"generation"}
    [] command = "declare-member" -> {"device", "incarnation", "member-rack"}
    [] command = "declare-device" -> {"device", "capacity"}
    [] command = "declare-port"   -> {"port", "device", "index", "capacity"}
    [] command = "declare-link"   -> {"link", "port-a", "port-b", "capacity"}
    [] command = "attach"         -> {"attachment", "device", "port"}
    [] command = "maintenance"    -> {"target"}
    [] command = "obligate"       -> {"obligation", "capacity", "holder", "target"}
    [] command = "acquire"        -> {"principal", "scope", "capacity", "ttl-ms"}
    [] command = "renew"          -> {"grant", "fence", "incarnation", "basis", "ttl-ms"}
    [] command \in {"release", "validate"} -> {"grant", "fence", "incarnation", "basis"}
    [] OTHER -> {}

\* Arguments whose fault ends it with 2; "record" is what validate_evidence
\* refuses.
fails_with_2(command) ==
  CASE command = "resources"      -> {"limit", "kind"}
    [] command = "lifecycle"      -> {"state"}
    [] command = "declare-device" -> defaults \union {"source-kind", "record", "role", "availability"}
    [] command = "declare-port"   -> defaults \union {"source-kind", "record", "index range",
                                                      "port-role", "admin", "availability"}
    [] command = "declare-link"   -> defaults \union {"source-kind", "record", "kind", "availability"}
    [] command = "maintenance"    -> defaults \union {"source-kind", "record", "action"}
    [] command \in {"declare-member", "attach", "obligate"} ->
         defaults \union {"source-kind", "record"}
    [] command = "acquire"        -> defaults \union {"request", "mode"}
    [] command = "lookup"         -> defaults \union {"request"}
    [] command \in TokenCommands  -> defaults
    [] OTHER -> {}

\* What a faulty argument makes of the invocation, before anything is sent.
usage_exit(a) ==
  IF a.fault \in fails_with_1(a.command) THEN 1
  ELSE IF a.fault \in fails_with_2(a.command) \/ a.command = "unknown" THEN 2
  ELSE 0

-----------------------------------------------------------------------------
(* Invocations.                                                            *)

unused == [at |-> "unused"]

Init ==
  /\ core \in [ledger : {empty_ledger}, generation : {0}, fence : FirstFences,
               live : {{}}, outcomes : {{}}, asked : {{}}]
  /\ clock = 1 /\ story \in Stories
  /\ proc = [p \in Invocations |-> unused]

exited(p) == proc[p].at = "exited"

\* The invocation ends.  took is what the daemon made of its command, lost
\* says that the answer did not arrive.
exits(p, code, took, lost) ==
  proc' = [proc EXCEPT ![p] = [@ EXCEPT !.at = "exited", !.exit = code, !.took = took,
                                        !.lost = lost]]

begun(a, arg) ==
  [at |-> "parsed", command |-> a.command, fault |-> a.fault, arg |-> arg,
   generation |-> 0, sequence |-> 0, exit |-> 0, took |-> "nothing", lost |-> FALSE,
   due |-> {}, answer |-> {},
   before |-> {q \in Invocations : exited(q)}]

\* main: parse_arguments and parse_endpoint.  An invocation is started in a
\* later millisecond than the ones that have ended; a token is copied from
\* what "acquire" or "grants" printed.
Start(p) ==
  /\ proc[p] = unused /\ \A q \in 1 .. p - 1 : proc[q] # unused
  /\ \A q \in Invocations : exited(q) => proc[q].sequence < clock
  /\ \E a \in story[p] :
       \E arg \in IF a.command \in TokenCommands THEN {hex64(g) : g \in core.live} ELSE {a.arg} :
         proc' = [proc EXCEPT ![p] =
                    [begun(a, arg) EXCEPT !.at = IF a.fault = "usage" THEN "exited" ELSE "parsed",
                                          !.exit = IF a.fault = "usage" THEN 2 ELSE 0]]
  /\ UNCHANGED <<core, clock, story>>

\* connect, hello or query_state failed, or the daemon refused the session.
NoSession(p) ==
  /\ proc[p].at = "parsed"
  /\ exits(p, 1, "nothing", TRUE)
  /\ UNCHANGED <<core, clock, story>>

\* Variant: every record is numbered alike.
default_sequence_constant == 1

\* default_sequence: the wall clock.
default_sequence == clock

\* hello and query_state answered; evidence_defaults takes the generation
\* from the state and the sequence from the clock.
View(p) ==
  /\ proc[p].at = "parsed"
  /\ proc' = [proc EXCEPT ![p] = [@ EXCEPT !.at = "viewed", !.generation = core.generation,
                                           !.sequence = default_sequence]]
  /\ UNCHANGED <<core, clock, story>>

Tick ==
  /\ \E p \in Invocations : proc[p] = unused
  /\ clock <= Cardinality(Invocations)
  /\ clock' = clock + 1
  /\ UNCHANGED <<core, story, proc>>

\* The command is refused by rnfctl itself.
Refuse(p) ==
  /\ proc[p].at = "viewed"
  /\ usage_exit(proc[p]) # 0
  /\ exits(p, usage_exit(proc[p]), "nothing", FALSE)
  /\ UNCHANGED <<core, clock, story>>

\* The request was not delivered.
Unreached(p) ==
  /\ proc[p].at = "viewed" /\ usage_exit(proc[p]) = 0
  /\ exits(p, 1, "nothing", TRUE)
  /\ UNCHANGED <<core, clock, story>>

\* The daemon ran the command and its answer arrives, or does not.
runs(p, code, took) ==
  \/ exits(p, code, took, FALSE)
  \/ exits(p, 1, took, TRUE)

sends(p, commands) ==
  proc[p].at = "viewed" /\ usage_exit(proc[p]) = 0 /\ proc[p].command \in commands

Inspect(p) ==
  /\ sends(p, {"state", "stats", "paths", "grants", "resources", "hello"})
  /\ runs(p, 0, "accepted")
  /\ UNCHANGED <<core, clock, story>>

Compose(p) ==
  /\ sends(p, {"compose"})
  /\ \/ /\ proc[p].arg >= core.generation
        /\ core' = [core EXCEPT !.generation = proc[p].arg]
        /\ \E composed \in BOOLEAN :
             runs(p, IF composed THEN 0 ELSE 1, IF composed THEN "accepted" ELSE "refused")
     \/ /\ proc[p].arg < core.generation
        /\ runs(p, 1, "refused")
        /\ UNCHANGED core
  /\ UNCHANGED <<clock, story>>

\* Lifecycle, checkpoint and shutdown; only the first two look at the code.
Control(p) ==
  /\ sends(p, {"lifecycle", "checkpoint", "shutdown"})
  /\ \/ runs(p, 0, "accepted")
     \/ proc[p].command # "shutdown" /\ runs(p, 1, "refused")
  /\ UNCHANGED <<core, clock, story>>

\* begin_record and submit_one.
begin_record(p) ==
  [slot |-> proc[p].command, generation |-> proc[p].generation,
   sequence |-> proc[p].sequence, digest |-> p, valid |-> TRUE]

Declare(p) ==
  LET record == begin_record(p)
      ledger == insert(core.ledger, record)
  IN  /\ sends(p, EvidenceCommands)
      /\ core' = [core EXCEPT !.ledger = ledger]
      /\ IF refused(core.ledger, record) THEN runs(p, 1, "refused") ELSE runs(p, 0, "accepted")
      /\ UNCHANGED <<clock, story>>

\* Variant: acquire ends like lookup does, whatever was decided.
acquire_exit_always(fence) == 0

\* 0 when the answer's code is kOk.
acquire_exit(fence) == IF fence = 0 THEN 1 ELSE 0

\* The outcome the daemon remembers of a request: the grant, 0 for a refusal.
remembered(id) == {o.fence : o \in {x \in core.outcomes : x.id = id}}

Acquire(p) ==
  LET id == acquire_request(proc[p].arg)
      decided(fence) ==
        /\ core' = [core EXCEPT !.outcomes = @ \union {[id |-> id, fence |-> fence]},
                                !.asked = @ \union {[text |-> proc[p].arg, fence |-> fence]},
                                !.fence = IF fence > @ THEN fence ELSE @,
                                !.live = IF fence > core.fence THEN @ \union {fence} ELSE @]
        /\ runs(p, acquire_exit(fence), IF fence = 0 THEN "refused" ELSE "accepted")
  IN  /\ sends(p, {"acquire"}) /\ well_formed(proc[p].arg)
      /\ \/ \E fence \in remembered(id) : decided(fence)
         \/ remembered(id) = {} /\ \E fence \in {0, core.fence + 1} : decided(fence)
      /\ UNCHANGED <<clock, story>>

\* lookup ends with 0 whatever it finds.
Lookup(p) ==
  /\ sends(p, {"lookup"}) /\ well_formed(proc[p].arg)
  /\ proc' = [proc EXCEPT ![p] =
                [@ EXCEPT !.at = "exited", !.took = "accepted",
                          !.due = {a.fence : a \in {x \in core.asked : x.text = proc[p].arg}},
                          !.answer = remembered(lookup_request(proc[p].arg))]]
  /\ UNCHANGED <<core, clock, story>>

\* A request text of the wrong length, or not hexadecimal.
BadRequest(p) ==
  /\ sends(p, {"acquire", "lookup"})
  /\ ~well_formed(proc[p].arg)
  /\ exits(p, 2, "nothing", FALSE)
  /\ UNCHANGED <<core, clock, story>>

\* renew, release and validate: --grant is read as a decimal number, and the
\* daemon takes the token when it names a live grant with its own fence.
Token(p) ==
  LET typed == parse_u64(proc[p].arg)
      printed == shifted(proc[p].arg, 1, Digits)
      alive == typed.value = printed /\ printed \in core.live
      ends(code, took, lost) ==
        proc' = [proc EXCEPT ![p] = [@ EXCEPT !.at = "exited", !.exit = code, !.took = took,
                                              !.lost = lost, !.due = {printed} \intersect core.live]]
  IN  /\ sends(p, TokenCommands)
      /\ \/ /\ ~typed.ok
            /\ ends(1, "nothing", FALSE)
            /\ UNCHANGED core
         \/ /\ typed.ok
            /\ \/ ends(IF alive THEN 0 ELSE 1, IF alive THEN "accepted" ELSE "refused", FALSE)
               \/ ends(1, IF alive THEN "accepted" ELSE "refused", TRUE)
            /\ core' = [core EXCEPT !.live = IF alive /\ proc[p].command = "release"
                                             THEN @ \ {printed} ELSE @]
      /\ UNCHANGED <<clock, story>>

Next ==
  \/ Tick
  \/ \E p \in Invocations :
       Start(p) \/ NoSession(p) \/ View(p) \/ Refuse(p) \/ Unreached(p) \/ Inspect(p)
       \/ Compose(p) \/ Control(p) \/ Declare(p) \/ Acquire(p) \/ Lookup(p) \/ BadRequest(p)
       \/ Token(p)

Spec == Init /\ [][Next]_vars

-----------------------------------------------------------------------------
(* Properties.                                                             *)

\* README.md: a refusal ends with a non-zero exit code.  An invocation that
\* ends with 0 had its command taken by the daemon, and one that ends with 2
\* sent none.
ExitTellsTruth ==
  \A p \in Invocations : exited(p) =>
    /\ proc[p].exit = 0 => proc[p].took = "accepted"
    /\ proc[p].exit = 2 => proc[p].took = "nothing"

\* docs/operations.md: the newest directive from a source wins for that
\* source.  A declaration that ended with 0 is never hidden by one that had
\* already ended when it began, whatever generations were composed between.
LaterDeclarationWins ==
  \A p \in Invocations :
    (exited(p) /\ proc[p].command \in EvidenceCommands /\ proc[p].exit = 0
       /\ proc[p].took = "accepted") =>
      core.ledger.slots[proc[p].command].digest \notin proc[p].before

\* docs/protocol.md, "Resolving a lost acknowledgement": looking up the text
\* that was given to acquire finds what acquire decided.
LookupFindsAcquire ==
  \A p \in Invocations : exited(p) /\ proc[p].command = "lookup" => proc[p].due \subseteq proc[p].answer

\* docs/operations.md: "grants" prints the live grants with their tokens.  A
\* token that is printed and given back names its grant, while that lives.
PrintedTokenWorks ==
  \A p \in Invocations :
    (exited(p) /\ ~proc[p].lost /\ proc[p].due # {}
       /\ proc[p].command \in TokenCommands) => proc[p].exit = 0
=============================================================================
