---------------------------- MODULE MCOperator ----------------------------
(***************************************************************************)
(* One invocation of any command with any fault, or three whose interplay  *)
(* matters.  Identities have two digits, so a request text has four; the   *)
(* grant numbers around 10 are the ones that look different in decimal and *)
(* in hexadecimal.                                                         *)
(***************************************************************************)
EXTENDS Operator

MCSourceOf == [s \in EvidenceCommands |-> "operator"]

ask(command, fault, arg) == [command |-> command, fault |-> fault, arg |-> arg]

Plain ==
  {"state", "lifecycle", "checkpoint", "shutdown", "resources", "unknown"}
  \union EvidenceCommands

Faults(command) == fails_with_1(command) \union fails_with_2(command)

\* Two spellings of one request, one whose halves differ, and two bad texts.
Texts == {<<0, 0, 1, 10>>, <<0, 0, 1, 16>>, <<1, 0, 0, 0>>}
BadTexts == {<<0, 0, 0, 22>>, <<0, 1>>}

asks(commands, texts) == {ask(c, "none", t) : c \in commands, t \in texts}

Any ==
  {ask(c, f, <<>>) : c \in Plain, f \in {"none", "usage"}}
  \union UNION {{ask(c, f, <<>>) : f \in Faults(c)} : c \in Plain \union {"acquire", "validate"}}
  \union {ask("compose", f, 1) : f \in {"none", "generation"}}
  \union asks({"acquire", "lookup"}, BadTexts)

Directives == asks({"maintenance"}, {<<>>}) \union asks({"compose"}, {1, 2})
Tokens == asks({"release", "validate"}, {<<>>})

\* One invocation of anything; requests and tokens; declarations.
MCStories ==
  {<<Any, {}, {}>>,
   <<asks({"acquire"}, Texts), asks({"acquire"}, {<<0, 0, 1, 10>>}) \union Tokens,
     asks({"lookup"}, Texts) \union Tokens>>,
   <<Directives, Directives, Directives>>}
=============================================================================
