------------------------------ MODULE Session ------------------------------
(***************************************************************************)
(* A caller of the client library (src/runtime/client.cpp) and the worker  *)
(* threads of the daemon (handle_connection, dispatch and answer in        *)
(* src/runtime/server.cpp), over byte streams (src/net/socket.cpp) that    *)
(* carry frames (src/net/frame.cpp).                                       *)
(*                                                                         *)
(* A stream is a sequence of eight-byte units.  A frame is three units of  *)
(* header and the body, one unit or none.  A reader that gives up in the   *)
(* middle of a frame, or a writer that does, leaves the stream at a place  *)
(* that is no frame boundary, and the next read takes its header from      *)
(* there.  A unit that is no first unit of a frame never spells the magic  *)
(* number, and a checksum matches only the body it was made from.          *)
(***************************************************************************)
EXTENDS Integers, Sequences, FiniteSets

CONSTANTS
  Conns,         \* 1 .. n: the connections the caller opens, one after another
  Requests,      \* the request ids the caller uses
  MaxCalls,      \* bound on the calls it makes
  MaxRestarts    \* bound on the restarts of the daemon

ASSUME SessionAssumption ==
  /\ IsFiniteSet(Conns) /\ Conns = 1 .. Cardinality(Conns)
  /\ IsFiniteSet(Requests) /\ Requests # {}
  /\ MaxCalls \in Nat /\ MaxRestarts \in Nat

VARIABLES
  up,        \* the caller's end of each connection: "unused", "open", "closed"
  c2s, s2c,  \* the bytes on the way
  worker,    \* where the worker thread of each connection is
  last_correlation,  \* the number of the last request on each connection
  call,      \* where the one call in progress is
  core,      \* what the daemon remembers of each request (durable)
  grants,    \* how many grants exist
  calls,     \* how many calls were made
  restarts,
  owed,      \* what the core answered to the call in progress, or the last one
  last,      \* the last call that returned, and what it returned
  learned,   \* the outcomes the caller was told of each request
  absent,    \* the requests a lookup said are unknown, and not sent since
  spoiled    \* the connections on which a call failed without an answer

net == <<up, c2s, s2c, worker>>
ghosts == <<owed, last, learned, absent, spoiled>>
daemon == <<core, grants, restarts>>
caller == <<call, calls, last_correlation>>
vars == <<net, caller, daemon, ghosts>>

-----------------------------------------------------------------------------
(* Frames.                                                                 *)

nothing == <<"nothing", 0>>

head(type)     == [part |-> "head", of |-> type]
size(body)     == [part |-> "size", of |-> body]
correlate(c)   == [part |-> "corr", of |-> c]
payload(body)  == [part |-> "body", of |-> body]

\* encode_frame.
encode_frame(type, c, body) ==
  <<head(type), size(body), correlate(c)>>
  \o (IF body = nothing THEN <<>> ELSE <<payload(body)>>)

\* What decode_frame_header makes of 24 bytes.  When the second eight begin
\* with another frame's magic number the length is above every bound.
decode_frame_header(units) ==
  [ok |-> units[1].part = "head" /\ units[2].part = "size",
   type |-> units[1].of,
   body |-> units[2].of,
   correlation |-> IF units[3].part = "corr" THEN units[3].of ELSE 0]

HeaderUnits == 3

\* The units of the body a header announces.
length(h) == IF h.body = nothing THEN 0 ELSE 1

\* The payload read matches the header's checksum.
crc_matches(h, units) ==
  \A i \in 1 .. length(h) : units[i].part = "body" /\ units[i].of = h.body

drop(s, n) == SubSeq(s, n + 1, Len(s))
keep(s, n) == SubSeq(s, 1, n)

-----------------------------------------------------------------------------
(* Commands.  Answers are tuples <<what, grant>>.                          *)

\* One method of Client each: acquire, which the daemon remembers by request
\* id, lookup, which asks what it remembers, and query_state, which stands for
\* all the others, as they leave what is remembered alone.
Commands == {"acquire", "lookup", "query_state"}

granted(g) == <<"granted", g>>
refused    == <<"refused", 0>>
unknown    == <<"unknown", 0>>
failure    == <<"failure", 0>>
view       == <<"view", 0>>

\* What a caller may conclude a request was decided to be.
Outcomes == {granted(g) : g \in 1 .. Cardinality(Requests)} \union {refused}

body_of(cmd, r) == IF cmd = "query_state" THEN nothing ELSE <<"request", r>>

ack(cmd) == <<cmd, "ack">>
error_type == <<"error", "ack">>

\* A call: one request and its answer.
idle == [at |-> "idle"]
reading(n, cmd, r) == [at |-> "header", conn |-> n, cmd |-> cmd, r |-> r]

\* How a call ended, and on a connection where all before it were answered?
no_result == [how |-> "none", answer |-> nothing, clean |-> TRUE]

listening == [at |-> "header"]
gone      == [at |-> "gone"]

\* Bytes written to a connection whose worker has left reach nobody.
delivered(n, units) == IF worker[n] = gone THEN c2s[n] ELSE c2s[n] \o units

Init ==
  /\ up = [n \in Conns |-> "unused"]
  /\ c2s = [n \in Conns |-> <<>>] /\ s2c = [n \in Conns |-> <<>>]
  /\ worker = [n \in Conns |-> gone]
  /\ call = idle /\ calls = 0
  /\ core = [r \in Requests |-> nothing] /\ grants = 0 /\ restarts = 0
  /\ last_correlation = [n \in Conns |-> 0]
  /\ owed = {} /\ last = no_result
  /\ learned = [r \in Requests |-> {}] /\ absent = {} /\ spoiled = {}

-----------------------------------------------------------------------------
(* The caller.                                                             *)

\* Client::connect.  The caller holds one Client at a time, as rnfctl does.
Connect(n) ==
  /\ call = idle /\ up[n] = "unused" /\ \A m \in 1 .. n - 1 : up[m] = "closed"
  /\ up' = [up EXCEPT ![n] = "open"]
  /\ worker' = [worker EXCEPT ![n] = listening]
  /\ UNCHANGED <<c2s, s2c, caller, daemon, ghosts>>

\* Client::close.  What was sent before is still delivered.
Close(n) ==
  /\ call = idle /\ up[n] = "open"
  /\ up' = [up EXCEPT ![n] = "closed"]
  /\ s2c' = [s2c EXCEPT ![n] = <<>>]
  /\ UNCHANGED <<c2s, worker, caller, daemon, ghosts>>

\* A call begins: send_raw numbers the request and writes its frame.
\* Asking for a grant again makes an earlier "unknown" void.
Begin(n, cmd, r) ==
  /\ call = idle /\ up[n] = "open" /\ calls < MaxCalls
  /\ calls' = calls + 1
  /\ last_correlation' = [last_correlation EXCEPT ![n] = @ + 1]
  /\ owed' = {}
  /\ absent' = IF cmd = "acquire" THEN absent \ {r} ELSE absent
  /\ UNCHANGED <<up, s2c, worker, daemon, learned>>

Call(n, cmd, r) ==
  LET c == last_correlation[n] + 1
  IN  /\ Begin(n, cmd, r)
      /\ c2s' = [c2s EXCEPT ![n] = delivered(n, encode_frame(cmd, c, body_of(cmd, r)))]
      /\ call' = reading(n, cmd, r)
      /\ last' = no_result
      /\ UNCHANGED spoiled

\* The call on n ended without an answer; the connection stays open.
fails(n, how) ==
  /\ call' = idle
  /\ last' = [how |-> how, answer |-> nothing, clean |-> n \notin spoiled]
  /\ spoiled' = spoiled \union {n}

\* send_all stopped (the write timeout, or a peer that left) after a part of
\* the frame was written.
SendFails(n, cmd, r) ==
  LET c == last_correlation[n] + 1
      frame == encode_frame(cmd, c, body_of(cmd, r))
  IN  /\ Begin(n, cmd, r)
      /\ \E k \in 0 .. Len(frame) - 1 :
            c2s' = [c2s EXCEPT ![n] = delivered(n, keep(frame, k))]
      /\ fails(n, "lost")

\* read_exact_payload: the header arrived.
ReadHeader ==
  /\ call.at = "header"
  /\ LET n == call.conn
         h == decode_frame_header(keep(s2c[n], HeaderUnits))
     IN  /\ Len(s2c[n]) >= HeaderUnits
         /\ s2c' = [s2c EXCEPT ![n] = drop(@, HeaderUnits)]
         /\ \/ /\ h.ok
               /\ call' = [at |-> "body", header |-> h, conn |-> n, cmd |-> call.cmd,
                           r |-> call.r]
               /\ UNCHANGED <<last, spoiled>>
            \/ ~h.ok /\ fails(n, "foreign")
  /\ UNCHANGED <<up, c2s, worker, calls, last_correlation, daemon, owed, learned, absent>>

\* What the caller makes of an answer that is its own: an outcome of the
\* request, or a lookup's "unknown".
learn(r, a) ==
  /\ learned' = IF a \in Outcomes THEN [learned EXCEPT ![r] = @ \union {a}] ELSE learned
  /\ absent' = IF a = unknown THEN absent \union {r} ELSE absent

\* Variant: the correlation is not looked at.
belongs_any(h) == h.type = error_type \/ h.type = ack(call.cmd)

\* An answer to this call: the correlation is the last one sent, and the
\* type is an error or the one expected.
belongs(h) ==
  /\ h.correlation = last_correlation[call.conn]
  /\ h.type = error_type \/ h.type = ack(call.cmd)

\* The rest of read_exact_payload and receive_raw: the body arrived.
ReadBody ==
  /\ call.at = "body"
  /\ LET n == call.conn
         h == call.header
     IN  /\ Len(s2c[n]) >= length(h)
         /\ s2c' = [s2c EXCEPT ![n] = drop(@, length(h))]
         /\ \/ /\ crc_matches(h, s2c[n]) /\ belongs(h)
               /\ call' = idle
               /\ last' = [how |-> "answer", answer |-> h.body, clean |-> n \notin spoiled]
               /\ learn(call.r, h.body)
               /\ UNCHANGED spoiled
            \/ /\ ~(crc_matches(h, s2c[n]) /\ belongs(h))
               /\ fails(n, "foreign")
               /\ UNCHANGED <<learned, absent>>
  /\ UNCHANGED <<up, c2s, worker, calls, last_correlation, daemon, owed>>

\* The units the read in progress still waits for.
wanted == IF call.at = "header" THEN HeaderUnits ELSE length(call.header)

\* Variant: a closed stream is not told from a slow one, and read again and
\* again.
ReadFails_spinning ==
  /\ call.at # "idle" /\ worker[call.conn] # gone
  /\ \E k \in 0 .. wanted - 1 :
        /\ k <= Len(s2c[call.conn])
        /\ s2c' = [s2c EXCEPT ![call.conn] = drop(@, k)]
  /\ fails(call.conn, "lost")
  /\ UNCHANGED <<up, c2s, worker, calls, last_correlation, daemon, owed, learned, absent>>

\* recv_exact gave up: the read timeout ran out, or the worker left.  The
\* bytes it had already taken are gone.
ReadFails ==
  /\ call.at # "idle"
  /\ \E k \in 0 .. wanted - 1 :
        /\ k <= Len(s2c[call.conn])
        /\ s2c' = [s2c EXCEPT ![call.conn] = drop(@, k)]
  /\ fails(call.conn, "lost")
  /\ UNCHANGED <<up, c2s, worker, calls, last_correlation, daemon, owed, learned, absent>>

-----------------------------------------------------------------------------
(* The daemon.                                                             *)

\* Bytes written to a connection the caller has closed reach nobody.
received(n, units) == IF up[n] = "open" THEN units ELSE <<>>

\* The worker of n leaves its loop and closes the stream.  Closing with
\* unread bytes may also take away what the caller has not read yet.
leave(n, out, unread) ==
  /\ worker' = [worker EXCEPT ![n] = gone]
  /\ c2s' = [c2s EXCEPT ![n] = <<>>]
  /\ \E rest \in {received(n, out)} \union (IF unread = <<>> THEN {} ELSE {<<>>}) :
        s2c' = [s2c EXCEPT ![n] = rest]

\* recv_exact_interruptible gave up: the caller closed its end, or the idle
\* timeout ran out.
WorkerLeaves(n) ==
  /\ worker[n].at \in {"header", "body"}
  /\ Len(c2s[n]) < (IF worker[n].at = "header" THEN HeaderUnits ELSE length(worker[n].header))
  /\ leave(n, s2c[n], <<>>)
  /\ UNCHANGED <<up, caller, daemon, ghosts>>

\* send_error: the frame that answers a frame which cannot be used.
send_error(c) == encode_frame(error_type, c, failure)

\* handle_connection: a header arrived.
WorkerHeader(n) ==
  LET h == decode_frame_header(keep(c2s[n], HeaderUnits))
  IN  /\ worker[n].at = "header" /\ Len(c2s[n]) >= HeaderUnits
      /\ \/ /\ h.ok
            /\ worker' = [worker EXCEPT ![n] = [at |-> "body", header |-> h]]
            /\ c2s' = [c2s EXCEPT ![n] = drop(@, HeaderUnits)]
            /\ UNCHANGED s2c
         \/ ~h.ok /\ leave(n, s2c[n] \o send_error(h.correlation), drop(c2s[n], HeaderUnits))
      /\ UNCHANGED <<up, caller, daemon, ghosts>>

\* Variant: memory is not consulted.
acquire_again(r) ==
  \/ /\ grants' = grants + 1
     /\ core' = [core EXCEPT ![r] = granted(grants + 1)]
  \/ core' = [core EXCEPT ![r] = refused] /\ UNCHANGED grants
  \/ UNCHANGED <<core, grants>>

\* DaemonCore::acquire.  A request that is remembered is answered from
\* memory; another is granted, refused, or fails before it is decided.
acquire(r) ==
  \/ core[r] # nothing /\ UNCHANGED <<core, grants>>
  \/ /\ core[r] = nothing
     /\ \/ /\ grants' = grants + 1
           /\ core' = [core EXCEPT ![r] = granted(grants + 1)]
        \/ core' = [core EXCEPT ![r] = refused] /\ UNCHANGED grants
        \/ UNCHANGED <<core, grants>>

\* What dispatch answers once the command has run.
result(cmd, r) ==
  CASE cmd = "acquire"     -> IF core'[r] = nothing THEN failure ELSE core'[r]
    [] cmd = "lookup"      -> IF core[r] = nothing THEN unknown ELSE core[r]
    [] cmd = "query_state" -> view

\* handle_connection: the body arrived; dispatch runs the command.
WorkerBody(n) ==
  /\ worker[n].at = "body"
  /\ LET h == worker[n].header
         cmd == h.type
         r == h.body[2]
     IN  /\ Len(c2s[n]) >= length(h)
         /\ \/ /\ crc_matches(h, c2s[n])
               /\ IF cmd = "acquire" THEN acquire(r) ELSE UNCHANGED <<core, grants>>
               /\ worker' = [worker EXCEPT ![n] =
                               [at |-> "answer", header |-> h, body |-> result(cmd, r)]]
               /\ c2s' = [c2s EXCEPT ![n] = drop(@, length(h))]
               /\ owed' = IF h.correlation = last_correlation[n] /\ call # idle /\ call.conn = n
                          THEN owed \union {result(cmd, r)} ELSE owed
               /\ UNCHANGED s2c
            \/ /\ ~crc_matches(h, c2s[n])
               /\ leave(n, s2c[n] \o send_error(h.correlation), drop(c2s[n], length(h)))
               /\ UNCHANGED <<core, grants, owed>>
  /\ UNCHANGED <<up, caller, restarts, last, learned, absent, spoiled>>

\* Variant: a failure is reported outside of the call it answers.
answer_uncorrelated(n) ==
  encode_frame(IF worker[n].body = failure THEN error_type ELSE ack(worker[n].header.type),
               IF worker[n].body = failure THEN 0 ELSE worker[n].header.correlation,
               worker[n].body)

\* The frame that carries the worker's answer.
answer(n) ==
  encode_frame(IF worker[n].body = failure THEN error_type ELSE ack(worker[n].header.type),
               worker[n].header.correlation, worker[n].body)

\* write_message wrote the answer.
WorkerAnswers(n) ==
  /\ worker[n].at = "answer"
  /\ worker' = [worker EXCEPT ![n] = listening]
  /\ s2c' = [s2c EXCEPT ![n] = received(n, @ \o answer(n))]
  /\ UNCHANGED <<up, c2s, caller, daemon, ghosts>>

\* write_message failed: the answer does not fit a frame, or its header was
\* written before the caller left or the write timeout ran out.
WorkerFails(n) ==
  /\ worker[n].at = "answer"
  /\ \E k \in {0, HeaderUnits} : leave(n, s2c[n] \o keep(answer(n), k), c2s[n])
  /\ UNCHANGED <<up, caller, daemon, ghosts>>

\* The daemon ends and is started again: every connection is lost, what it
\* remembers is recovered from the store (Daemon asks when it is).
Restart ==
  /\ restarts < MaxRestarts
  /\ restarts' = restarts + 1
  /\ worker' = [n \in Conns |-> gone]
  /\ c2s' = [n \in Conns |-> <<>>]
  /\ s2c' \in {s2c, [n \in Conns |-> <<>>]}
  /\ UNCHANGED <<up, caller, core, grants, ghosts>>

-----------------------------------------------------------------------------
Reads == ReadHeader \/ ReadBody \/ ReadFails

Serves(n) ==
  WorkerHeader(n) \/ WorkerBody(n) \/ WorkerAnswers(n) \/ WorkerFails(n) \/ WorkerLeaves(n)

Next ==
  \/ \E n \in Conns : \/ Connect(n) \/ Close(n)
                      \/ \E cmd \in Commands, r \in Requests : Call(n, cmd, r) \/ SendFails(n, cmd, r)
                      \/ Serves(n)
  \/ Reads
  \/ Restart

\* The read timeout of the caller always runs out (io_timeout_ms is not 0).
\* The daemon owes nothing.
Fairness == WF_vars(Reads)

Spec == Init /\ [][Next]_vars /\ Fairness

-----------------------------------------------------------------------------
(* Properties.                                                             *)

\* What a call returns is what the core answered to that call, under its own
\* correlation on its own connection: an answer that arrives after its call
\* timed out is never taken for the answer to a later call.
AnswerBelongs ==
  last.how = "answer" => last.answer \in owed

\* On a connection where every earlier call was answered, a call never meets
\* a frame it cannot use: streams lose their place only after a failed call.
PlaceKept == last.how = "foreign" => ~last.clean

\* Every call returns, whatever the worker does.
CallsReturn == (call.at # "idle") ~> (call.at = "idle")

\* A request is decided once, and all the caller is told of it, by answers,
\* replays and lookups on any connection and across restarts, is that.
Promise == INSTANCE Exchange WITH decided <- core, NoOutcome <- nothing
ImplementsExchange == Promise!Spec

\* docs/protocol.md: when a lookup answers UNKNOWN no grant was created for
\* the request, and none is before the caller asks again.
UnknownIsFinal == \A r \in absent : core[r] = nothing
=============================================================================
