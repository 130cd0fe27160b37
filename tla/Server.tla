------------------------------ MODULE Server ------------------------------
(***************************************************************************)
(* The threads of rnfd (runtime/server.cpp, apps/rnfd/main.cpp): the main  *)
(* thread accepts connections, one worker thread serves each, the ticker   *)
(* expires leases, and any of several events asks them all to stop.  A     *)
(* command is one atomic call into the core (DaemonCore::mutex_); a        *)
(* connection's slot is used again once its worker has been joined.        *)
(***************************************************************************)
EXTENDS Integers, FiniteSets

CONSTANTS
  Conn,             \* connections open at the same time
  MaxConnections    \* ServerConfig::max_connections

ASSUME ServerAssumption == IsFiniteSet(Conn) /\ MaxConnections \in Nat

VARIABLES
  main,       \* where main() is: see MainStep
  pending,    \* the connections accept() returned and nobody serves yet
  observed,   \* run()'s copy of active_connections_
  active,     \* active_connections_
  listed,     \* workers_
  worker,     \* where the worker of each connection is
  ticker,     \* where the ticker thread is
  stop,       \* stop_
  external,   \* g_stop, set by SIGINT and SIGTERM
  failed,     \* run() returned an error
  stopped,    \* core.stop() has run
  acked,      \* a client was told that the daemon is shutting down
  late        \* the core was entered after core.stop()

vars == <<main, pending, observed, active, listed, worker, ticker, stop, external,
          failed, stopped, acked, late>>
slots == <<pending, observed, active, listed, worker>>
ending == <<failed, stopped>>

\* The worker states in which the connection counts in active_connections_.
counted == {"poll", "recv", "command", "shutdown", "reply", "confirm", "served", "close", "closed"}

Init ==
  /\ main = "loop" /\ ticker = "check"
  /\ pending = {} /\ observed = 0 /\ active = 0 /\ listed = {}
  /\ worker = [c \in Conn |-> "none"]
  /\ stop = FALSE /\ external = FALSE /\ failed = FALSE
  /\ stopped = FALSE /\ acked = FALSE /\ late = FALSE

------------------------------------------------------------------------------
\* The main thread in run().  ticker_stop_ is only ever set after stop_.

\* Variant: only the server's own flag is polled.
should_stop_own == stop

should_stop == stop \/ external

finished(c) == worker[c] = "finished"

\* The loop condition and the poll at the top of accept().
PollAccept ==
  /\ main = "loop"
  /\ main' = IF should_stop THEN "flag" ELSE "select"
  /\ UNCHANGED <<slots, ticker, stop, external, ending, acked, late>>

\* select() timed out or was interrupted.
NothingToAccept ==
  /\ main = "select" /\ main' = "loop"
  /\ UNCHANGED <<slots, ticker, stop, external, ending, acked, late>>

\* A connection; reap_workers(false) joins the finished, then active is loaded.
Accept(c) ==
  /\ main = "select" /\ worker[c] = "none" /\ main' = "reserve"
  /\ pending' = {c}
  /\ listed' = {d \in listed : ~finished(d)}
  /\ worker' = [d \in Conn |-> IF finished(d) THEN "none" ELSE worker[d]]
  /\ observed' = active
  /\ UNCHANGED <<active, ticker, stop, external, ending, acked, late>>

\* select() or accept() failed: run() returns at once and joins nobody.
AcceptFails ==
  /\ main = "select"
  /\ main' = "core_stop" /\ failed' = TRUE
  /\ UNCHANGED <<slots, ticker, stop, external, stopped, acked, late>>

Reject ==
  /\ main = "reserve" /\ observed >= MaxConnections
  /\ main' = "loop" /\ pending' = {}
  /\ UNCHANGED <<observed, active, listed, worker, ticker, stop, external, ending, acked, late>>

\* Variant: the count is stored, not compared and exchanged.
reserved_blindly == active' = observed + 1

\* compare_exchange_weak succeeds.
reserved == active = observed /\ active' = observed + 1

Reserve ==
  /\ main = "reserve" /\ observed < MaxConnections
  /\ reserved
  /\ main' = "loop" /\ pending' = {} /\ listed' = listed \union pending
  /\ worker' = [c \in Conn |-> IF c \in pending THEN "poll" ELSE worker[c]]
  /\ UNCHANGED <<observed, ticker, stop, external, ending, acked, late>>

\* It fails, because a worker left or spuriously, and observed is loaded again.
ReserveAgain ==
  /\ main = "reserve" /\ observed < MaxConnections
  /\ observed' = active
  /\ UNCHANGED <<main, pending, active, listed, worker, ticker, stop, external, ending, acked, late>>

SetStop ==
  /\ main \in {"flag", "destroy"}
  /\ main' = IF main = "flag" THEN "join_ticker" ELSE "destroy_ticker"
  /\ stop' = TRUE
  /\ UNCHANGED <<slots, ticker, external, ending, acked, late>>

JoinTicker ==
  /\ main \in {"join_ticker", "destroy_ticker"} /\ ticker = "done"
  /\ main' = IF main = "join_ticker" THEN "join_workers" ELSE "destroy_workers"
  /\ UNCHANGED <<slots, ticker, stop, external, ending, acked, late>>

\* Variant: workers that are still running are left to finish by themselves.
joined_now == TRUE

joined == \A c \in listed : finished(c)

\* reap_workers(true).
JoinWorkers ==
  /\ main \in {"join_workers", "destroy_workers"} /\ joined
  /\ main' = IF main = "join_workers" THEN "core_stop" ELSE "exited"
  /\ listed' = {}
  /\ UNCHANGED <<pending, observed, active, worker, ticker, stop, external, ending, acked, late>>

\* main() after run(), whatever run() returned; then ~DaemonServer.
CoreStop ==
  /\ main = "core_stop" /\ main' = "destroy" /\ stopped' = TRUE
  /\ UNCHANGED <<slots, ticker, stop, external, failed, acked, late>>

MainStep ==
  \/ PollAccept \/ NothingToAccept \/ (\E c \in Conn : Accept(c)) \/ AcceptFails
  \/ Reject \/ Reserve \/ ReserveAgain
  \/ SetStop \/ JoinTicker \/ JoinWorkers \/ CoreStop

------------------------------------------------------------------------------
\* A worker in handle_connection().
Goes(c, from, to) == worker[c] = from /\ worker' = [worker EXCEPT ![c] = to]

InWorker == UNCHANGED <<main, pending, observed, listed, ticker, external, ending>>

\* recv_exact_interruptible looks at stop_ before every select().
PollWorker(c) ==
  /\ Goes(c, "poll", IF stop THEN "close" ELSE "recv")
  /\ InWorker /\ UNCHANGED <<active, stop, acked, late>>

\* Nothing, the peer is gone, idle, or sent a bad frame, or a whole request.
Receive(c) ==
  /\ \E to \in {"poll", "close", "command", "shutdown"} : Goes(c, "recv", to)
  /\ InWorker /\ UNCHANGED <<active, stop, acked, late>>

Command(c) ==
  /\ Goes(c, "command", "reply")
  /\ late' = (late \/ stopped)
  /\ InWorker /\ UNCHANGED <<active, stop, acked>>

\* write_message of the answer, or of the error, succeeds or fails.
Reply(c) ==
  /\ \E to \in {"served", "close"} : Goes(c, "reply", to)
  /\ InWorker /\ UNCHANGED <<active, stop, acked, late>>

\* kShutdown acknowledges first; when that write fails nothing is stopped.
AckShutdown(c) ==
  /\ \/ Goes(c, "shutdown", "confirm") /\ acked' = TRUE
     \/ Goes(c, "shutdown", "close") /\ UNCHANGED acked
  /\ InWorker /\ UNCHANGED <<active, stop, late>>

RequestStop(c) ==
  /\ Goes(c, "confirm", "served")
  /\ stop' = TRUE
  /\ InWorker /\ UNCHANGED <<active, acked, late>>

Served(c) ==
  /\ Goes(c, "served", IF stop THEN "close" ELSE "poll")
  /\ InWorker /\ UNCHANGED <<active, stop, acked, late>>

Close(c) ==
  /\ Goes(c, "close", "closed")
  /\ InWorker /\ UNCHANGED <<active, stop, acked, late>>

Release(c) ==
  /\ Goes(c, "closed", "released")
  /\ active' = active - 1
  /\ InWorker /\ UNCHANGED <<stop, acked, late>>

Finish(c) ==
  /\ Goes(c, "released", "finished")
  /\ InWorker /\ UNCHANGED <<active, stop, acked, late>>

WorkerStep(c) ==
  \/ PollWorker(c) \/ Receive(c) \/ Command(c) \/ Reply(c) \/ AckShutdown(c) \/ RequestStop(c)
  \/ Served(c) \/ Close(c) \/ Release(c) \/ Finish(c)

------------------------------------------------------------------------------
\* The ticker; its sleep is part of the way back to the check.
TickerCheck ==
  /\ ticker = "check" /\ ticker' = IF stop THEN "done" ELSE "tick"
  /\ UNCHANGED <<main, slots, stop, external, ending, acked, late>>

Tick ==
  /\ ticker = "tick" /\ ticker' = "check"
  /\ late' = (late \/ stopped)
  /\ UNCHANGED <<main, slots, stop, external, ending, acked>>

TickerStep == TickerCheck \/ Tick

\* SIGINT or SIGTERM.
Signal ==
  /\ ~external /\ main # "exited" /\ external' = TRUE
  /\ UNCHANGED <<main, slots, ticker, stop, ending, acked, late>>

\* main() has returned: the process is gone.
Exited == main = "exited" /\ UNCHANGED vars

Next == MainStep \/ (\E c \in Conn : WorkerStep(c)) \/ TickerStep \/ Signal \/ Exited

\* Every thread that can run does; clients and signals owe nothing.
Fairness == WF_vars(MainStep) /\ WF_vars(TickerStep) /\ \A c \in Conn : WF_vars(WorkerStep(c))

Spec == Init /\ [][Next]_vars /\ Fairness

------------------------------------------------------------------------------
\* The connection bound is exact: active_connections_ is the number of workers
\* that hold a slot, through every race between run()'s load and exchange and
\* the workers' decrements, and it never passes the configured bound.
BoundExact ==
  /\ active = Cardinality({c \in Conn : worker[c] \in counted})
  /\ active <= MaxConnections

\* When run() returns normally nothing enters the core after core.stop(): no
\* worker's command and no tick can follow the fencing of every lease and the
\* clean-shutdown marker.
NothingAfterStop == late => failed

\* Shutdown completes: a signal, a stop request or an acknowledged shutdown
\* command leads to the exit of the process, with clients still connected, a
\* request being served, or accept() failing at that moment.
ShutdownCompletes == (stop \/ external \/ acked) ~> (main = "exited")

=============================================================================
