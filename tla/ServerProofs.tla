---------------------------- MODULE ServerProofs ----------------------------
(***************************************************************************)
(* For any number of connections and any bound: the connection count is    *)
(* exact, and after a normal return of run() nothing enters the core once  *)
(* core.stop() has run.                                                    *)
(***************************************************************************)
EXTENDS Server, FiniteSetTheorems, TLAPS

Serving == {"poll", "recv", "command", "shutdown", "reply", "confirm", "served", "close",
            "closed", "released"}

\* main() is past core.stop(), and past the point where run() has joined.
AfterStop == {"destroy", "destroy_ticker", "destroy_workers", "exited"}
AfterJoin == AfterStop \union {"core_stop"}

TypeOK ==
  /\ worker \in [Conn -> Serving \union {"none", "finished"}]
  /\ active \in Nat /\ observed \in Nat
  /\ pending \subseteq Conn

holders == {c \in Conn : worker[c] \in counted}

\* A worker that runs is in workers_, so that reap_workers(true) waits for it.
RunningListed == \A c \in Conn : worker[c] \in Serving => c \in listed

\* The connection accept() returned has no worker yet.
PendingIdle == main = "reserve" => \E c \in Conn : pending = {c} /\ worker[c] = "none"

CountExact == active = Cardinality(holders) /\ active <= MaxConnections

\* What run() has waited for when it returns normally.
JoinedBeforeStop ==
  /\ stopped => main \in AfterStop
  /\ ~failed /\ main \in AfterJoin \union {"join_workers"} => ticker = "done"
  /\ ~failed /\ main \in AfterJoin => \A c \in Conn : worker[c] \notin Serving
  /\ late => failed

IInv == TypeOK /\ RunningListed /\ PendingIdle /\ CountExact /\ JoinedBeforeStop

------------------------------------------------------------------------------
\* The holders of slots are finitely many, as connections are.
LEMMA HoldersFinite == IsFiniteSet(holders)
BY FS_Subset, ServerAssumption DEF holders

\* Initially nobody holds a slot.
LEMMA InitInv == Init => IInv
<1> SUFFICES ASSUME Init PROVE IInv
  OBVIOUS
<1>1. TypeOK /\ RunningListed /\ PendingIdle /\ JoinedBeforeStop
  BY DEF Init, TypeOK, RunningListed, PendingIdle, JoinedBeforeStop, Serving, AfterJoin, AfterStop
<1>2. holders = {}
  BY DEF Init, holders, counted
<1>3. CountExact
  BY <1>2, FS_EmptySet, ServerAssumption DEF Init, CountExact
<1> QED
  BY <1>1, <1>3 DEF IInv

\* The steps of run() and main() that leave the workers alone.
LEMMA MainKeepsWorkers ==
  ASSUME IInv,
         PollAccept \/ NothingToAccept \/ AcceptFails \/ Reject \/ ReserveAgain
           \/ SetStop \/ JoinTicker \/ CoreStop
  PROVE  IInv'
<1> USE DEF IInv, slots, ending
<1>1. worker' = worker /\ active' = active /\ listed' = listed
  BY DEF PollAccept, NothingToAccept, AcceptFails, Reject, ReserveAgain, SetStop, JoinTicker, CoreStop
<1>2. TypeOK'
  BY <1>1 DEF TypeOK, PollAccept, NothingToAccept, AcceptFails, Reject, ReserveAgain, SetStop,
     JoinTicker, CoreStop
<1>3. RunningListed'
  BY <1>1 DEF RunningListed
<1>4. PendingIdle'
  BY <1>1 DEF PendingIdle, PollAccept, NothingToAccept, AcceptFails, Reject, ReserveAgain, SetStop,
     JoinTicker, CoreStop
<1>5. CountExact'
  BY <1>1 DEF CountExact, holders
<1>6. JoinedBeforeStop'
  BY <1>1 DEF JoinedBeforeStop, AfterJoin, AfterStop, PollAccept, NothingToAccept, AcceptFails,
     Reject, ReserveAgain, SetStop, JoinTicker, CoreStop
<1> QED
  BY <1>2, <1>3, <1>4, <1>5, <1>6

\* Accepting reaps finished workers, who hold no slot.
LEMMA AcceptKeeps ==
  ASSUME IInv, NEW c \in Conn, Accept(c)
  PROVE  IInv'
<1> USE DEF IInv, ending
<1>1. TypeOK'
  BY DEF TypeOK, Accept, finished
<1>2. RunningListed'
  BY DEF RunningListed, TypeOK, Accept, finished, Serving
<1>3. PendingIdle'
  BY DEF PendingIdle, TypeOK, Accept, finished
<1>4. holders' = holders
  BY DEF holders, TypeOK, Accept, finished, counted
<1>5. CountExact'
  BY <1>4 DEF CountExact, Accept
<1>6. JoinedBeforeStop'
  BY DEF JoinedBeforeStop, AfterJoin, AfterStop, Accept
<1> QED
  BY <1>1, <1>2, <1>3, <1>5, <1>6

\* A reservation that succeeds adds one holder and one to the count.
LEMMA ReserveKeeps ==
  ASSUME IInv, Reserve
  PROVE  IInv'
<1> USE DEF IInv, ending
<1>1. PICK c \in Conn : pending = {c} /\ worker[c] = "none"
  BY DEF PendingIdle, Reserve
<1>2. worker' = [worker EXCEPT ![c] = "poll"]
  BY <1>1, Zenon DEF Reserve, TypeOK
<1>3. TypeOK'
  BY <1>2 DEF TypeOK, Reserve, reserved, Serving
<1>4. RunningListed'
  BY <1>1, <1>2 DEF RunningListed, TypeOK, Reserve
<1>5. PendingIdle'
  BY DEF PendingIdle, Reserve
<1>6. holders' = holders \union {c} /\ c \notin holders
  BY <1>1, <1>2 DEF holders, TypeOK, counted
<1>7. Cardinality(holders') = Cardinality(holders) + 1
  BY <1>6, HoldersFinite, FS_AddElement
<1>8. CountExact'
  <2>1. active = Cardinality(holders) /\ active' = active + 1
    BY DEF CountExact, Reserve, reserved
  <2>2. active' <= MaxConnections
    BY ServerAssumption DEF Reserve, reserved, TypeOK
  <2> QED
    BY <1>7, <2>1, <2>2 DEF CountExact
<1>9. JoinedBeforeStop'
  BY DEF JoinedBeforeStop, AfterJoin, AfterStop, Reserve
<1> QED
  BY <1>3, <1>4, <1>5, <1>8, <1>9

\* Joining waits for every worker that runs.
LEMMA JoinKeeps ==
  ASSUME IInv, JoinWorkers
  PROVE  IInv'
<1> USE DEF IInv, ending
<1>1. \A c \in Conn : worker[c] \notin Serving
  BY DEF RunningListed, JoinWorkers, joined, finished, Serving
<1>2. TypeOK' /\ RunningListed' /\ PendingIdle'
  BY <1>1 DEF TypeOK, RunningListed, PendingIdle, JoinWorkers
<1>3. CountExact'
  BY DEF CountExact, holders, JoinWorkers
<1>4. JoinedBeforeStop'
  BY <1>1 DEF JoinedBeforeStop, AfterJoin, AfterStop, JoinWorkers
<1> QED
  BY <1>2, <1>3, <1>4

\* A worker's steps: its slot is given back exactly once, and before it is
\* finished; in the core it is not late unless run() failed.
LEMMA WorkerKeeps ==
  ASSUME IInv, NEW c \in Conn, WorkerStep(c)
  PROVE  IInv'
<1> USE DEF IInv
<1>1. /\ worker[c] \in Serving
      /\ UNCHANGED <<main, pending, observed, listed, ticker, failed, stopped>>
  BY DEF WorkerStep, PollWorker, Receive, Command, Reply, AckShutdown, RequestStop, Served, Close,
     Release, Finish, Goes, InWorker, ending, Serving
<1>2. PICK to \in Serving \union {"finished"} :
        /\ worker' = [worker EXCEPT ![c] = to]
        /\ ~Release(c) => (worker[c] \in counted <=> to \in counted)
        /\ Release(c) => to \notin counted
  BY DEF WorkerStep, PollWorker, Receive, Command, Reply, AckShutdown, RequestStop, Served, Close,
     Release, Finish, Goes, Serving, counted
<1>3. active' = active \/ Release(c)
  BY DEF WorkerStep, PollWorker, Receive, Command, Reply, AckShutdown, RequestStop, Served, Close,
     Finish
<1>4. c \in listed
  BY <1>1 DEF RunningListed
<1>5. RunningListed'
  BY <1>1, <1>2, <1>4 DEF RunningListed, TypeOK
<1>6. PendingIdle'
  BY <1>1, <1>2 DEF PendingIdle, TypeOK, Serving
<1>7. TypeOK' /\ CountExact'
  <2>1. CASE Release(c)
    <3>1. holders' = holders \ {c} /\ c \in holders
      BY <1>2, <2>1 DEF holders, TypeOK, Release, Goes, counted
    <3>2. /\ Cardinality(holders') = Cardinality(holders) - 1
          /\ Cardinality(holders) \in Nat /\ Cardinality(holders') \in Nat
      <4>1. IsFiniteSet(holders \ {c})
        BY HoldersFinite, FS_RemoveElement
      <4> QED
        BY <3>1, <4>1, HoldersFinite, FS_RemoveElement, FS_CardinalityType
    <3>3. active = Cardinality(holders) /\ active' = active - 1 /\ active <= MaxConnections
      BY <2>1 DEF CountExact, Release
    <3>4. active' = Cardinality(holders') /\ active' \in Nat /\ active' <= MaxConnections
      BY <3>2, <3>3, ServerAssumption
    <3> QED
      BY <1>1, <1>2, <3>4 DEF TypeOK, CountExact
  <2>2. CASE ~Release(c)
    <3>1. holders' = holders
      BY <1>2, <2>2 DEF holders, TypeOK
    <3> QED
      BY <1>1, <1>2, <1>3, <2>2, <3>1 DEF TypeOK, CountExact
  <2> QED
    BY <2>1, <2>2
<1>8. late' => late \/ stopped
  BY Zenon DEF WorkerStep, PollWorker, Receive, Command, Reply, AckShutdown, RequestStop, Served, Close,
     Release, Finish
<1>9. JoinedBeforeStop'
  <2>1. stopped => failed
    BY <1>1 DEF JoinedBeforeStop, AfterJoin
  <2>2. ~failed => main \notin AfterJoin
    BY <1>1 DEF JoinedBeforeStop
  <2> QED
    BY <1>1, <1>8, <2>1, <2>2 DEF JoinedBeforeStop
<1> QED
  BY <1>5, <1>6, <1>7, <1>9

\* The ticker enters the core only while run() has not joined it.
LEMMA TickerKeeps ==
  ASSUME IInv, TickerStep
  PROVE  IInv'
<1> USE DEF IInv, slots, ending
<1>1. UNCHANGED <<main, pending, observed, active, listed, worker, failed, stopped>>
  BY DEF TickerStep, TickerCheck, Tick
<1>2. TypeOK' /\ RunningListed' /\ PendingIdle' /\ CountExact'
  BY <1>1 DEF TypeOK, RunningListed, PendingIdle, CountExact, holders
<1>3. CASE TickerCheck
  BY <1>1, <1>2, <1>3 DEF JoinedBeforeStop, TickerCheck
<1>4. CASE Tick
  <2>1. stopped => failed
    BY <1>4 DEF JoinedBeforeStop, Tick, AfterJoin
  <2>2. late' => late \/ stopped
    BY <1>4, Zenon DEF Tick
  <2>3. failed \/ main \notin AfterJoin \union {"join_workers"}
    BY <1>4 DEF JoinedBeforeStop, Tick
  <2>4. JoinedBeforeStop'
    BY <1>1, <2>1, <2>2, <2>3 DEF JoinedBeforeStop
  <2> QED
    BY <1>2, <2>4
<1> QED
  BY <1>3, <1>4 DEF TickerStep

\* Every step of every thread, and a signal, keeps the invariant.
LEMMA StepInv == IInv /\ [Next]_vars => IInv'
<1> SUFFICES ASSUME IInv, [Next]_vars PROVE IInv'
  OBVIOUS
<1>1. CASE MainStep
  BY <1>1, MainKeepsWorkers, AcceptKeeps, ReserveKeeps, JoinKeeps DEF MainStep
<1>2. CASE \E c \in Conn : WorkerStep(c)
  BY <1>2, WorkerKeeps
<1>3. CASE TickerStep
  BY <1>3, TickerKeeps
<1>4. CASE Signal \/ Exited \/ UNCHANGED vars
  BY <1>4 DEF Signal, Exited, vars, slots, ending, IInv, TypeOK, RunningListed, PendingIdle,
     CountExact, holders, JoinedBeforeStop
<1> QED
  BY <1>1, <1>2, <1>3, <1>4 DEF Next

\* The invariant holds throughout.
THEOREM Invariance == Spec => []IInv
BY InitInv, StepInv, PTL DEF Spec

\* The connection bound is exact (active_connections_, run and
\* handle_connection), however many connections there are.
THEOREM ConnectionBound == Spec => []BoundExact
<1>1. IInv => BoundExact
  BY DEF IInv, CountExact, BoundExact, holders
<1> QED
  BY <1>1, Invariance, PTL

\* After a normal return of run() nothing enters the core once core.stop() has
\* fenced every lease and marked the store clean (main, ~DaemonServer).
THEOREM QuietAfterStop == Spec => []NothingAfterStop
<1>1. IInv => NothingAfterStop
  BY DEF IInv, JoinedBeforeStop, NothingAfterStop
<1> QED
  BY <1>1, Invariance, PTL

=============================================================================
