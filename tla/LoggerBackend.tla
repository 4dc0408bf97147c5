---------------------------- MODULE LoggerBackend ----------------------------
(***************************************************************************)
(* br_logger::LoggerBackend: the ring, the worker thread that empties it,  *)
(* and the sinks it feeds.  The ring is the queue MPSCQueue, which         *)
(* MPSCRingBuffer implements.                                              *)
(*                                                                         *)
(* Three kinds of thread: the Loggers call TryPush; the worker runs        *)
(* WorkerLoop; the application thread owns the backend and calls AddSink,  *)
(* Start, Stop (also from the destructor) and Drain.  Without              *)
(* BR_LOG_HAS_THREAD (embedded mode) there is no worker and the            *)
(* application drains by hand.  The contract of the README is kept by the  *)
(* application: AddSink only while the backend is stopped, Drain only      *)
(* while no worker runs.  A sink is known by its place in sinks_.          *)
(*                                                                         *)
(* The worker's idle counter chooses between spinning, yielding and        *)
(* sleeping before the next look at running_; it decides nothing else and  *)
(* is left out.                                                            *)
(***************************************************************************)
EXTENDS Integers, Sequences, FiniteSets

CONSTANTS
    Loggers,    \* threads that push entries
    MaxSinks,   \* bound: sinks the application adds
    Bound,      \* BR_LOG_RING_SIZE
    BatchSize,  \* 64: the argument of Drain in WorkerLoop and Stop
    Builds,     \* the values of BR_LOG_HAS_THREAD considered
    Wraps,      \* TRUE if the ring's positions may pass 2^32
    MaxPushes,  \* bound: calls of TryPush per logger
    MaxStarts,  \* bound: calls of Start and of Drain by the application
    NoEntry     \* the entry of a Drain that is not dispatching

ASSUME LoggersAssumption == IsFiniteSet(Loggers)
ASSUME BoundAssumption == Bound \in Nat \ {0} /\ BatchSize \in Nat \ {0}
ASSUME BuildsAssumption == Builds \subseteq BOOLEAN /\ Wraps \in BOOLEAN
ASSUME LimitsAssumption ==
    MaxPushes \in Nat /\ MaxStarts \in Nat /\ MaxSinks \in Nat
ASSUME NoEntryAssumption == NoEntry \notin Loggers \X (1..MaxPushes)

VARIABLES
    cells,      \* ring_, oldest first
    popped,     \* history: entries taken from ring_
    pushes,     \* calls of TryPush each logger has begun
    pushing,    \* loggers that have claimed a cell and not published it
    dropped,    \* history: entries TryPush refused
    has_thread, \* BR_LOG_HAS_THREAD in this build: never changes
    sinks,      \* sinks_.size()
    running,    \* running_
    where,      \* what the worker and the application thread are doing
    batch,      \* their Drain: [count, entry, sink]
    starts,     \* calls of Start and Drain so far
    written,    \* what each sink's Write has received
    flushed,    \* how many of those its Flush has covered
    added,      \* history: Len(popped) when the sink was added
    atStop      \* history: the entries accepted and not yet delivered when
                \* the last Stop was called: [accepted, clear]

ringVars == <<cells, popped>>
loggerVars == <<pushes, pushing, dropped>>
drainVars == <<where, batch>>
sinkVars == <<has_thread, sinks, written, flushed, added>>
vars == <<ringVars, loggerVars, sinkVars, running, drainVars, starts, atStop>>

Entries == Loggers \X (1..MaxPushes)
EntryOf(l) == <<l, pushes[l]>>
Sinks == 1..MaxSinks
Drainers == {"worker", "app"}
DrainCall == [count |-> 0, entry |-> NoEntry, sink |-> 1]

Ring == INSTANCE MPSCQueue WITH Items <- Entries

Init ==
    /\ Ring!QueueInit
    /\ pushes = [l \in Loggers |-> 0]
    /\ pushing = {}
    /\ dropped = {}
    /\ has_thread \in Builds
    /\ sinks = 0
    /\ running = FALSE
    /\ where = [worker |-> "none", app |-> "idle"]
    /\ batch = [d \in Drainers |-> DrainCall]
    /\ starts = 0
    /\ written = [s \in Sinks |-> << >>]
    /\ flushed = [s \in Sinks |-> 0]
    /\ added = [s \in Sinks |-> 0]
    /\ atStop = [accepted |-> {}, clear |-> {}]

Goto(d, label) == where' = [where EXCEPT ![d] = label]

-----------------------------------------------------------------------------
(***************************************************************************)
(* TryPush, by the threads that log.                                       *)
(***************************************************************************)
Begin(l) ==
    /\ l \notin pushing
    /\ pushes[l] < MaxPushes
    /\ pushes' = [pushes EXCEPT ![l] = @ + 1]

PushClaim(l) ==
    /\ Begin(l)
    /\ Ring!Claim(<<l, pushes[l] + 1>>)
    /\ pushing' = pushing \cup {l}
    /\ UNCHANGED <<dropped, sinkVars, running, drainVars, starts, atStop>>

PushPublish(l) ==
    /\ l \in pushing
    /\ \E k \in DOMAIN cells : cells[k].item = EntryOf(l) /\ Ring!Publish(k)
    /\ pushing' = pushing \ {l}
    /\ UNCHANGED <<pushes, dropped, sinkVars, running, drainVars, starts, atStop>>

\* The ring is full.  When positions wrap, a producer whose pos other threads
\* have outrun meanwhile also takes a ring with room for a full one.
PushFull(l) ==
    /\ Begin(l)
    /\ Len(cells) = Bound \/ Wraps
    /\ dropped' = dropped \cup {<<l, pushes[l] + 1>>}
    /\ UNCHANGED <<ringVars, pushing, sinkVars, running, drainVars, starts, atStop>>

-----------------------------------------------------------------------------
(***************************************************************************)
(* Drain(max_entries), called by the worker ("poll", "final") or by the    *)
(* application ("stopping", "manual").                                     *)
(***************************************************************************)
InDrain(d) == where[d] \in {"poll", "final", "stopping", "manual"}

\* The call of Drain: count = 0.
CallDrain(d) == batch' = [batch EXCEPT ![d] = DrainCall]

\* Mutant: `count <= max_entries`.
DrainPopOneMore(d) ==
    /\ InDrain(d)
    /\ batch[d].entry = NoEntry
    /\ batch[d].count <= BatchSize
    /\ Ring!Pop
    /\ batch' = [batch EXCEPT ![d].entry = Head(cells).item, ![d].sink = 1]
    /\ UNCHANGED <<loggerVars, sinkVars, running, where, starts, atStop>>

\* `count < max_entries && ring_.TryPop(entry)` holds: Dispatch begins.
DrainPop(d) ==
    /\ InDrain(d)
    /\ batch[d].entry = NoEntry
    /\ batch[d].count < BatchSize
    /\ Ring!Pop
    /\ batch' = [batch EXCEPT ![d].entry = Head(cells).item, ![d].sink = 1]
    /\ UNCHANGED <<loggerVars, sinkVars, running, where, starts, atStop>>

\* Dispatch hands the entry to the next sink.
DispatchWrite(d) ==
    /\ batch[d].entry # NoEntry
    /\ batch[d].sink <= sinks
    /\ written' = [written EXCEPT ![batch[d].sink] = Append(@, batch[d].entry)]
    /\ batch' = [batch EXCEPT ![d].sink = @ + 1]
    /\ UNCHANGED <<ringVars, loggerVars, has_thread, sinks, flushed, added, running,
                   where, starts, atStop>>

\* Mutant: Dispatch may return before the last sink.
DispatchSkipsLast(d) ==
    /\ batch[d].entry # NoEntry
    /\ batch[d].sink >= sinks
    /\ batch' = [batch EXCEPT ![d].entry = NoEntry, ![d].count = @ + 1]
    /\ UNCHANGED <<ringVars, loggerVars, sinkVars, running, where, starts, atStop>>

\* Dispatch returns and ++count.
DispatchReturn(d) ==
    /\ batch[d].entry # NoEntry
    /\ batch[d].sink > sinks
    /\ batch' = [batch EXCEPT ![d].entry = NoEntry, ![d].count = @ + 1]
    /\ UNCHANGED <<ringVars, loggerVars, sinkVars, running, where, starts, atStop>>

\* The loop condition fails: Drain returns count to its caller.
DrainEnds(d) ==
    /\ InDrain(d)
    /\ batch[d].entry = NoEntry
    /\ batch[d].count = BatchSize \/ ~Ring!HeadReady

\* `while (Drain(64) > 0)`: again after a batch, on after an empty one.
DrainAgain(d, label, after) ==
    /\ where[d] = label
    /\ DrainEnds(d)
    /\ CallDrain(d)
    /\ Goto(d, IF batch[d].count > 0 THEN label ELSE after)
    /\ UNCHANGED <<ringVars, loggerVars, sinkVars, running, starts, atStop>>

-----------------------------------------------------------------------------
(***************************************************************************)
(* WorkerLoop.                                                             *)
(***************************************************************************)
WorkerCheck ==
    /\ where["worker"] = "loop"
    /\ Goto("worker", IF running THEN "poll" ELSE "final")
    /\ CallDrain("worker")
    /\ UNCHANGED <<ringVars, loggerVars, sinkVars, running, starts, atStop>>

\* Mutant: an empty batch ends the thread.
WorkerGivesUp ==
    /\ where["worker"] = "poll"
    /\ DrainEnds("worker")
    /\ Goto("worker", IF batch["worker"].count > 0 THEN "loop" ELSE "exited")
    /\ UNCHANGED <<ringVars, loggerVars, sinkVars, running, batch, starts, atStop>>

WorkerPolled ==
    /\ where["worker"] = "poll"
    /\ DrainEnds("worker")
    /\ Goto("worker", "loop")
    /\ UNCHANGED <<ringVars, loggerVars, sinkVars, running, batch, starts, atStop>>

\* The final drain; the thread function returns after an empty batch.
WorkerFinal == DrainAgain("worker", "final", "exited")

Worker ==
    \/ WorkerCheck \/ WorkerPolled \/ WorkerFinal
    \/ DrainPop("worker") \/ DispatchWrite("worker") \/ DispatchReturn("worker")

-----------------------------------------------------------------------------
(***************************************************************************)
(* The application thread.                                                 *)
(***************************************************************************)
\* Mutant: Stop never joins.
neverJoinable == FALSE

joinable == where["worker"] # "none"

AddSink ==
    /\ where["app"] = "idle"
    /\ ~running
    /\ sinks < MaxSinks
    /\ sinks' = sinks + 1
    /\ added' = [added EXCEPT ![sinks + 1] = Len(popped)]
    /\ UNCHANGED <<ringVars, loggerVars, has_thread, written, flushed, running,
                   drainVars, starts, atStop>>

\* Start returns at once if running_; else it creates the thread.
Start ==
    /\ where["app"] = "idle"
    /\ starts < MaxStarts
    /\ starts' = starts + 1
    /\ ~running
    /\ running' = TRUE
    /\ IF has_thread THEN Goto("worker", "loop") ELSE UNCHANGED where
    /\ UNCHANGED <<ringVars, loggerVars, sinkVars, batch, atStop>>

\* Entries in the ring whose TryPush has returned true.
Published == {cells[k].item : k \in {j \in DOMAIN cells : cells[j].ready}}

\* Those with only published cells in front of them.
Clear ==
    {cells[k].item : k \in {j \in DOMAIN cells : \A i \in 1..j : cells[i].ready}}

\* What the worker has popped and not yet handed to every sink.
InHand == {batch[d].entry : d \in Drainers} \ {NoEntry}

\* Mutant: Stop forgets to reset running_.
StopKeepsRunning ==
    /\ where["app"] = "idle"
    /\ Goto("app", IF joinable THEN "joining" ELSE "stopping")
    /\ batch' = [batch EXCEPT !["app"] = DrainCall]
    /\ atStop' = [accepted |-> Published \cup InHand, clear |-> Clear \cup InHand]
    /\ UNCHANGED <<ringVars, loggerVars, sinkVars, running, starts>>

Stop ==
    /\ where["app"] = "idle"
    /\ running' = FALSE
    /\ Goto("app", IF joinable THEN "joining" ELSE "stopping")
    /\ batch' = [batch EXCEPT !["app"] = DrainCall]
    /\ atStop' = [accepted |-> Published \cup InHand, clear |-> Clear \cup InHand]
    /\ UNCHANGED <<ringVars, loggerVars, sinkVars, starts>>

\* worker_.join() returns once the thread function has.
Join ==
    /\ where["app"] = "joining"
    /\ where["worker"] = "exited"
    /\ where' = [worker |-> "none", app |-> "stopping"]
    /\ CallDrain("app")
    /\ UNCHANGED <<ringVars, loggerVars, sinkVars, running, starts, atStop>>

\* Mutant: Stop flushes without draining what is left.
StopSkipsDrain ==
    /\ where["app"] = "stopping"
    /\ Goto("app", "flushing")
    /\ UNCHANGED <<ringVars, loggerVars, sinkVars, running, batch, starts, atStop>>

StopDrain == DrainAgain("app", "stopping", "flushing")

\* The loop over sinks_ that calls Flush, then Stop returns.
FlushSinks ==
    /\ where["app"] = "flushing"
    /\ flushed' = [s \in Sinks |-> IF s <= sinks
                                   THEN Len(written[s]) ELSE flushed[s]]
    /\ Goto("app", "idle")
    /\ UNCHANGED <<ringVars, loggerVars, has_thread, sinks, written, added, running,
                   batch, starts, atStop>>

\* Drain by hand.
Drain ==
    /\ where["app"] = "idle"
    /\ ~joinable
    /\ starts < MaxStarts
    /\ starts' = starts + 1
    /\ Goto("app", "manual")
    /\ CallDrain("app")
    /\ UNCHANGED <<ringVars, loggerVars, sinkVars, running, atStop>>

DrainReturn ==
    /\ where["app"] = "manual"
    /\ DrainEnds("app")
    /\ Goto("app", "idle")
    /\ UNCHANGED <<ringVars, loggerVars, sinkVars, running, batch, starts, atStop>>

StopSteps ==
    \/ Join \/ StopDrain \/ FlushSinks \/ DrainReturn
    \/ DrainPop("app") \/ DispatchWrite("app") \/ DispatchReturn("app")

App == StopSteps \/ Start \/ Stop \/ Drain \/ AddSink

Logging == \E l \in Loggers : PushClaim(l) \/ PushPublish(l) \/ PushFull(l)

Next == Worker \/ App \/ Logging

Spec == Init /\ [][Next]_vars

-----------------------------------------------------------------------------
(***************************************************************************)
(* Fairness.  The operating system keeps scheduling the worker and, once   *)
(* it is inside Stop or Drain, the application thread.                     *)
(***************************************************************************)
FairSpec == Spec /\ WF_vars(Worker) /\ WF_vars(StopSteps)

-----------------------------------------------------------------------------
(***************************************************************************)
(* Properties.                                                             *)
(***************************************************************************)
\* The type invariant: in particular the ring never exceeds its size and a
\* batch never exceeds its limit.
TypeOK ==
    /\ cells \in Seq(Ring!Cells) /\ Len(cells) <= Bound
    /\ popped \in Seq(Entries)
    /\ pushes \in [Loggers -> 0..MaxPushes]
    /\ pushing \subseteq Loggers
    /\ dropped \subseteq Entries
    /\ has_thread \in BOOLEAN
    /\ sinks \in 0..MaxSinks
    /\ running \in BOOLEAN
    /\ where \in [Drainers -> {"none", "loop", "poll", "final", "exited", "idle",
                               "joining", "stopping", "flushing", "manual"}]
    /\ batch \in [Drainers -> [count : 0..BatchSize,
                               entry : Entries \cup {NoEntry},
                               sink : Nat \ {0}]]
    /\ starts \in 0..MaxStarts
    /\ written \in [Sinks -> Seq(Entries)]
    /\ flushed \in [Sinks -> Nat]
    /\ added \in [Sinks -> Nat]
    /\ atStop \in [accepted : SUBSET Entries, clear : SUBSET Entries]

\* TryPop and the sinks have one caller at a time: the drain that ends Stop
\* and the worker's own final drain never overlap, and a Start after Stop
\* does not find a thread that was not joined.
SingleConsumer ==
    /\ ~(InDrain("worker") /\ InDrain("app"))
    /\ where["app"] \in {"idle", "manual"} /\ ~running => ~joinable

\* Each sink has received, in order and once, exactly the entries popped
\* since it was added, but for the one Dispatch has in hand for it.
EverySinkEveryEntry ==
    \A s \in 1..sinks :
        LET due == {d \in Drainers : batch[d].entry # NoEntry /\ batch[d].sink <= s}
            inHand == IF due = {} THEN << >>
                      ELSE <<batch[CHOOSE d \in due : TRUE].entry>>
        IN  written[s] \o inHand = SubSeq(popped, added[s] + 1, Len(popped))

Flushes(s, e) == \E k \in 1..flushed[s] : written[s][k] = e
Delivered(es) == \A s \in 1..sinks : \A e \in es : Flushes(s, e)

StopReturns == where["app"] = "flushing" /\ where'["app"] = "idle"

\* Stop delivers and flushes to every sink all it owes: whatever TryPush had
\* accepted before Stop was called, unless a push that is still between its
\* compare-exchange and its publishing store stood in front of it.
StopDelivers == [][StopReturns => Delivered(atStop.clear)']_vars

\* The same without the exception, as backend.hpp has it: Stop waits for the
\* thread and drains the remaining entries.
StopDrainsRing == [][StopReturns => Delivered(atStop.accepted)']_vars

\* Stop returns, even if a logger hangs for ever inside TryPush.
StopCompletes ==
    where["app"] \in {"joining", "stopping", "flushing"} ~> where["app"] = "idle"

WrittenToAll(e) ==
    \A s \in 1..sinks : \E k \in DOMAIN written[s] : written[s][k] = e

\* While the worker runs, every accepted entry reaches every sink, or the
\* application stops the backend: if loggers that have claimed a cell go on to
\* publish it, since an unpublished cell holds up the ones behind it.
DeliveredWhileRunning ==
    (\A l \in Loggers : WF_vars(PushPublish(l))) =>
        \A e \in Entries :
            (joinable /\ running /\ e \in Published) ~> (WrittenToAll(e) \/ ~running)
=============================================================================
