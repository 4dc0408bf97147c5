------------------------------- MODULE Logger -------------------------------
(***************************************************************************)
(* br_logger::Logger and the logging macros on top of LoggerBackend.  A    *)
(* thread that executes a macro passes its site's gate (none for LOG_INFO  *)
(* and the like; LOG_ONCE and LOG_EVERY_N keep a static atomic per site),  *)
(* compares the level with the threshold, takes a sequence id, fills and   *)
(* pushes the entry, and counts it when the ring refuses it.  Each shared  *)
(* atomic is read or written in a step of its own.  A gated macro has one  *)
(* site of each kind here.                                                 *)
(*                                                                         *)
(* Contents of the entry other than its identity and its sequence id are   *)
(* left out here: tags are in LogContext.                                  *)
(***************************************************************************)
EXTENDS Integers, Sequences, FiniteSets

CONSTANTS
    Loggers, Bound, BatchSize, Builds, Wraps, MaxPushes, MaxStarts, MaxSinks, NoEntry,
    Levels,         \* the levels in use, as their enum values
    ActiveLevel,    \* BR_LOG_ACTIVE_LEVEL: compile-time threshold
    EveryN,         \* the n of the LOG_EVERY_N site
    Sites,          \* macros in use: a subset of {"plain", "once", "every_n"}
    MaxGates        \* bound: macro executions per thread

\* What LoggerBackend assumes of its parameters.
ASSUME BackendAssumption ==
    /\ IsFiniteSet(Loggers)
    /\ Bound \in Nat \ {0} /\ BatchSize \in Nat \ {0}
    /\ Builds \subseteq BOOLEAN /\ Wraps \in BOOLEAN
    /\ MaxPushes \in Nat /\ MaxStarts \in Nat /\ MaxSinks \in Nat
    /\ NoEntry \notin Loggers \X (1..MaxPushes)
ASSUME LevelsAssumption == Levels \subseteq Nat /\ ActiveLevel \in Nat
ASSUME EveryNAssumption == EveryN \in Nat \ {0}
ASSUME SitesAssumption == Sites \subseteq {"plain", "once", "every_n"}
ASSUME MaxGatesAssumption == MaxGates \in Nat /\ MaxGates <= MaxPushes

VARIABLES
    cells, popped, pushes, pushing, dropped, has_thread, sinks, running, where,
    batch, starts, written, flushed, added, atStop,    \* of LoggerBackend
    level,      \* level_
    sequence,   \* sequence_
    drop_count, \* drop_count_
    started,    \* started_
    alive,      \* FALSE once the destructor has been entered
    pc,         \* where each thread is in the macro
    once,       \* _br_logged of the LOG_ONCE site
    count,      \* _hpc_count of the LOG_EVERY_N site
    gates,      \* macros each thread has begun
    ids,        \* history: the sequence id of each entry, by issue
    passed,     \* history: executions that got past each kind of gate
    forgotten   \* history: drops that ResetDropCount has erased

backendVars == <<cells, popped, pushes, pushing, dropped, has_thread, sinks, running,
                 where, batch, starts, written, flushed, added, atStop>>
siteVars == <<once, count, passed>>
macroVars == <<pc, gates>>
vars == <<backendVars, level, sequence, drop_count, started, alive, macroVars, siteVars,
          ids, forgotten>>

Backend == INSTANCE LoggerBackend

Gated == {"once", "every_n"}

Init ==
    /\ Backend!Init
    /\ level \in Levels
    /\ sequence = 0
    /\ drop_count = 0
    /\ started = FALSE
    /\ alive = TRUE
    /\ pc = [l \in Loggers |-> "idle"]
    /\ once = FALSE
    /\ count = 0
    /\ gates = [l \in Loggers |-> 0]
    /\ ids = [l \in Loggers |-> << >>]
    /\ passed = [s \in Gated |-> 0]
    /\ forgotten = 0

Goto(l, label) == pc' = [pc EXCEPT ![l] = label]

-----------------------------------------------------------------------------
(***************************************************************************)
(* The macros.                                                             *)
(***************************************************************************)
\* LOG_ONCE: the exchange returns the old flag.
OnceOpens == ~once

\* Mutant: the n-th execution passes in place of the first.
EveryNOpensLate == (count + 1) % EveryN = 0

\* LOG_EVERY_N: fetch_add returns the old count.
EveryNOpens == count % EveryN = 0

Opens(s) ==
    CASE s = "plain"   -> TRUE
      [] s = "once"    -> OnceOpens
      [] s = "every_n" -> EveryNOpens

\* A thread reaches a logging statement and performs the atomic operation of
\* its gate, if it has one.
Execute(l, s) ==
    /\ alive
    /\ pc[l] = "idle"
    /\ gates[l] < MaxGates
    /\ gates' = [gates EXCEPT ![l] = @ + 1]
    /\ once' = (once \/ s = "once")
    /\ count' = IF s = "every_n" THEN count + 1 ELSE count
    /\ passed' = [g \in Gated |-> IF g = s /\ Opens(s) THEN passed[g] + 1
                                  ELSE passed[g]]
    /\ Goto(l, IF Opens(s) THEN "level" ELSE "idle")
    /\ UNCHANGED <<backendVars, level, sequence, drop_count, started, alive, ids,
                   forgotten>>

\* BR_LOG_CALL: the compile-time threshold, then the runtime one.
Enabled(v) == v >= ActiveLevel /\ v >= level

\* The macro's own level is v.
CheckLevel(l, v) ==
    /\ pc[l] = "level"
    /\ Goto(l, IF Enabled(v) THEN "fetch" ELSE "idle")
    /\ UNCHANGED <<backendVars, level, sequence, drop_count, started, alive, gates,
                   siteVars, ids, forgotten>>

-----------------------------------------------------------------------------
(***************************************************************************)
(* LogImpl.                                                                *)
(***************************************************************************)
\* Mutant: the id is read but not advanced.
ReadSequence(l) ==
    /\ pc[l] = "fetch"
    /\ ids' = [ids EXCEPT ![l] = Append(@, sequence)]
    /\ Goto(l, "push")
    /\ UNCHANGED <<backendVars, level, sequence, drop_count, started, alive, gates, siteVars, forgotten>>

FetchSequence(l) ==
    /\ pc[l] = "fetch"
    /\ ids' = [ids EXCEPT ![l] = Append(@, sequence)]
    /\ sequence' = sequence + 1
    /\ Goto(l, "push")
    /\ UNCHANGED <<backendVars, level, drop_count, started, alive, gates,
                   siteVars, forgotten>>

\* backend_.TryPush(entry): claim and publish, or refusal.
Push(l) ==
    /\ pc[l] = "push"
    /\ Backend!PushClaim(l)
    /\ Goto(l, "publish")
    /\ UNCHANGED <<level, sequence, drop_count, started, alive, gates,
                   siteVars, ids, forgotten>>

Publish(l) ==
    /\ pc[l] = "publish"
    /\ Backend!PushPublish(l)
    /\ Goto(l, "idle")
    /\ UNCHANGED <<level, sequence, drop_count, started, alive, gates,
                   siteVars, ids, forgotten>>

Refused(l) ==
    /\ pc[l] = "push"
    /\ Backend!PushFull(l)
    /\ Goto(l, "count")
    /\ UNCHANGED <<level, sequence, drop_count, started, alive, gates,
                   siteVars, ids, forgotten>>

\* Mutant: the result of TryPush is ignored.
DropUncounted(l) ==
    /\ pc[l] = "count"
    /\ Goto(l, "idle")
    /\ UNCHANGED <<backendVars, level, sequence, drop_count, started, alive, gates, siteVars, ids, forgotten>>

\* drop_count_.fetch_add(1)
CountDrop(l) ==
    /\ pc[l] = "count"
    /\ drop_count' = drop_count + 1
    /\ Goto(l, "idle")
    /\ UNCHANGED <<backendVars, level, sequence, started, alive, gates,
                   siteVars, ids, forgotten>>

Logging(l) ==
    \/ \E s \in Sites : Execute(l, s)
    \/ \E v \in Levels : CheckLevel(l, v)
    \/ FetchSequence(l) \/ Push(l) \/ Publish(l) \/ Refused(l) \/ CountDrop(l)

-----------------------------------------------------------------------------
(***************************************************************************)
(* Control, by the application thread; SetLevel by any thread.             *)
(***************************************************************************)
loggerOnly == <<level, sequence, drop_count, macroVars, siteVars, ids, forgotten>>

SetLevel(v) ==
    /\ level # v
    /\ level' = v
    /\ UNCHANGED <<backendVars, sequence, drop_count, started, alive, macroVars,
                   siteVars, ids, forgotten>>

ResetDropCount ==
    /\ drop_count > 0
    /\ drop_count' = 0
    /\ forgotten' = forgotten + drop_count
    /\ UNCHANGED <<backendVars, level, sequence, started, alive, macroVars, siteVars, ids>>

AddSink ==
    /\ alive
    /\ ~started
    /\ Backend!AddSink
    /\ UNCHANGED <<started, alive, loggerOnly>>

\* Start returns at once when started_.
Start ==
    /\ alive
    /\ ~started
    /\ Backend!Start
    /\ started' = TRUE
    /\ UNCHANGED <<alive, loggerOnly>>

\* Stop returns at once unless started_.
Stop ==
    /\ alive
    /\ started
    /\ Backend!Stop
    /\ UNCHANGED <<started, alive, loggerOnly>>

\* Mutant: a backend whose destructor does not call Stop.
DestroyWithoutStop ==
    /\ alive /\ ~started
    /\ where["app"] = "idle"
    /\ \A l \in Loggers : pc[l] = "idle"
    /\ alive' = FALSE
    /\ UNCHANGED <<backendVars, started, loggerOnly>>

\* ~Logger, after its own Stop if started_, destroys backend_, whose
\* destructor calls Stop again.  No thread may be logging by then.
Destroy ==
    /\ alive /\ ~started
    /\ \A l \in Loggers : pc[l] = "idle"
    /\ alive' = FALSE
    /\ Backend!Stop
    /\ UNCHANGED <<started, loggerOnly>>

\* Mutant: started_ is not reset.
StopKeepsStarted ==
    /\ Backend!FlushSinks
    /\ UNCHANGED <<started, alive, loggerOnly>>

\* The backend's Stop returns and, in Logger::Stop, started_ is reset.
StopReturns ==
    /\ Backend!FlushSinks
    /\ started' = FALSE
    /\ UNCHANGED <<alive, loggerOnly>>

Drain ==
    /\ alive
    /\ Backend!Drain
    /\ UNCHANGED <<started, alive, loggerOnly>>

BackendSteps ==
    /\ \/ Backend!Worker
       \/ Backend!Join \/ Backend!StopDrain \/ Backend!DrainReturn
       \/ Backend!DrainPop("app") \/ Backend!DispatchWrite("app")
       \/ Backend!DispatchReturn("app")
    /\ UNCHANGED <<started, alive, loggerOnly>>

Control ==
    \/ AddSink \/ Start \/ Stop \/ Destroy \/ StopReturns \/ Drain \/ ResetDropCount

Next ==
    \/ \E l \in Loggers : Logging(l)
    \/ \E v \in Levels : SetLevel(v)
    \/ Control
    \/ BackendSteps

Spec == Init /\ [][Next]_vars

-----------------------------------------------------------------------------
(***************************************************************************)
(* Properties.                                                             *)
(***************************************************************************)
\* The type invariant.
TypeOK ==
    /\ Backend!TypeOK
    /\ level \in Levels
    /\ sequence \in Nat
    /\ drop_count \in Nat
    /\ started \in BOOLEAN
    /\ alive \in BOOLEAN
    /\ pc \in [Loggers -> {"idle", "level", "fetch", "push", "publish", "count"}]
    /\ once \in BOOLEAN
    /\ count \in Nat
    /\ gates \in [Loggers -> 0..MaxGates]
    /\ ids \in [Loggers -> Seq(Nat)]
    /\ passed \in [Gated -> Nat]
    /\ forgotten \in Nat

\* started_ and running_ agree whenever the application is outside Start and
\* Stop, so neither early return can leave the worker running or skip the
\* drain of a backend that was started.
StartedIsRunning == where["app"] \in {"idle", "manual"} => started = running

\* Destroying the logger loses nothing, whether it was started or drained by
\* hand: no entry is left in the ring, and each sink has had every entry
\* popped since it was added, flushed.
DestroyDrains ==
    ~alive /\ where["app"] = "idle" =>
        /\ cells = << >>
        /\ \A s \in 1..sinks :
              /\ written[s] = SubSeq(popped, added[s] + 1, Len(popped))
              /\ flushed[s] = Len(written[s])

InFlight == {l \in Loggers : pc[l] \in {"push", "count"}}

\* Every sequence id is in exactly one place: popped for the sinks, waiting
\* in the ring, counted as dropped (or erased by ResetDropCount), or still in
\* the hands of the thread that took it.  So a gap in the ids a sink shows is
\* an entry that drop_count_ counted.
IdsAccounted ==
    sequence = Len(popped) + Len(cells) + drop_count + forgotten
               + Cardinality(InFlight)

IdOf(e) == ids[e[1]][e[2]]

\* In every sink, one thread's entries appear with increasing ids, and no id
\* appears twice.  (Ids of different threads may be out of order: the id is
\* taken before the cell is claimed.)
PerThreadOrder ==
    \A s \in 1..sinks : \A i, j \in DOMAIN written[s] :
        LET a == written[s][i]
            b == written[s][j]
        IN  i < j => /\ IdOf(a) # IdOf(b)
                     /\ a[1] = b[1] => IdOf(a) < IdOf(b)

\* However many threads race through them, the LOG_ONCE site lets one
\* execution pass and the LOG_EVERY_N site the first of every n.
SitesLimit ==
    /\ passed["once"] <= 1
    /\ passed["every_n"] = (count + EveryN - 1) \div EveryN
=============================================================================
