--------------------------- MODULE Logger_proofs ---------------------------
(***************************************************************************)
(* Proofs about Logger, for any set of threads, any sizes and any number   *)
(* of calls.  Every step of Logger is a step of LoggerBackend or leaves    *)
(* the backend alone, so what LoggerBackend_proofs shows of the backend    *)
(* holds here, under the name B.                                           *)
(***************************************************************************)
EXTENDS Logger, FiniteSetTheorems, SequenceTheorems, TLAPS

B == INSTANCE LoggerBackend_proofs

-----------------------------------------------------------------------------
(***************************************************************************)
(* What \div does to a count.                                              *)
(***************************************************************************)
\* A product with a factor of at least 1 is no smaller than the other factor.
LEMMA MulBound ==
  ASSUME NEW c \in Nat, NEW d \in Int, d >= 1
  PROVE  c * d >= c
OBVIOUS

\* What \div and % are, for natural numbers.
LEMMA DivDef ==
  ASSUME NEW c \in Nat \ {0}, NEW a \in Nat
  PROVE  /\ a \div c \in Nat /\ a % c \in 0..(c-1) /\ a = c * (a \div c) + (a % c)
OBVIOUS

\* Quotient and remainder are determined by these facts.
LEMMA ModUnique ==
  ASSUME NEW c \in Nat \ {0}, NEW a \in Nat, NEW q \in Int, NEW r \in 0..(c - 1),
         a = c * q + r
  PROVE  a % c = r /\ a \div c = q
<1> DEFINE p == a \div c
           s == a % c
<1>1. p \in Nat /\ s \in 0..(c-1) /\ a = c * p + s
  BY DivDef
<1> HIDE DEF p, s
<1>2. c * (q - p) = s - r /\ c * (p - q) = r - s
  BY <1>1
<1>3. ~(q - p >= 1)
  BY <1>1, <1>2, MulBound
<1>4. ~(p - q >= 1)
  BY <1>1, <1>2, MulBound
<1>5. p = q
  BY <1>1, <1>3, <1>4
<1>6. s = r
  BY <1>1, <1>5
<1> QED BY <1>5, <1>6 DEF p, s

\* How many of the first a + 1 numbers are multiples of c, from how many of the
\* first a are.
LEMMA CeilStep ==
  ASSUME NEW c \in Nat \ {0}, NEW a \in Nat
  PROVE  (a + c) \div c = ((a + c - 1) \div c) + (IF a % c = 0 THEN 1 ELSE 0)
<1> DEFINE q == a \div c
           r == a % c
<1>1. q \in Nat /\ r \in 0..(c - 1) /\ a = c * q + r
  BY DivDef
<1> HIDE DEF q, r
<1> DEFINE x == a + c
           y == a + c - 1
           q1 == q + 1
<1>2. x \in Nat /\ y \in Nat /\ q1 \in Int /\ q1 = q + 1 /\ c * q1 = c * q + c
  BY <1>1
<1>3. x \div c = q1
  <2>1. x = c * q1 + r
    BY <1>1, <1>2
  <2> HIDE DEF x, q1
  <2> QED BY <1>1, <1>2, <2>1, ModUnique
<1>4. CASE r = 0
  <2> DEFINE s == c - 1
  <2>1. y = c * q + s /\ s \in 0..(c - 1) /\ q \in Int
    BY <1>1, <1>4
  <2>2. y \div c = q
    <3> HIDE DEF y, s
    <3> QED BY <1>2, <2>1, ModUnique
  <2> QED BY <1>1, <1>2, <1>3, <1>4, <2>2 DEF r
<1>5. CASE r # 0
  <2> DEFINE s == r - 1
  <2>1. y = c * q1 + s /\ s \in 0..(c - 1)
    BY <1>1, <1>2, <1>5
  <2>2. y \div c = q1
    <3> HIDE DEF y, s, q1
    <3> QED BY <1>2, <2>1, ModUnique
  <2> QED BY <1>1, <1>2, <1>3, <1>5, <2>2 DEF r
<1> QED BY <1>4, <1>5

-----------------------------------------------------------------------------
(***************************************************************************)
(* Logger implements LoggerBackend.                                        *)
(***************************************************************************)
\* The backend's theorems take their assumptions from here.
LEMMA BackendHolds ==
    /\ B!IsFiniteSet(Loggers)
    /\ Bound \in Nat \ {0} /\ BatchSize \in Nat \ {0}
    /\ Builds \subseteq BOOLEAN /\ Wraps \in BOOLEAN
    /\ MaxPushes \in Nat /\ MaxStarts \in Nat /\ MaxSinks \in Nat
    /\ NoEntry \notin Loggers \X (1..MaxPushes)
<1>1. IsFiniteSet(Loggers) <=> B!IsFiniteSet(Loggers)
  BY Zenon DEF IsFiniteSet, B!IsFiniteSet
<1> QED BY <1>1, BackendAssumption

\* The two copies of the backend take the same steps of TryPush.
LEMMA SamePush ==
  ASSUME NEW l \in Loggers
  PROVE  /\ Backend!PushClaim(l) <=> B!PushClaim(l)
         /\ Backend!PushPublish(l) <=> B!PushPublish(l)
         /\ Backend!PushFull(l) <=> B!PushFull(l)
BY DEF Backend!PushClaim, Backend!PushPublish, Backend!PushFull, Backend!Begin,
       Backend!EntryOf, Backend!Ring!Claim, Backend!Ring!Publish,
       Backend!ringVars, Backend!sinkVars, Backend!drainVars,
       B!PushClaim, B!PushPublish, B!PushFull, B!Begin,
       B!EntryOf, B!Ring!Claim, B!Ring!Publish,
       B!ringVars, B!sinkVars, B!drainVars

\* The same steps of Drain and Dispatch.
LEMMA SameDrain ==
  ASSUME NEW d
  PROVE  /\ Backend!DrainPop(d) <=> B!DrainPop(d)
         /\ Backend!DispatchWrite(d) <=> B!DispatchWrite(d)
         /\ Backend!DispatchReturn(d) <=> B!DispatchReturn(d)
         /\ Backend!DrainEnds(d) <=> B!DrainEnds(d)
BY DEF Backend!DrainPop, Backend!DispatchWrite, Backend!DispatchReturn,
       Backend!DrainEnds, Backend!InDrain, Backend!Ring!Pop, Backend!Ring!HeadReady,
       Backend!ringVars, Backend!loggerVars, Backend!sinkVars,
       B!DrainPop, B!DispatchWrite, B!DispatchReturn,
       B!DrainEnds, B!InDrain, B!Ring!Pop, B!Ring!HeadReady,
       B!ringVars, B!loggerVars, B!sinkVars

\* The same steps of the worker.
LEMMA SameWorker == Backend!Worker <=> B!Worker
<1>1. Backend!WorkerCheck <=> B!WorkerCheck
  BY DEF Backend!WorkerCheck, Backend!Goto, Backend!CallDrain, Backend!DrainCall,
         Backend!ringVars, Backend!loggerVars, Backend!sinkVars,
         B!WorkerCheck, B!Goto, B!CallDrain, B!DrainCall,
         B!ringVars, B!loggerVars, B!sinkVars
<1>2. Backend!WorkerPolled <=> B!WorkerPolled
  BY SameDrain DEF Backend!WorkerPolled, Backend!Goto,
         Backend!ringVars, Backend!loggerVars, Backend!sinkVars,
         B!WorkerPolled, B!Goto, B!ringVars, B!loggerVars, B!sinkVars
<1>3. Backend!WorkerFinal <=> B!WorkerFinal
  BY SameDrain DEF Backend!WorkerFinal, Backend!DrainAgain, Backend!Goto,
         Backend!CallDrain, Backend!DrainCall,
         Backend!ringVars, Backend!loggerVars, Backend!sinkVars,
         B!WorkerFinal, B!DrainAgain, B!Goto, B!CallDrain, B!DrainCall,
         B!ringVars, B!loggerVars, B!sinkVars
<1> QED BY <1>1, <1>2, <1>3, SameDrain DEF Backend!Worker, B!Worker

\* The same steps of the application thread.
LEMMA SameApp ==
    /\ Backend!AddSink <=> B!AddSink
    /\ Backend!Start <=> B!Start
    /\ Backend!Stop <=> B!Stop
    /\ Backend!Join <=> B!Join
    /\ Backend!StopDrain <=> B!StopDrain
    /\ Backend!FlushSinks <=> B!FlushSinks
    /\ Backend!Drain <=> B!Drain
    /\ Backend!DrainReturn <=> B!DrainReturn
<1> USE DEF Backend!ringVars, Backend!loggerVars, Backend!sinkVars, Backend!drainVars,
            B!ringVars, B!loggerVars, B!sinkVars, B!drainVars
<1>1. Backend!AddSink <=> B!AddSink
  BY DEF Backend!AddSink, B!AddSink
<1>2. Backend!Start <=> B!Start
  BY DEF Backend!Start, B!Start, Backend!Goto, B!Goto
<1>3. Backend!Stop <=> B!Stop
  BY DEF Backend!Stop, Backend!Goto, Backend!joinable, Backend!DrainCall,
         Backend!Published, Backend!Clear, Backend!InHand, Backend!Drainers,
         B!Stop, B!Goto, B!joinable, B!DrainCall,
         B!Published, B!Clear, B!InHand, B!Drainers
<1>4. Backend!Join <=> B!Join
  BY DEF Backend!Join, Backend!CallDrain, Backend!DrainCall,
         B!Join, B!CallDrain, B!DrainCall
<1>5. Backend!StopDrain <=> B!StopDrain
  BY SameDrain DEF Backend!StopDrain, Backend!DrainAgain, Backend!Goto,
         Backend!CallDrain, Backend!DrainCall,
         B!StopDrain, B!DrainAgain, B!Goto, B!CallDrain, B!DrainCall
<1>6. Backend!FlushSinks <=> B!FlushSinks
  BY DEF Backend!FlushSinks, Backend!Goto, Backend!Sinks,
         B!FlushSinks, B!Goto, B!Sinks
<1>7. Backend!Drain <=> B!Drain
  BY DEF Backend!Drain, Backend!joinable, Backend!Goto, Backend!CallDrain,
         Backend!DrainCall, B!Drain, B!joinable, B!Goto, B!CallDrain, B!DrainCall
<1>8. Backend!DrainReturn <=> B!DrainReturn
  BY SameDrain DEF Backend!DrainReturn, Backend!Goto, B!DrainReturn, B!Goto
<1> QED BY <1>1, <1>2, <1>3, <1>4, <1>5, <1>6, <1>7, <1>8

\* Logger starts as the backend does.
LEMMA InitBackend == Init => B!Init
BY DEF Init, Backend!Init, Backend!Ring!QueueInit, Backend!Drainers, Backend!DrainCall,
       Backend!Sinks, B!Init, B!Ring!QueueInit, B!Drainers, B!DrainCall, B!Sinks

\* The steps of the threads that log, seen by the backend.
LEMMA LoggingBackend ==
  ASSUME NEW l \in Loggers
  PROVE  /\ (\E s \in Sites : Execute(l, s)) \/ (\E v \in Levels : CheckLevel(l, v))
            \/ FetchSequence(l) \/ CountDrop(l) => UNCHANGED backendVars
         /\ Push(l) => B!PushClaim(l)
         /\ Publish(l) => B!PushPublish(l)
         /\ Refused(l) => B!PushFull(l)
BY SamePush
   DEF Execute, CheckLevel, FetchSequence, CountDrop, Push, Publish, Refused

\* The steps of the application and of the drains, seen by the backend.
LEMMA ControlBackend ==
    /\ AddSink => B!AddSink
    /\ Start => B!Start
    /\ Stop \/ Destroy => B!Stop
    /\ StopReturns => B!FlushSinks
    /\ Drain => B!Drain
    /\ ResetDropCount \/ (\E v \in Levels : SetLevel(v)) => UNCHANGED backendVars
    /\ BackendSteps => \/ B!Worker \/ B!Join \/ B!StopDrain \/ B!DrainReturn
                       \/ B!DrainPop("app") \/ B!DispatchWrite("app")
                       \/ B!DispatchReturn("app")
BY SameApp, SameWorker, SameDrain
   DEF AddSink, Start, Stop, Destroy, StopReturns, Drain, ResetDropCount, SetLevel,
       BackendSteps

\* Every step of Logger is a step of the backend or leaves it alone.
LEMMA NextBackend == [Next]_vars => [B!Next]_(B!vars)
<1> SUFFICES ASSUME [Next]_vars PROVE B!Next \/ UNCHANGED B!vars
  OBVIOUS
<1>1. UNCHANGED backendVars => UNCHANGED B!vars
  BY DEF backendVars, B!vars, B!ringVars, B!loggerVars, B!sinkVars, B!drainVars
<1>2. ASSUME NEW l \in Loggers, Logging(l) PROVE B!Next \/ UNCHANGED B!vars
  BY <1>1, <1>2, LoggingBackend DEF Logging, B!Next, B!Logging
<1>3. CASE Control \/ BackendSteps \/ \E v \in Levels : SetLevel(v)
  BY <1>1, <1>3, ControlBackend DEF Control, B!Next, B!App, B!StopSteps
<1>4. CASE UNCHANGED vars
  BY <1>1, <1>4 DEF vars
<1> QED BY <1>2, <1>3, <1>4 DEF Next

\* Logger, with its macros, its early returns and its destructor, uses the
\* backend only as LoggerBackend describes: it implements LoggerBackend.
THEOREM ImplementsBackend == Spec => B!Spec
BY InitBackend, NextBackend, PTL DEF Spec, B!Spec

\* So the backend's invariant holds in Logger.
LEMMA BackendInvHolds == Spec => []B!BackendInv
<1>1. B!Spec => []B!BackendInv
  BY BackendHolds, B!BackendInvariant
<1> QED BY <1>1, ImplementsBackend, PTL

-----------------------------------------------------------------------------
(***************************************************************************)
(* started_ and running_.                                                  *)
(***************************************************************************)
\* During Stop running_ is already reset while started_ may still be set.
StartInv ==
    /\ StartedIsRunning
    /\ where["app"] \notin {"idle", "manual"} => ~running

\* What the steps of the drains do to running_ and to the application's phase.
LEMMA BackendStepsPhase ==
  ASSUME B!TypeInv, BackendSteps
  PROVE  /\ UNCHANGED <<running, started, alive>>
         /\ \/ where'["app"] = where["app"]
            \/ where["app"] = "joining" /\ where'["app"] = "stopping"
            \/ where["app"] = "stopping" /\ where'["app"] = "flushing"
            \/ where["app"] = "manual" /\ where'["app"] = "idle"
<1> USE DEF B!sinkVars
<1>0. DOMAIN where = {"worker", "app"}
  BY DEF B!TypeInv, B!TypeOK, B!Drainers
<1>1. UNCHANGED <<started, alive>>
  BY DEF BackendSteps
<1>2. CASE B!Worker
  <2>1. UNCHANGED running /\ where'["app"] = where["app"]
    BY <1>0, <1>2 DEF B!Worker, B!WorkerCheck, B!WorkerPolled, B!WorkerFinal,
       B!DrainAgain, B!Goto, B!DrainPop, B!DispatchWrite, B!DispatchReturn
  <2> QED BY <1>1, <2>1
<1>3. CASE B!Join
  BY <1>1, <1>3 DEF B!Join
<1>4. CASE B!StopDrain
  BY <1>0, <1>1, <1>4 DEF B!StopDrain, B!DrainAgain, B!Goto
<1>5. CASE B!DrainReturn
  BY <1>0, <1>1, <1>5 DEF B!DrainReturn, B!Goto
<1>6. CASE B!DrainPop("app") \/ B!DispatchWrite("app") \/ B!DispatchReturn("app")
  BY <1>1, <1>6 DEF B!DrainPop, B!DispatchWrite, B!DispatchReturn
<1> QED BY <1>2, <1>3, <1>4, <1>5, <1>6, ControlBackend

\* The threads that log, SetLevel and ResetDropCount leave both alone.
LEMMA LoggingPhase ==
  ASSUME NEW l \in Loggers, Logging(l)
  PROVE  UNCHANGED <<started, alive, running, where, popped, sinks, written, flushed,
                     added, batch>>
<1>1. UNCHANGED <<started, alive>>
  BY DEF Logging, Execute, CheckLevel, FetchSequence, CountDrop, Push, Publish, Refused
<1>2. CASE UNCHANGED backendVars
  BY <1>1, <1>2 DEF backendVars
<1>3. CASE B!PushClaim(l) \/ B!PushPublish(l) \/ B!PushFull(l)
  BY <1>1, <1>3, BackendHolds, B!LoggingFrame
<1> QED BY <1>2, <1>3, LoggingBackend DEF Logging

\* Starting and stopping keep the two flags in step.
LEMMA NextStart == B!TypeInv /\ StartInv /\ [Next]_vars => StartInv'
<1> SUFFICES ASSUME B!TypeInv, StartInv, [Next]_vars PROVE StartInv'
  OBVIOUS
<1>0. DOMAIN where = {"worker", "app"}
  BY DEF B!TypeInv, B!TypeOK, B!Drainers
<1> USE DEF StartInv, StartedIsRunning
<1>1. ASSUME NEW l \in Loggers, Logging(l) PROVE StartInv'
  BY <1>1, LoggingPhase
<1>2. CASE UNCHANGED <<where, running, started>>
  BY <1>2
<1>3. CASE BackendSteps
  BY <1>3, BackendStepsPhase
<1>4. CASE AddSink
  BY <1>4, ControlBackend DEF AddSink, B!AddSink, B!drainVars
<1>5. CASE Start
  <2>1. B!Start /\ started' = TRUE
    BY <1>5, ControlBackend DEF Start
  <2>2. where'["app"] = "idle" /\ running' = TRUE
    BY <1>0, <2>1 DEF B!Start, B!Goto
  <2> QED BY <2>1, <2>2
<1>6. CASE Stop \/ Destroy
  BY <1>0, <1>6, ControlBackend DEF Stop, Destroy, B!Stop, B!Goto
<1>7. CASE StopReturns
  <2>1. B!FlushSinks /\ started' = FALSE
    BY <1>7, ControlBackend DEF StopReturns
  <2>2. running \in BOOLEAN /\ where["app"] = "flushing"
    BY <2>1 DEF B!FlushSinks, B!TypeInv, B!TypeOK
  <2>3. running = FALSE
    BY <2>2
  <2>4. running' = FALSE /\ where'["app"] = "idle"
    BY <1>0, <2>1, <2>3 DEF B!FlushSinks, B!Goto
  <2> QED BY <2>1, <2>4
<1>8. CASE Drain
  BY <1>0, <1>8, ControlBackend DEF Drain, B!Drain, B!Goto
<1>9. CASE ResetDropCount \/ (\E v \in Levels : SetLevel(v)) \/ UNCHANGED vars
  BY <1>2, <1>9 DEF ResetDropCount, SetLevel, vars, backendVars
<1> QED
  BY <1>1, <1>3, <1>4, <1>5, <1>6, <1>7, <1>8, <1>9 DEF Next, Control

\* Whenever the application is outside Start and Stop, started_ of Logger is
\* running_ of the backend: no early return skips work that is due.
THEOREM StartedIsRunningCorrect == Spec => []StartedIsRunning
<1>1. Init => StartInv
  BY DEF Init, Backend!Init, StartInv, StartedIsRunning
<1>2. B!BackendInv => B!TypeInv
  BY DEF B!BackendInv
<1>3. StartInv => StartedIsRunning
  BY DEF StartInv
<1> QED BY <1>1, <1>2, <1>3, BackendInvHolds, NextStart, PTL DEF Spec

-----------------------------------------------------------------------------
(***************************************************************************)
(* The gates of LOG_ONCE and LOG_EVERY_N.                                  *)
(***************************************************************************)
\* The flag of LOG_ONCE is set as soon as an execution has passed.
SiteInv ==
    /\ once \in BOOLEAN /\ count \in Nat /\ passed \in [Gated -> Nat]
    /\ ~once => passed["once"] = 0
    /\ SitesLimit

\* One execution of a gated macro: the atomic operation of its gate decides
\* and advances in one step.
LEMMA ExecuteSites ==
  ASSUME SiteInv, NEW l \in Loggers, NEW s \in Sites, Execute(l, s)
  PROVE  SiteInv'
<1>1. s \in {"plain", "once", "every_n"}
  BY SitesAssumption
<1>2. /\ once' = (once \/ s = "once")
      /\ count' = IF s = "every_n" THEN count + 1 ELSE count
      /\ passed' = [g \in Gated |-> IF g = s /\ Opens(s) THEN passed[g] + 1
                                    ELSE passed[g]]
  BY DEF Execute
<1>3. once' \in BOOLEAN /\ count' \in Nat
  BY <1>2 DEF SiteInv
<1>4. passed' \in [Gated -> Nat]
  BY <1>2 DEF SiteInv
<1>5. CASE s = "plain"
  <2>1. passed' = passed /\ count' = count
    BY <1>2, <1>5 DEF Gated, SiteInv
  <2>2. once' => once
    BY <1>2, <1>5
  <2>3. once => once'
    BY <1>2
  <2> QED BY <1>3, <1>4, <2>1, <2>2, <2>3 DEF SiteInv, SitesLimit
<1>6. CASE s = "once"
  <2>1. count' = count /\ once' /\ passed'["every_n"] = passed["every_n"]
    BY <1>2, <1>6 DEF Gated
  <2>2. passed'["once"] = IF ~once THEN passed["once"] + 1 ELSE passed["once"]
    BY <1>2, <1>6 DEF Gated, Opens, OnceOpens
  <2>3. passed'["once"] <= 1
    BY <2>2 DEF SiteInv, SitesLimit
  <2> QED BY <1>3, <1>4, <2>1, <2>3 DEF SiteInv, SitesLimit
<1>7. CASE s = "every_n"
  <2>1. count' = count + 1 /\ passed'["once"] = passed["once"]
    BY <1>2, <1>7 DEF Gated
  <2>2. passed'["every_n"] = IF count % EveryN = 0 THEN passed["every_n"] + 1
                             ELSE passed["every_n"]
    BY <1>2, <1>7 DEF Gated, Opens, EveryNOpens
  <2>3. passed["every_n"] \in Nat /\ count \in Nat
    BY DEF SiteInv, Gated
  <2>4. (count + EveryN) \div EveryN
           = ((count + EveryN - 1) \div EveryN) + (IF count % EveryN = 0 THEN 1 ELSE 0)
    BY <2>3, EveryNAssumption, CeilStep
  <2>5. count' + EveryN - 1 = count + EveryN
    BY <2>1, <2>3, EveryNAssumption
  <2>6. passed'["every_n"] = (count' + EveryN - 1) \div EveryN
    BY <2>2, <2>3, <2>4, <2>5 DEF SiteInv, SitesLimit
  <2>7. once' => once
    BY <1>2, <1>7
  <2>8. once => once'
    BY <1>2
  <2> QED BY <1>3, <1>4, <2>1, <2>6, <2>7, <2>8 DEF SiteInv, SitesLimit
<1> QED BY <1>1, <1>5, <1>6, <1>7

\* No other step touches a gate.
LEMMA SitesFrame ==
  ASSUME [Next]_vars, ~(\E l \in Loggers : \E s \in Sites : Execute(l, s))
  PROVE  UNCHANGED siteVars
BY DEF Next, Logging, CheckLevel, FetchSequence, Push, Publish, Refused, CountDrop,
       SetLevel, Control, AddSink, Start, Stop, Destroy, StopReturns, Drain,
       ResetDropCount, BackendSteps, loggerOnly, vars

\* However many threads race through it, a LOG_ONCE site logs at most once and
\* a LOG_EVERY_N site on its first execution and every n-th after it.
THEOREM SitesLimitCorrect == Spec => []SitesLimit
<1>1. Init => SiteInv
  <2> SUFFICES ASSUME Init PROVE SiteInv
    OBVIOUS
  <2>1. once = FALSE /\ count = 0 /\ passed = [s \in Gated |-> 0]
    BY DEF Init
  <2>2. passed["once"] = 0 /\ passed["every_n"] = 0
    BY <2>1 DEF Gated
  <2>3. (EveryN - 1) \div EveryN = 0
    <3> DEFINE a == EveryN - 1
               q == 0
    <3>1. a \in Nat /\ a = EveryN * q + a /\ a \in 0..(EveryN - 1) /\ q \in Int
      BY EveryNAssumption
    <3>2. a \div EveryN = q
      <4> HIDE DEF a, q
      <4> QED BY <3>1, EveryNAssumption, ModUnique
    <3> QED BY <3>2
  <2>4. count + EveryN - 1 = EveryN - 1
    BY <2>1, EveryNAssumption
  <2>5. once \in BOOLEAN /\ count \in Nat /\ passed \in [Gated -> Nat]
    BY <2>1
  <2>6. passed["every_n"] = (count + EveryN - 1) \div EveryN
    BY <2>2, <2>3, <2>4
  <2> QED BY <2>2, <2>5, <2>6 DEF SiteInv, SitesLimit
<1>2. SiteInv /\ [Next]_vars => SiteInv'
  <2>1. SiteInv /\ UNCHANGED siteVars => SiteInv'
    BY DEF SiteInv, SitesLimit, siteVars
  <2> QED BY <2>1, ExecuteSites, SitesFrame
<1>3. SiteInv => SitesLimit
  BY DEF SiteInv
<1> QED BY <1>1, <1>2, <1>3, PTL DEF Spec

-----------------------------------------------------------------------------
(***************************************************************************)
(* The order of the entries: first those popped, then those in the ring.   *)
(***************************************************************************)
Places == Len(popped) + Len(cells)
Place(i) == IF i <= Len(popped) THEN popped[i] ELSE cells[i - Len(popped)].item

Kept == Places' = Places /\ \A i \in 1..Places : Place(i)' = Place(i)

\* What the type invariant says of the ring and of what was popped.
LEMMA RingTyped ==
  ASSUME B!TypeInv
  PROVE  /\ cells \in Seq(B!Ring!Cells) /\ popped \in Seq(B!Entries)
         /\ Len(cells) \in Nat /\ Len(popped) \in Nat /\ Places \in Nat
         /\ \A k \in 1..Len(cells) : cells[k].item \in B!Entries
         /\ \A i \in 1..Places : Place(i) \in B!Entries
<1>1. cells \in Seq(B!Ring!Cells) /\ popped \in Seq(B!Entries)
  BY DEF B!TypeInv, B!TypeOK
<1>2. Len(cells) \in Nat /\ Len(popped) \in Nat /\ Places \in Nat
  BY <1>1 DEF Places
<1>3. \A k \in 1..Len(cells) : cells[k].item \in B!Entries
  <2>1. \A k \in 1..Len(cells) : cells[k] \in B!Ring!Cells
    BY <1>1
  <2> QED BY <2>1 DEF B!Ring!Cells
<1>4. ASSUME NEW i \in 1..Places PROVE Place(i) \in B!Entries
  <2>1. CASE i <= Len(popped)
    BY <1>1, <1>2, <2>1 DEF Place
  <2>2. CASE ~(i <= Len(popped))
    <3>1. i - Len(popped) \in 1..Len(cells)
      BY <1>2, <2>2 DEF Places
    <3> QED BY <1>3, <2>2, <3>1 DEF Place
  <2> QED BY <2>1, <2>2
<1> QED BY <1>1, <1>2, <1>3, <1>4

\* A push takes the next place.
LEMMA PushPlaces ==
  ASSUME B!TypeInv, NEW l \in Loggers, B!PushClaim(l)
  PROVE  /\ Places' = Places + 1
         /\ \A i \in 1..Places : Place(i)' = Place(i)
         /\ \A i \in Nat : i = Places + 1 => Place(i)' = <<l, pushes[l] + 1>>
<1> DEFINE c == [item |-> <<l, pushes[l] + 1>>, ready |-> FALSE]
           n == Len(popped)
           m == Len(cells)
<1>1. cells' = Append(cells, c) /\ popped' = popped
  BY DEF B!PushClaim, B!Ring!Claim
<1>2. n \in Nat /\ m \in Nat /\ cells \in Seq(B!Ring!Cells)
  BY RingTyped
<1>3. c.item = <<l, pushes[l] + 1>>
  OBVIOUS
<1> HIDE DEF c
<1>4. /\ Len(cells') = m + 1 /\ cells'[m + 1] = c
      /\ \A k \in 1..m : cells'[k] = cells[k]
  BY <1>1, <1>2
<1> HIDE DEF n, m
<1>5. Places = n + m /\ Places' = n + m + 1
  BY <1>1, <1>2, <1>4 DEF Places, n, m
<1>6. \A i \in Nat : /\ Place(i) = IF i <= n THEN popped[i] ELSE cells[i - n].item
                     /\ Place(i)' = IF i <= n THEN popped[i] ELSE cells'[i - n].item
  BY <1>1 DEF Place, n
<1>7. ASSUME NEW i \in 1..Places PROVE Place(i)' = Place(i)
  <2>1. i <= n \/ i - n \in 1..m
    BY <1>2, <1>5
  <2> QED BY <1>4, <1>6, <2>1
<1>8. ASSUME NEW i \in Nat, i = Places + 1 PROVE Place(i)' = <<l, pushes[l] + 1>>
  <2>1. ~(i <= n) /\ i - n = m + 1
    BY <1>2, <1>5, <1>8
  <2> QED BY <1>3, <1>4, <1>6, <2>1
<1> QED BY <1>5, <1>7, <1>8

\* Publishing changes no place.
LEMMA PublishPlaces ==
  ASSUME B!TypeInv, NEW l \in Loggers, B!PushPublish(l)
  PROVE  Kept
<1> DEFINE n == Len(popped)
           m == Len(cells)
<1>1. PICK k \in DOMAIN cells : B!Ring!Publish(k)
  BY DEF B!PushPublish
<1>2. n \in Nat /\ m \in Nat /\ cells \in Seq(B!Ring!Cells)
  BY RingTyped
<1>3. Len(cells') = m /\ \A j \in 1..m : cells'[j].item = cells[j].item
  BY <1>1, <1>2, BackendHolds, B!PublishTyped
<1>4. popped' = popped
  BY <1>1 DEF B!Ring!Publish
<1> HIDE DEF n, m
<1>5. Places = n + m /\ Places' = n + m
  BY <1>2, <1>3, <1>4 DEF Places, n, m
<1>6. \A i \in Nat : /\ Place(i) = IF i <= n THEN popped[i] ELSE cells[i - n].item
                     /\ Place(i)' = IF i <= n THEN popped[i] ELSE cells'[i - n].item
  BY <1>4 DEF Place, n
<1>7. ASSUME NEW i \in 1..Places PROVE Place(i)' = Place(i)
  <2>1. i <= n \/ i - n \in 1..m
    BY <1>2, <1>5
  <2> QED BY <1>3, <1>6, <2>1
<1> QED BY <1>5, <1>7 DEF Kept

\* Neither does a pop: the oldest cell becomes the last entry popped.
LEMMA PopPlaces ==
  ASSUME B!TypeInv, NEW d, B!DrainPop(d)
  PROVE  Kept
<1> DEFINE n == Len(popped)
           m == Len(cells)
<1>1. B!Ring!Pop
  BY DEF B!DrainPop
<1>2. n \in Nat /\ m \in Nat /\ cells \in Seq(B!Ring!Cells) /\ popped \in Seq(B!Entries)
  BY RingTyped
<1>3. /\ m >= 1 /\ Len(cells') = m - 1 /\ Len(popped') = n + 1
      /\ \A j \in 1..(m - 1) : cells'[j] = cells[j + 1]
      /\ popped' = Append(popped, Head(cells).item)
      /\ Head(cells) = cells[1]
  BY <1>1, <1>2, BackendHolds, B!PopTyped
<1>4. popped'[n + 1] = cells[1].item /\ \A i \in 1..n : popped'[i] = popped[i]
  BY <1>2, <1>3
<1> HIDE DEF n, m
<1>5. Places = n + m /\ Places' = n + m
  BY <1>2, <1>3 DEF Places, n, m
<1>6. \A i \in Nat :
         /\ Place(i) = IF i <= n THEN popped[i] ELSE cells[i - n].item
         /\ Place(i)' = IF i <= n + 1 THEN popped'[i] ELSE cells'[i - (n + 1)].item
  BY <1>3 DEF Place, n
<1>7. ASSUME NEW i \in 1..Places PROVE Place(i)' = Place(i)
  <2>1. CASE i <= n
    BY <1>2, <1>4, <1>6, <2>1
  <2>2. CASE i = n + 1
    <3>1. i - n = 1 /\ ~(i <= n)
      BY <1>2, <2>2
    <3> QED BY <1>4, <1>6, <2>2, <3>1
  <2>3. CASE i > n + 1
    <3>1. /\ i - (n + 1) \in 1..(m - 1) /\ (i - (n + 1)) + 1 = i - n
          /\ ~(i <= n) /\ ~(i <= n + 1)
      BY <1>2, <1>3, <1>5, <2>3
    <3> QED BY <1>3, <1>6, <3>1
  <2> QED BY <1>2, <2>1, <2>2, <2>3
<1> QED BY <1>5, <1>7 DEF Kept

\* Only a push takes a place, and no step gives one up.
LEMMA NextPlaces ==
  ASSUME B!TypeInv, [Next]_vars, \A l \in Loggers : ~Push(l)
  PROVE  Kept
<1>1. UNCHANGED <<cells, popped>> => Kept
  BY DEF Kept, Places, Place
<1>2. ASSUME NEW l \in Loggers, Logging(l) PROVE Kept
  <2>1. UNCHANGED backendVars \/ B!PushFull(l) => UNCHANGED <<cells, popped>>
    BY DEF backendVars, B!PushFull, B!ringVars
  <2> QED BY <1>1, <1>2, <2>1, LoggingBackend, PublishPlaces DEF Logging
<1>3. CASE BackendSteps
  <2>1. \/ UNCHANGED <<cells, popped>> \/ B!DrainPop("app") \/ B!DrainPop("worker")
    BY <1>3, ControlBackend
       DEF B!Worker, B!WorkerCheck, B!WorkerPolled, B!WorkerFinal, B!DrainAgain,
           B!DispatchWrite, B!DispatchReturn, B!Join, B!StopDrain, B!DrainReturn,
           B!ringVars
  <2> QED BY <1>1, <2>1, PopPlaces
<1>4. CASE Control \/ (\E v \in Levels : SetLevel(v)) \/ UNCHANGED vars
  <2>1. UNCHANGED <<cells, popped>>
    BY <1>4, ControlBackend
       DEF Control, B!AddSink, B!Start, B!Stop, B!FlushSinks, B!Drain, B!ringVars,
           backendVars, vars
  <2> QED BY <1>1, <2>1
<1> QED BY <1>2, <1>3, <1>4 DEF Next

-----------------------------------------------------------------------------
(***************************************************************************)
(* Every sequence id is accounted for.                                     *)
(***************************************************************************)
Labels == {"idle", "level", "fetch", "push", "publish", "count"}

CountInv ==
    /\ sequence \in Nat /\ drop_count \in Nat /\ forgotten \in Nat
    /\ pc \in [Loggers -> Labels]
    /\ IdsAccounted

\* The threads holding an id, when one thread moves on.
LEMMA InFlightMoves ==
  ASSUME pc \in [Loggers -> Labels], NEW l \in Loggers, NEW label \in Labels,
         Goto(l, label)
  PROVE  /\ pc' \in [Loggers -> Labels]
         /\ pc[l] \notin {"push", "count"} /\ label \in {"push", "count"} =>
               Cardinality(InFlight') = Cardinality(InFlight) + 1
         /\ pc[l] \in {"push", "count"} /\ label \notin {"push", "count"} =>
               Cardinality(InFlight') = Cardinality(InFlight) - 1
         /\ (pc[l] \in {"push", "count"}) = (label \in {"push", "count"}) =>
               InFlight' = InFlight
         /\ Cardinality(InFlight) \in Nat
<1>1. pc' = [pc EXCEPT ![l] = label]
  BY DEF Goto
<1>2. IsFiniteSet(InFlight)
  <2>1. IsFiniteSet(Loggers) /\ InFlight \subseteq Loggers
    BY BackendAssumption DEF InFlight
  <2> QED BY <2>1, FS_Subset
<1>3. CASE pc[l] \notin {"push", "count"} /\ label \in {"push", "count"}
  <2>1. InFlight' = InFlight \cup {l} /\ l \notin InFlight
    BY <1>1, <1>3 DEF InFlight
  <2>2. Cardinality(InFlight \cup {l}) = Cardinality(InFlight) + 1
    BY <1>2, <2>1, FS_AddElement
  <2> QED BY <1>1, <1>2, <1>3, <2>1, <2>2, FS_CardinalityType
<1>4. CASE pc[l] \in {"push", "count"} /\ label \notin {"push", "count"}
  <2>1. InFlight' = InFlight \ {l} /\ l \in InFlight
    BY <1>1, <1>4 DEF InFlight
  <2>2. Cardinality(InFlight \ {l}) = Cardinality(InFlight) - 1
    BY <1>2, <2>1, FS_RemoveElement
  <2> QED BY <1>1, <1>2, <1>4, <2>1, <2>2, FS_CardinalityType
<1>5. CASE (pc[l] \in {"push", "count"}) = (label \in {"push", "count"})
  <2>1. InFlight' = InFlight
    BY <1>1, <1>5 DEF InFlight
  <2> QED BY <1>1, <1>2, <1>5, <2>1, FS_CardinalityType
<1> QED BY <1>3, <1>4, <1>5

\* Each step of the macro passes an id on or keeps it.
LEMMA LoggingCounts ==
  ASSUME B!TypeInv, CountInv, NEW l \in Loggers, Logging(l)
  PROVE  CountInv'
<1> DEFINE n == Places
           f == Cardinality(InFlight)
<1>1. /\ sequence \in Nat /\ drop_count \in Nat /\ forgotten \in Nat /\ n \in Nat
      /\ pc \in [Loggers -> Labels] /\ f \in Nat
  <2>1. f \in Nat
    <3>1. IsFiniteSet(Loggers) /\ InFlight \subseteq Loggers
      BY BackendAssumption DEF InFlight
    <3> QED BY <3>1, FS_Subset, FS_CardinalityType
  <2> QED BY <2>1, RingTyped DEF CountInv
<1>2. sequence = n + drop_count + forgotten + f
  <2>1. Len(popped) \in Nat /\ Len(cells) \in Nat
    BY RingTyped
  <2> QED BY <2>1 DEF CountInv, IdsAccounted, Places
<1>3. ASSUME sequence' = Places' + drop_count' + forgotten' + Cardinality(InFlight'),
             sequence' \in Nat, drop_count' \in Nat, forgotten' \in Nat,
             pc' \in [Loggers -> Labels]
      PROVE  CountInv'
  BY <1>3 DEF CountInv, IdsAccounted, Places
<1>4. Kept => Places' = n
  BY DEF Kept
<1> HIDE DEF n, f
<1>5. CASE \E s \in Sites : Execute(l, s)
  <2>1. PICK s \in Sites : Execute(l, s)
    BY <1>5
  <2>2. PICK label \in {"level", "idle"} : Goto(l, label)
    BY <2>1 DEF Execute
  <2>3. pc[l] = "idle" /\ UNCHANGED <<sequence, drop_count, forgotten>>
    BY <2>1 DEF Execute
  <2>4. pc' \in [Loggers -> Labels] /\ InFlight' = InFlight
    BY <1>1, <2>2, <2>3, InFlightMoves DEF Labels
  <2>5. UNCHANGED backendVars
    BY <2>1 DEF Execute
  <2>6. Places' = n
    BY <2>5 DEF backendVars, Places, n
  <2> QED BY <1>1, <1>2, <1>3, <2>3, <2>4, <2>6 DEF f
<1>6. CASE \E v \in Levels : CheckLevel(l, v)
  <2>1. PICK v \in Levels : CheckLevel(l, v)
    BY <1>6
  <2>2. PICK label \in {"fetch", "idle"} : Goto(l, label)
    BY <2>1 DEF CheckLevel
  <2>3. pc[l] = "level" /\ UNCHANGED <<sequence, drop_count, forgotten>>
    BY <2>1 DEF CheckLevel
  <2>4. pc' \in [Loggers -> Labels] /\ InFlight' = InFlight
    BY <1>1, <2>2, <2>3, InFlightMoves DEF Labels
  <2>5. UNCHANGED backendVars
    BY <2>1 DEF CheckLevel
  <2>6. Places' = n
    BY <2>5 DEF backendVars, Places, n
  <2> QED BY <1>1, <1>2, <1>3, <2>3, <2>4, <2>6 DEF f
<1>7. CASE FetchSequence(l)
  <2>1. /\ pc[l] = "fetch" /\ Goto(l, "push") /\ sequence' = sequence + 1
        /\ UNCHANGED <<drop_count, forgotten>> /\ UNCHANGED backendVars
    BY <1>7 DEF FetchSequence
  <2>2. pc' \in [Loggers -> Labels] /\ Cardinality(InFlight') = f + 1
    BY <1>1, <2>1, InFlightMoves DEF Labels, f
  <2>3. Places' = n
    BY <2>1 DEF backendVars, Places, n
  <2> QED BY <1>1, <1>2, <1>3, <2>1, <2>2, <2>3
<1>8. CASE Push(l)
  <2>1. /\ pc[l] = "push" /\ Goto(l, "publish")
        /\ UNCHANGED <<sequence, drop_count, forgotten>>
    BY <1>8 DEF Push
  <2>2. pc' \in [Loggers -> Labels] /\ Cardinality(InFlight') = f - 1
    BY <1>1, <2>1, InFlightMoves DEF Labels, f
  <2>3. Places' = n + 1
    BY <1>8, LoggingBackend, PushPlaces DEF n
  <2> QED BY <1>1, <1>2, <1>3, <2>1, <2>2, <2>3
<1>9. CASE Publish(l)
  <2>1. /\ pc[l] = "publish" /\ Goto(l, "idle")
        /\ UNCHANGED <<sequence, drop_count, forgotten>>
    BY <1>9 DEF Publish
  <2>2. pc' \in [Loggers -> Labels] /\ InFlight' = InFlight
    BY <1>1, <2>1, InFlightMoves DEF Labels
  <2>3. Places' = n
    BY <1>4, <1>9, LoggingBackend, PublishPlaces
  <2> QED BY <1>1, <1>2, <1>3, <2>1, <2>2, <2>3 DEF f
<1>10. CASE Refused(l)
  <2>1. /\ pc[l] = "push" /\ Goto(l, "count")
        /\ UNCHANGED <<sequence, drop_count, forgotten>>
    BY <1>10 DEF Refused
  <2>2. pc' \in [Loggers -> Labels] /\ InFlight' = InFlight
    BY <1>1, <2>1, InFlightMoves DEF Labels
  <2>3. Places' = n
    BY <1>10, LoggingBackend DEF B!PushFull, B!ringVars, Places, n
  <2> QED BY <1>1, <1>2, <1>3, <2>1, <2>2, <2>3 DEF f
<1>11. CASE CountDrop(l)
  <2>1. /\ pc[l] = "count" /\ Goto(l, "idle") /\ drop_count' = drop_count + 1
        /\ UNCHANGED <<sequence, forgotten>> /\ UNCHANGED backendVars
    BY <1>11 DEF CountDrop
  <2>2. pc' \in [Loggers -> Labels] /\ Cardinality(InFlight') = f - 1
    BY <1>1, <2>1, InFlightMoves DEF Labels, f
  <2>3. Places' = n
    BY <2>1 DEF backendVars, Places, n
  <2> QED BY <1>1, <1>2, <1>3, <2>1, <2>2, <2>3
<1> QED BY <1>5, <1>6, <1>7, <1>8, <1>9, <1>10, <1>11 DEF Logging

\* Nothing else takes, moves or loses an id: ResetDropCount only forgets.
LEMMA NextCounts == B!TypeInv /\ CountInv /\ [Next]_vars => CountInv'
<1> SUFFICES ASSUME B!TypeInv, CountInv, [Next]_vars,
                    ~(\E l \in Loggers : Logging(l))
             PROVE  CountInv'
  BY LoggingCounts
<1>1. Places' = Places
  <2>1. \A l \in Loggers : ~Push(l)
    BY DEF Logging
  <2> QED BY <2>1, NextPlaces DEF Kept
<1>2. UNCHANGED <<pc, sequence>>
  BY DEF Next, SetLevel, Control, AddSink, Start, Stop, Destroy, StopReturns, Drain,
         ResetDropCount, BackendSteps, loggerOnly, macroVars, vars
<1>3. InFlight' = InFlight
  BY <1>2 DEF InFlight
<1>4. /\ drop_count' \in Nat /\ forgotten' \in Nat
      /\ drop_count' + forgotten' = drop_count + forgotten
  <2>1. CASE ResetDropCount
    BY <2>1 DEF ResetDropCount, CountInv
  <2>2. CASE ~ResetDropCount
    BY <2>2 DEF Next, SetLevel, Control, AddSink, Start, Stop, Destroy, StopReturns,
         Drain, BackendSteps, loggerOnly, vars, CountInv
  <2> QED BY <2>1, <2>2
<1> DEFINE f == Cardinality(InFlight)
           n == Places
           d == drop_count' + forgotten'
<1>5. f \in Nat /\ n \in Nat
  <2>1. IsFiniteSet(Loggers) /\ InFlight \subseteq Loggers
    BY BackendAssumption DEF InFlight
  <2> QED BY <2>1, FS_Subset, FS_CardinalityType, RingTyped
<1>6. sequence = n + d + f
  <2>1. Len(popped) \in Nat /\ Len(cells) \in Nat
    BY RingTyped
  <2>2. sequence = Places + drop_count + forgotten + f
    BY <2>1 DEF CountInv, IdsAccounted, Places
  <2>3. drop_count \in Nat /\ forgotten \in Nat
    BY DEF CountInv
  <2> HIDE DEF f, n, d
  <2>4. n \in Nat /\ f \in Nat /\ n = Places
    BY <1>5 DEF n
  <2>5. d = drop_count + forgotten
    BY <1>4 DEF d
  <2> QED BY <2>2, <2>3, <2>4, <2>5
<1>7. Cardinality(InFlight') = f /\ Places' = n
  BY <1>1, <1>3
<1> HIDE DEF f, n
<1>8. sequence' = n + drop_count' + forgotten' + f
  BY <1>2, <1>4, <1>5, <1>6
<1> QED BY <1>2, <1>4, <1>7, <1>8 DEF CountInv, IdsAccounted, Places

\* Initially no id has been taken.
LEMMA InitCounts == Init => CountInv
<1> SUFFICES ASSUME Init PROVE CountInv
  OBVIOUS
<1>1. InFlight = {}
  BY DEF Init, InFlight
<1>2. Cardinality(InFlight) = 0
  BY <1>1, FS_EmptySet
<1>3. Len(cells) = 0 /\ Len(popped) = 0
  BY DEF Init, Backend!Init, Backend!Ring!QueueInit
<1> QED BY <1>2, <1>3 DEF Init, CountInv, Labels, IdsAccounted

\* Every sequence id is in exactly one place: popped, in the ring, counted as
\* dropped, or in the hands of the thread that took it.
THEOREM IdsAccountedCorrect == Spec => []IdsAccounted
<1>1. B!BackendInv => B!TypeInv
  BY DEF B!BackendInv
<1>2. CountInv => IdsAccounted
  BY DEF CountInv
<1> QED BY <1>1, <1>2, InitCounts, BackendInvHolds, NextCounts, PTL DEF Spec

-----------------------------------------------------------------------------
(***************************************************************************)
(* The order of the ids in every sink.                                     *)
(***************************************************************************)
\* A thread has taken one id for each TryPush it has begun, and one more while
\* it is about to begin one.
IssueInv ==
    /\ ids \in [Loggers -> Seq(Nat)]
    /\ \A l \in Loggers :
          Len(ids[l]) = pushes[l] + (IF pc[l] = "push" THEN 1 ELSE 0)

\* Ids are handed out in increasing order and never twice.
IdsInv ==
    \A l \in Loggers : \A i \in 1..Len(ids[l]) :
       /\ ids[l][i] < sequence
       /\ \A j \in 1..Len(ids[l]) : i < j => ids[l][i] < ids[l][j]
       /\ \A m \in Loggers : \A j \in 1..Len(ids[m]) : m # l => ids[l][i] # ids[m][j]

\* Places are taken by each thread in the order of its pushes.
LineInv ==
    \A i \in 1..Places :
       /\ Place(i)[2] <= pushes[Place(i)[1]]
       /\ \A j \in 1..Places :
             i < j /\ Place(i)[1] = Place(j)[1] => Place(i)[2] < Place(j)[2]

OrderInv == IssueInv /\ IdsInv /\ LineInv

\* Steps that take no id and begin no TryPush.
LEMMA IssueFrame ==
  ASSUME IssueInv, IdsInv, UNCHANGED <<ids, sequence, pushes>>,
         \A l \in Loggers : (pc'[l] = "push") <=> (pc[l] = "push")
  PROVE  IssueInv' /\ IdsInv'
<1>1. IdsInv'
  BY DEF IdsInv
<1>2. IssueInv'
  BY DEF IssueInv
<1> QED BY <1>1, <1>2

\* fetch_add gives the thread an id larger than all before it.
LEMMA FetchIssue ==
  ASSUME B!TypeInv, CountInv, IssueInv, IdsInv, NEW l \in Loggers, FetchSequence(l)
  PROVE  IssueInv' /\ IdsInv'
<1> DEFINE n == Len(ids[l])
           u == Append(ids[l], sequence)
<1>1. /\ pc[l] = "fetch" /\ ids' = [ids EXCEPT ![l] = u]
      /\ sequence' = sequence + 1 /\ pc' = [pc EXCEPT ![l] = "push"]
      /\ pushes' = pushes
  BY DEF FetchSequence, Goto, backendVars
<1>2. /\ sequence \in Nat /\ pc \in [Loggers -> Labels]
      /\ ids \in [Loggers -> Seq(Nat)] /\ ids[l] \in Seq(Nat) /\ n \in Nat
      /\ pushes \in [Loggers -> Nat]
  <2>1. pushes \in [Loggers -> 0..MaxPushes]
    BY DEF B!TypeInv, B!TypeOK
  <2> QED BY <2>1, BackendAssumption DEF CountInv, IssueInv
<1>3. /\ u \in Seq(Nat) /\ Len(u) = n + 1 /\ u[n + 1] = sequence
      /\ \A i \in 1..n : u[i] = ids[l][i] /\ ids[l][i] \in Nat
  BY <1>2
<1> HIDE DEF u
<1>4. /\ ids' \in [Loggers -> Seq(Nat)] /\ ids'[l] = u
      /\ \A m \in Loggers : m # l => ids'[m] = ids[m] /\ pc'[m] = pc[m]
      /\ pc'[l] = "push"
  BY <1>1, <1>2, <1>3
<1>5. n = pushes[l]
  <2>1. n = pushes[l] + (IF pc[l] = "push" THEN 1 ELSE 0)
    BY DEF IssueInv
  <2>2. pushes[l] \in Nat
    BY <1>2
  <2> QED BY <1>1, <2>1, <2>2
<1> HIDE DEF n
<1>6. IssueInv'
  <2>1. Len(ids'[l]) = pushes'[l] + 1
    BY <1>1, <1>2, <1>3, <1>4, <1>5
  <2>2. ASSUME NEW m \in Loggers
        PROVE  Len(ids'[m]) = pushes'[m] + (IF pc'[m] = "push" THEN 1 ELSE 0)
    BY <1>1, <1>4, <2>1 DEF IssueInv
  <2> QED BY <1>4, <2>2 DEF IssueInv
<1>7. IdsInv'
  <2>1. \A m \in Loggers : \A i \in 1..Len(ids[m]) :
           ids[m][i] \in Nat /\ ids[m][i] < sequence
    BY <1>2 DEF IdsInv
  <2>2. ASSUME NEW m \in Loggers, NEW i \in 1..Len(ids'[m])
        PROVE  ids'[m][i] < sequence'
    <3>1. CASE m = l
      <4>1. ids'[m][i] = u[i] /\ i \in 1..(n + 1)
        BY <1>3, <1>4, <3>1
      <4>2. CASE i = n + 1
        BY <1>1, <1>2, <1>3, <4>1, <4>2
      <4>3. CASE i \in 1..n
        <5>1. ids[l][i] \in Nat /\ ids[l][i] < sequence
          BY <2>1, <4>3 DEF n
        <5>2. ids'[m][i] = ids[l][i]
          BY <1>3, <4>1, <4>3
        <5> QED BY <1>1, <1>2, <5>1, <5>2
      <4> QED BY <1>2, <4>1, <4>2, <4>3
    <3>2. CASE m # l
      BY <1>1, <1>2, <1>4, <2>1, <3>2
    <3> QED BY <3>1, <3>2
  <2>3. ASSUME NEW m \in Loggers, NEW i \in 1..Len(ids'[m]), NEW j \in 1..Len(ids'[m]),
               i < j
        PROVE  ids'[m][i] < ids'[m][j]
    <3>1. CASE m = l /\ j \in 1..n
      <4>1. i \in 1..n
        BY <1>2, <1>3, <1>4, <2>3, <3>1
      <4>2. ids[l][i] < ids[l][j]
        BY <2>3, <3>1, <4>1 DEF IdsInv, n
      <4> QED BY <1>3, <1>4, <3>1, <4>1, <4>2
    <3>2. CASE m = l /\ j = n + 1
      <4>1. i \in 1..n
        BY <1>2, <1>3, <1>4, <2>3, <3>2
      <4>2. ids[l][i] < sequence
        BY <2>1, <4>1 DEF n
      <4> QED BY <1>3, <1>4, <3>2, <4>1, <4>2
    <3>3. CASE m # l
      BY <1>4, <2>3, <3>3 DEF IdsInv
    <3>4. m = l => j \in 1..n \/ j = n + 1
      BY <1>2, <1>3, <1>4
    <3> QED BY <3>1, <3>2, <3>3, <3>4
  <2>4. ASSUME NEW m \in Loggers, m # l, NEW i \in 1..Len(u), NEW j \in 1..Len(ids[m])
        PROVE  u[i] # ids[m][j]
    <3>1. CASE i = n + 1
      BY <1>2, <1>3, <2>1, <3>1
    <3>2. CASE i \in 1..n
      <4>1. ids[l][i] # ids[m][j]
        BY <2>4, <3>2 DEF IdsInv, n
      <4> QED BY <1>3, <3>2, <4>1
    <3> QED BY <1>2, <1>3, <3>1, <3>2
  <2>5. ASSUME NEW k \in Loggers, NEW m \in Loggers, m # k,
               NEW i \in 1..Len(ids'[k]), NEW j \in 1..Len(ids'[m])
        PROVE  ids'[k][i] # ids'[m][j]
    <3>1. CASE k = l
      BY <1>4, <2>4, <2>5, <3>1
    <3>2. CASE m = l
      BY <1>4, <2>4, <2>5, <3>2
    <3>3. CASE k # l /\ m # l
      <4>1. ids'[k] = ids[k] /\ ids'[m] = ids[m]
        BY <1>4, <3>3
      <4>2. i \in 1..Len(ids[k]) /\ j \in 1..Len(ids[m])
        BY <4>1
      <4>3. ids[k][i] # ids[m][j]
        BY <2>5, <4>2 DEF IdsInv
      <4> QED BY <4>1, <4>3
    <3> QED BY <3>1, <3>2, <3>3
  <2> QED BY <2>2, <2>3, <2>5 DEF IdsInv
<1> QED BY <1>6, <1>7

\* TryPush begins: the id in hand is now counted by pushes.
LEMMA BeginIssue ==
  ASSUME B!TypeInv, CountInv, IssueInv, IdsInv, NEW l \in Loggers, Push(l) \/ Refused(l)
  PROVE  IssueInv' /\ IdsInv'
<1>1. /\ pc[l] = "push" /\ UNCHANGED <<ids, sequence>> /\ pc'[l] # "push"
      /\ \A m \in Loggers : m # l => pc'[m] = pc[m]
  BY DEF Push, Refused, Goto, CountInv
<1>2. pushes' = [pushes EXCEPT ![l] = @ + 1] /\ pushes \in [Loggers -> 0..MaxPushes]
  BY LoggingBackend DEF B!PushClaim, B!PushFull, B!Begin, B!TypeInv, B!TypeOK
<1>3. IdsInv'
  BY <1>1 DEF IdsInv
<1>4. ASSUME NEW m \in Loggers
      PROVE  Len(ids'[m]) = pushes'[m] + (IF pc'[m] = "push" THEN 1 ELSE 0)
  <2>1. CASE m = l
    <3>1. Len(ids[l]) = pushes[l] + 1 /\ pushes'[l] = pushes[l] + 1 /\ pushes[l] \in Nat
      BY <1>1, <1>2, BackendAssumption DEF IssueInv
    <3> QED BY <1>1, <2>1, <3>1
  <2>2. CASE m # l
    BY <1>1, <1>2, <2>2 DEF IssueInv
  <2> QED BY <2>1, <2>2
<1>5. IssueInv'
  BY <1>1, <1>4 DEF IssueInv
<1> QED BY <1>3, <1>5

\* Every other step leaves the ids and the pushes alone.
LEMMA NextIssue ==
  ASSUME B!TypeInv, CountInv, IssueInv, IdsInv, [Next]_vars
  PROVE  IssueInv' /\ IdsInv'
<1>1. ASSUME NEW l \in Loggers, Logging(l) PROVE IssueInv' /\ IdsInv'
  <2>1. CASE FetchSequence(l)
    BY <2>1, FetchIssue
  <2>2. CASE Push(l) \/ Refused(l)
    BY <2>2, BeginIssue
  <2>3. CASE (\E s \in Sites : Execute(l, s)) \/ (\E v \in Levels : CheckLevel(l, v))
             \/ Publish(l) \/ CountDrop(l)
    <3>1. UNCHANGED <<ids, sequence, pushes>>
      BY <2>3, LoggingBackend
         DEF Execute, CheckLevel, Publish, CountDrop, B!PushPublish, backendVars
    <3>2. \A m \in Loggers : (pc'[m] = "push") <=> (pc[m] = "push")
      BY <2>3 DEF Execute, CheckLevel, Publish, CountDrop, Goto, CountInv
    <3> QED BY <3>1, <3>2, IssueFrame
  <2> QED BY <1>1, <2>1, <2>2, <2>3 DEF Logging
<1>2. CASE BackendSteps
  <2>1. UNCHANGED <<ids, sequence, pc>>
    BY <1>2 DEF BackendSteps, loggerOnly, macroVars
  <2>2. UNCHANGED pushes
    BY <1>2, ControlBackend
       DEF B!Worker, B!WorkerCheck, B!WorkerPolled, B!WorkerFinal, B!DrainAgain,
           B!DrainPop, B!DispatchWrite, B!DispatchReturn, B!Join, B!StopDrain,
           B!DrainReturn, B!loggerVars
  <2> QED BY <2>1, <2>2, IssueFrame
<1>3. CASE Control \/ (\E v \in Levels : SetLevel(v)) \/ UNCHANGED vars
  <2>1. UNCHANGED <<ids, sequence, pc>>
    BY <1>3 DEF SetLevel, Control, AddSink, Start, Stop, Destroy, StopReturns, Drain,
         ResetDropCount, loggerOnly, macroVars, vars
  <2>2. UNCHANGED pushes
    BY <1>3, ControlBackend
       DEF Control, B!AddSink, B!Start, B!Stop, B!FlushSinks, B!Drain, B!loggerVars,
           backendVars, vars
  <2> QED BY <2>1, <2>2, IssueFrame
<1> QED BY <1>1, <1>2, <1>3 DEF Next

\* A push takes a place behind all of the thread's earlier ones.
LEMMA PushLine ==
  ASSUME B!TypeInv, LineInv, NEW l \in Loggers, B!PushClaim(l)
  PROVE  LineInv'
<1> DEFINE n == Places
           k == pushes[l] + 1
<1>1. n \in Nat /\ \A i \in 1..n : Place(i) \in B!Entries
  BY RingTyped
<1>2. /\ Places' = n + 1 /\ \A i \in 1..n : Place(i)' = Place(i)
      /\ \A i \in Nat : i = n + 1 => Place(i)' = <<l, k>>
  BY PushPlaces
<1>3. /\ pushes \in [Loggers -> 0..MaxPushes]
      /\ pushes' = [pushes EXCEPT ![l] = @ + 1]
  BY DEF B!PushClaim, B!Begin, B!TypeInv, B!TypeOK
<1>4. /\ pushes[l] \in Nat /\ k \in Nat /\ pushes'[l] = k
      /\ \A m \in Loggers : m # l => pushes'[m] = pushes[m]
      /\ \A m \in Loggers : pushes[m] \in Nat
  BY <1>3, BackendAssumption
<1>5. ASSUME NEW i \in 1..n
      PROVE  /\ Place(i)[1] \in Loggers /\ Place(i)[2] \in Nat
             /\ Place(i)[2] <= pushes[Place(i)[1]]
             /\ Place(i)[1] = l => Place(i)[2] < k
  <2>1. Place(i)[1] \in Loggers /\ Place(i)[2] \in Nat
    <3>1. Place(i) \in Loggers \X (1..MaxPushes)
      BY <1>1, BackendHolds DEF B!Entries
    <3> QED BY <3>1, BackendAssumption
  <2>2. Place(i)[2] <= pushes[Place(i)[1]]
    BY DEF LineInv
  <2>3. Place(i)[1] = l => Place(i)[2] < k
    BY <1>4, <2>1, <2>2
  <2> QED BY <2>1, <2>2, <2>3
<1>6. <<l, k>>[1] = l /\ <<l, k>>[2] = k
  OBVIOUS
<1> HIDE DEF n, k
<1>7. ASSUME NEW i \in 1..(n + 1)
      PROVE  (Place(i)[2] <= pushes[Place(i)[1]])'
  <2>1. CASE i \in 1..n
    <3>1. Place(i)[2] <= pushes'[Place(i)[1]]
      BY <1>4, <1>5, <2>1
    <3> QED BY <1>2, <2>1, <3>1
  <2>2. CASE i = n + 1
    <3>1. Place(i)' = <<l, k>>
      BY <1>1, <1>2, <2>2
    <3> QED BY <1>4, <1>6, <3>1
  <2> QED BY <1>1, <2>1, <2>2
<1>8. ASSUME NEW i \in 1..(n + 1), NEW j \in 1..(n + 1), i < j,
             (Place(i)[1] = Place(j)[1])'
      PROVE  (Place(i)[2] < Place(j)[2])'
  <2>1. i \in 1..n /\ Place(i)' = Place(i)
    BY <1>1, <1>2, <1>8
  <2>2. CASE j \in 1..n
    <3>1. Place(j)' = Place(j)
      BY <1>2, <2>2
    <3>2. Place(i)[2] < Place(j)[2]
      BY <1>8, <2>1, <2>2, <3>1 DEF LineInv, n
    <3> QED BY <2>1, <3>1, <3>2
  <2>3. CASE j = n + 1
    <3>1. Place(j)' = <<l, k>>
      BY <1>1, <1>2, <2>3
    <3> QED BY <1>5, <1>6, <1>8, <2>1, <3>1
  <2> QED BY <1>1, <2>2, <2>3
<1> QED BY <1>2, <1>7, <1>8 DEF LineInv

\* No other step changes a place or lowers a thread's count of pushes.
LEMMA NextLine ==
  ASSUME B!TypeInv, LineInv, [Next]_vars
  PROVE  LineInv'
<1>1. CASE \E l \in Loggers : Push(l)
  BY <1>1, LoggingBackend, PushLine
<1>2. CASE \A l \in Loggers : ~Push(l)
  <2>1. Places' = Places /\ \A i \in 1..Places : Place(i)' = Place(i)
    BY <1>2, NextPlaces DEF Kept
  <2>2. pushes \in [Loggers -> Nat]
    BY BackendAssumption DEF B!TypeInv, B!TypeOK
  <2>3. \A l \in Loggers : pushes'[l] >= pushes[l] /\ pushes'[l] \in Nat
    <3>1. CASE UNCHANGED pushes
      BY <2>2, <3>1
    <3>2. ASSUME NEW l \in Loggers, B!PushClaim(l) \/ B!PushFull(l)
          PROVE  \A m \in Loggers : pushes'[m] >= pushes[m] /\ pushes'[m] \in Nat
      <4>1. pushes' = [pushes EXCEPT ![l] = @ + 1]
        BY <3>2 DEF B!PushClaim, B!PushFull, B!Begin
      <4> QED BY <2>2, <4>1
    <3>3. \/ UNCHANGED pushes
          \/ \E l \in Loggers : B!PushClaim(l) \/ B!PushFull(l)
      BY NextBackend
         DEF B!Next, B!Logging, B!PushPublish, B!App, B!StopSteps, B!Worker,
             B!WorkerCheck, B!WorkerPolled, B!WorkerFinal, B!DrainAgain, B!DrainPop,
             B!DispatchWrite, B!DispatchReturn, B!Join, B!StopDrain, B!DrainReturn,
             B!AddSink, B!Start, B!Stop, B!FlushSinks, B!Drain, B!loggerVars, B!vars
    <3> QED BY <3>1, <3>2, <3>3
  <2>4. ASSUME NEW i \in 1..Places
        PROVE  (Place(i)[2] <= pushes[Place(i)[1]])'
    <3>1. Place(i)[1] \in Loggers /\ Place(i)[2] \in Nat
      <4>1. Place(i) \in Loggers \X (1..MaxPushes)
        BY RingTyped, BackendHolds DEF B!Entries
      <4> QED BY <4>1, BackendAssumption
    <3>2. Place(i)[2] <= pushes[Place(i)[1]]
      BY DEF LineInv
    <3>3. Place(i)[2] <= pushes'[Place(i)[1]]
      BY <2>2, <2>3, <3>1, <3>2
    <3> QED BY <2>1, <3>3
  <2>5. ASSUME NEW i \in 1..Places, NEW j \in 1..Places, i < j,
               (Place(i)[1] = Place(j)[1])'
        PROVE  (Place(i)[2] < Place(j)[2])'
    BY <2>1, <2>5 DEF LineInv
  <2> QED BY <2>1, <2>4, <2>5 DEF LineInv
<1> QED BY <1>1, <1>2

\* Initially there is no id and no entry.
LEMMA InitOrder == Init => OrderInv
<1> SUFFICES ASSUME Init PROVE OrderInv
  OBVIOUS
<1>1. /\ ids = [l \in Loggers |-> << >>] /\ pc = [l \in Loggers |-> "idle"]
      /\ pushes = [l \in Loggers |-> 0] /\ cells = << >> /\ popped = << >>
  BY DEF Init, Backend!Init, Backend!Ring!QueueInit
<1>2. Places = 0
  BY <1>1 DEF Places
<1>3. IssueInv
  BY <1>1 DEF IssueInv
<1>4. \A l \in Loggers : 1..Len(ids[l]) = {}
  BY <1>1
<1>5. IdsInv
  BY <1>4 DEF IdsInv
<1>6. LineInv
  BY <1>2 DEF LineInv
<1> QED BY <1>3, <1>5, <1>6 DEF OrderInv

\* The order is kept.
LEMMA NextOrder == B!TypeInv /\ CountInv /\ OrderInv /\ [Next]_vars => OrderInv'
BY NextIssue, NextLine DEF OrderInv

\* What a sink has received stands at places of the order, in order.
LEMMA WrittenPlaces ==
  ASSUME B!TypeInv, B!SinksInv, NEW s \in 1..sinks, NEW i \in DOMAIN written[s]
  PROVE  /\ added[s] \in Nat /\ i \in Nat /\ added[s] + i \in 1..Places
         /\ written[s][i] = Place(added[s] + i)
<1> DEFINE a == added[s]
           n == Len(popped)
           w == written[s]
           o == SubSeq(popped, a + 1, n)
<1>1. /\ popped \in Seq(B!Entries) /\ n \in Nat /\ Len(cells) \in Nat
  BY RingTyped
<1>2. s \in 1..MaxSinks /\ a \in Nat /\ w \in Seq(B!Entries) /\ a <= n
  <2>1. sinks \in 0..MaxSinks /\ added \in [1..MaxSinks -> Nat]
        /\ written \in [1..MaxSinks -> Seq(B!Entries)]
    BY DEF B!TypeInv, B!TypeOK, B!Sinks
  <2>2. s \in 1..MaxSinks
    BY <2>1, BackendAssumption
  <2>3. added[s] <= Len(popped)
    BY DEF B!SinksInv
  <2> QED BY <2>1, <2>2, <2>3
<1>3. w = o \/ \E e : e \in B!Entries /\ Append(w, e) = o
  <2>1. CASE \A d \in B!Drainers : ~B!Due(d, s)
    BY <2>1 DEF B!SinksInv, B!Owed
  <2>2. CASE \E d \in B!Drainers : B!Due(d, s)
    <3>1. PICK d \in B!Drainers : B!Due(d, s)
      BY <2>2
    <3>2. Append(written[s], batch[d].entry) = o
      BY <3>1 DEF B!SinksInv, B!Owed
    <3>3. batch[d].entry \in B!Entries
      BY <3>1 DEF B!Due, B!Holding, B!TypeInv, B!TypeOK
    <3> QED BY <3>2, <3>3
  <2> QED BY <2>1, <2>2
<1>4. /\ o \in Seq(B!Entries) /\ Len(o) = n - a
      /\ \A j \in 1..(n - a) : o[j] = popped[a + j]
  <2>1. \A j \in (a + 1)..n : popped[j] \in B!Entries
    BY <1>1, <1>2
  <2> HIDE DEF a, n
  <2>2. a + 1 \in Int /\ n \in Int
    BY <1>1, <1>2
  <2>3. /\ o \in Seq(B!Entries)
        /\ Len(o) = IF a + 1 <= n THEN n - (a + 1) + 1 ELSE 0
        /\ \A j \in 1..(n - (a + 1) + 1) : o[j] = popped[(a + 1) + j - 1]
    BY <2>1, <2>2, SubSeqProperties
  <2>4. Len(o) = n - a
    BY <1>1, <1>2, <2>3
  <2>5. ASSUME NEW j \in 1..(n - a) PROVE o[j] = popped[a + j]
    <3>1. j \in 1..(n - (a + 1) + 1) /\ (a + 1) + j - 1 = a + j
      BY <1>1, <1>2
    <3> QED BY <2>3, <3>1
  <2> QED BY <2>3, <2>4, <2>5
<1> HIDE DEF a, n, w, o
<1>5. i \in 1..Len(w)
  BY <1>2 DEF w
<1>6. i \in 1..(n - a) /\ w[i] = o[i]
  <2>1. CASE w = o
    BY <1>4, <1>5, <2>1
  <2>2. ASSUME NEW e \in B!Entries, Append(w, e) = o PROVE i \in 1..(n - a) /\ w[i] = o[i]
    <3>1. Len(o) = Len(w) + 1 /\ Len(w) \in Nat /\ o[i] = w[i]
      BY <1>2, <1>5, <2>2
    <3> QED BY <1>1, <1>2, <1>4, <1>5, <3>1
  <2> QED BY <1>3, <2>1, <2>2
<1>7. a + i \in 1..n /\ i \in Nat
  BY <1>1, <1>2, <1>6
<1>8. w[i] = Place(a + i)
  BY <1>4, <1>6, <1>7 DEF Place, n
<1>9. a + i \in 1..Places
  BY <1>1, <1>7 DEF Places, n
<1> QED BY <1>2, <1>7, <1>8, <1>9 DEF a, w

\* In every sink one thread's entries have increasing ids, and no id appears
\* twice, however the threads' fetch_adds and claims interleave.
THEOREM PerThreadOrderCorrect == Spec => []PerThreadOrder
<1>1. ASSUME B!TypeInv, B!SinksInv, OrderInv
      PROVE  PerThreadOrder
  <2> SUFFICES ASSUME NEW s \in 1..sinks, NEW i \in DOMAIN written[s],
                      NEW j \in DOMAIN written[s], i < j
               PROVE  /\ IdOf(written[s][i]) # IdOf(written[s][j])
                      /\ written[s][i][1] = written[s][j][1] =>
                            IdOf(written[s][i]) < IdOf(written[s][j])
    BY DEF PerThreadOrder
  <2> DEFINE p == added[s] + i
             q == added[s] + j
             a == Place(p)
             b == Place(q)
  <2>1. p \in 1..Places /\ q \in 1..Places /\ p < q
    BY <1>1, WrittenPlaces
  <2>2. written[s][i] = a /\ written[s][j] = b
    BY <1>1, WrittenPlaces
  <2> HIDE DEF p, q
  <2>3. /\ a[2] <= pushes[a[1]] /\ b[2] <= pushes[b[1]]
        /\ a[1] = b[1] => a[2] < b[2]
    BY <1>1, <2>1 DEF OrderInv, LineInv
  <2>4. /\ a[1] \in Loggers /\ a[2] \in Nat \ {0}
        /\ b[1] \in Loggers /\ b[2] \in Nat \ {0}
    <3>1. a \in Loggers \X (1..MaxPushes) /\ b \in Loggers \X (1..MaxPushes)
      BY <1>1, <2>1, RingTyped DEF B!Entries
    <3> QED BY <3>1, BackendAssumption
  <2> HIDE DEF a, b
  <2>5. \A l \in Loggers : /\ pushes[l] \in Nat /\ Len(ids[l]) \in Nat
                           /\ pushes[l] <= Len(ids[l])
    <3> SUFFICES ASSUME NEW l \in Loggers
                 PROVE  /\ pushes[l] \in Nat /\ Len(ids[l]) \in Nat
                        /\ pushes[l] <= Len(ids[l])
      OBVIOUS
    <3>1. pushes[l] \in Nat
      BY <1>1, BackendAssumption DEF B!TypeInv, B!TypeOK
    <3>2. /\ Len(ids[l]) \in Nat
          /\ Len(ids[l]) = pushes[l] + (IF pc[l] = "push" THEN 1 ELSE 0)
      BY <1>1 DEF OrderInv, IssueInv
    <3> QED BY <3>1, <3>2
  <2>6. a[2] \in 1..Len(ids[a[1]]) /\ b[2] \in 1..Len(ids[b[1]])
    <3>1. /\ pushes[a[1]] \in Nat /\ Len(ids[a[1]]) \in Nat
          /\ pushes[a[1]] <= Len(ids[a[1]])
      BY <2>4, <2>5
    <3>2. /\ pushes[b[1]] \in Nat /\ Len(ids[b[1]]) \in Nat
          /\ pushes[b[1]] <= Len(ids[b[1]])
      BY <2>4, <2>5
    <3>3. a[2] \in 1..Len(ids[a[1]])
      BY <2>3, <2>4, <3>1
    <3>4. b[2] \in 1..Len(ids[b[1]])
      BY <2>3, <2>4, <3>2
    <3> QED BY <3>3, <3>4
  <2>7. CASE a[1] = b[1]
    <3>1. ids[a[1]][a[2]] < ids[b[1]][b[2]]
      BY <1>1, <2>3, <2>4, <2>6, <2>7 DEF OrderInv, IdsInv
    <3>2. ids[a[1]] \in Seq(Nat)
      BY <1>1, <2>4 DEF OrderInv, IssueInv
    <3>3. ids[a[1]][a[2]] \in Nat
      <4>1. \A f \in Seq(Nat) : \A k \in 1..Len(f) : f[k] \in Nat
        OBVIOUS
      <4> QED BY <2>6, <3>2, <4>1, Zenon
    <3> QED BY <2>2, <3>1, <3>3 DEF IdOf
  <2>8. CASE a[1] # b[1]
    <3>1. ids[a[1]][a[2]] # ids[b[1]][b[2]]
      BY <1>1, <2>4, <2>6, <2>8 DEF OrderInv, IdsInv
    <3> QED BY <2>2, <2>8, <3>1 DEF IdOf
  <2> QED BY <2>7, <2>8
<1>2. B!BackendInv => B!TypeInv /\ B!SinksInv
  BY DEF B!BackendInv
<1> QED
  BY <1>1, <1>2, BackendInvHolds, InitCounts, InitOrder, NextCounts, NextOrder, PTL
     DEF Spec

-----------------------------------------------------------------------------
(***************************************************************************)
(* Nothing is lost by the destructor.                                      *)
(***************************************************************************)
\* A cell that cannot be read yet belongs to a thread still inside TryPush.
ReadyInv ==
    /\ pushing = {l \in Loggers : pc[l] = "publish"}
    /\ \A k \in 1..Len(cells) :
          ~cells[k].ready => \E l \in pushing : cells[k].item = <<l, pushes[l]>>

\* Once the destructor has been entered no thread logs, there is no worker to
\* join, and what is drained stays drained.
DestroyInv ==
    ~alive =>
        /\ ~running
        /\ \A l \in Loggers : pc[l] = "idle"
        /\ where["app"] \in {"stopping", "flushing", "idle"}
        /\ where["app"] \in {"flushing", "idle"} =>
              cells = << >> /\ \A d \in B!Drainers : ~B!Holding(d)
        /\ where["app"] = "idle" => \A s \in 1..sinks : flushed[s] = Len(written[s])

\* Two cells never hold the same entry.
LEMMA CellsDistinct ==
  ASSUME B!TypeInv, LineInv, NEW j \in 1..Len(cells), NEW k \in 1..Len(cells), j # k
  PROVE  cells[j].item # cells[k].item
<1> DEFINE n == Len(popped)
<1>1. n \in Nat /\ Len(cells) \in Nat /\ \A i \in 1..Places : Place(i) \in B!Entries
  BY RingTyped
<1>2. ASSUME NEW i \in 1..Len(cells)
      PROVE  /\ n + i \in 1..Places /\ Place(n + i) = cells[i].item
             /\ cells[i].item[2] \in Nat
  <2>1. n + i \in 1..Places
    BY <1>1 DEF Places
  <2>2. Place(n + i) = cells[i].item
    <3>1. ~(n + i <= n) /\ (n + i) - n = i
      BY <1>1
    <3> QED BY <3>1 DEF Place
  <2>3. cells[i].item \in Loggers \X (1..MaxPushes)
    BY <1>1, <2>1, <2>2 DEF B!Entries
  <2> QED BY <2>1, <2>2, <2>3, BackendAssumption
<1> HIDE DEF n
<1>3. ASSUME NEW i \in 1..Len(cells), NEW m \in 1..Len(cells), i < m
      PROVE  cells[i].item # cells[m].item
  <2>1. n + i < n + m
    BY <1>1, <1>3
  <2>2. Place(n + i)[1] = Place(n + m)[1] => Place(n + i)[2] < Place(n + m)[2]
    BY <1>2, <2>1 DEF LineInv
  <2> QED BY <1>2, <2>2
<1>4. j < k \/ k < j
  BY <1>1
<1> QED BY <1>3, <1>4

\* A push adds an unreadable cell and its owner.
LEMMA PushReady ==
  ASSUME B!TypeInv, CountInv, ReadyInv, NEW l \in Loggers, Push(l)
  PROVE  ReadyInv'
<1>1. B!PushClaim(l) /\ Goto(l, "publish")
  BY LoggingBackend DEF Push
<1> DEFINE c == [item |-> <<l, pushes[l] + 1>>, ready |-> FALSE]
           m == Len(cells)
<1>2. cells' = Append(cells, c) /\ c.item = <<l, pushes[l] + 1>>
  BY <1>1 DEF B!PushClaim, B!Ring!Claim
<1> HIDE DEF c
<1>3. cells \in Seq(B!Ring!Cells) /\ m \in Nat
  BY RingTyped
<1>4. /\ Len(cells') = m + 1 /\ cells'[m + 1] = c
      /\ \A k \in 1..m : cells'[k] = cells[k]
  BY <1>2, <1>3
<1>5. /\ l \notin pushing /\ pushing' = pushing \cup {l}
      /\ pushes' = [pushes EXCEPT ![l] = @ + 1]
      /\ pushes \in [Loggers -> 0..MaxPushes] /\ pushing \subseteq Loggers
  BY <1>1 DEF B!PushClaim, B!Begin, B!TypeInv, B!TypeOK
<1>6. pushes'[l] = pushes[l] + 1 /\ \A o \in pushing : pushes'[o] = pushes[o]
  BY <1>5
<1>7. pushing' = {o \in Loggers : pc'[o] = "publish"}
  BY <1>1, <1>5 DEF Goto, ReadyInv, CountInv
<1> HIDE DEF m
<1>8. ASSUME NEW k \in 1..(m + 1), ~cells'[k].ready
      PROVE  \E o \in pushing' : cells'[k].item = <<o, pushes'[o]>>
  <2>1. CASE k \in 1..m
    <3>1. PICK o \in pushing : cells[k].item = <<o, pushes[o]>>
      BY <1>4, <1>8, <2>1 DEF ReadyInv, m
    <3> QED BY <1>4, <1>5, <1>6, <2>1, <3>1
  <2>2. CASE k = m + 1
    BY <1>2, <1>4, <1>5, <1>6, <2>2
  <2> QED BY <1>3, <2>1, <2>2
<1> QED BY <1>4, <1>7, <1>8 DEF ReadyInv

\* Publishing makes the thread's own cell readable.
LEMMA PublishReady ==
  ASSUME B!TypeInv, CountInv, LineInv, ReadyInv, NEW l \in Loggers, Publish(l)
  PROVE  ReadyInv'
<1>1. B!PushPublish(l) /\ Goto(l, "idle")
  BY LoggingBackend DEF Publish
<1>2. PICK k \in DOMAIN cells : cells[k].item = <<l, pushes[l]>> /\ B!Ring!Publish(k)
  BY <1>1 DEF B!PushPublish, B!EntryOf
<1>3. cells \in Seq(B!Ring!Cells) /\ k \in 1..Len(cells) /\ Len(cells) \in Nat
  BY RingTyped
<1>4. /\ Len(cells') = Len(cells)
      /\ \A j \in 1..Len(cells) : /\ cells'[j].item = cells[j].item
                                  /\ cells[j].ready => cells'[j].ready
  BY <1>2, <1>3, BackendHolds, B!PublishTyped
<1>5. cells'[k].ready
  <2> DEFINE c == [cells[k] EXCEPT !.ready = TRUE]
  <2>1. cells[k] \in B!Ring!Cells
    BY <1>3
  <2>2. c.ready
    BY <2>1 DEF B!Ring!Cells
  <2>3. cells' = [cells EXCEPT ![k] = c]
    BY <1>2 DEF B!Ring!Publish
  <2> HIDE DEF c
  <2> QED BY <1>3, <2>2, <2>3
<1>6. pushing' = pushing \ {l} /\ pushes' = pushes /\ pushing \subseteq Loggers
  BY <1>1 DEF B!PushPublish, B!TypeInv, B!TypeOK
<1>7. pushing' = {o \in Loggers : pc'[o] = "publish"}
  BY <1>1, <1>6 DEF Goto, ReadyInv, CountInv
<1>8. ASSUME NEW j \in 1..Len(cells), ~cells'[j].ready
      PROVE  \E o \in pushing' : cells'[j].item = <<o, pushes'[o]>>
  <2>1. ~cells[j].ready /\ j # k
    BY <1>4, <1>5, <1>8
  <2>2. PICK o \in pushing : cells[j].item = <<o, pushes[o]>>
    BY <2>1 DEF ReadyInv
  <2>3. o # l
    BY <1>2, <1>3, <2>1, <2>2, CellsDistinct
  <2> QED BY <1>4, <1>6, <2>2, <2>3
<1> QED BY <1>4, <1>7, <1>8 DEF ReadyInv

\* A pop takes a readable cell.
LEMMA PopReady ==
  ASSUME B!TypeInv, ReadyInv, NEW d, B!DrainPop(d), UNCHANGED pc
  PROVE  ReadyInv'
<1>1. B!Ring!Pop /\ UNCHANGED <<pushes, pushing>>
  BY DEF B!DrainPop, B!loggerVars
<1>2. cells \in Seq(B!Ring!Cells) /\ popped \in Seq(B!Entries) /\ Len(cells) \in Nat
  BY RingTyped
<1>3. Len(cells') = Len(cells) - 1 /\ \A j \in 1..Len(cells') : cells'[j] = cells[j + 1]
  BY <1>1, <1>2, BackendHolds, B!PopTyped
<1>4. ASSUME NEW j \in 1..Len(cells'), ~cells'[j].ready
      PROVE  \E o \in pushing' : cells'[j].item = <<o, pushes'[o]>>
  <2>1. j + 1 \in 1..Len(cells) /\ cells'[j] = cells[j + 1]
    BY <1>2, <1>3
  <2>2. PICK o \in pushing : cells[j + 1].item = <<o, pushes[o]>>
    BY <1>4, <2>1 DEF ReadyInv
  <2> QED BY <1>1, <2>1, <2>2
<1> QED BY <1>1, <1>4 DEF ReadyInv

\* Every other step leaves the cells and their owners alone.
LEMMA NextReady ==
  B!TypeInv /\ CountInv /\ OrderInv /\ ReadyInv /\ [Next]_vars => ReadyInv'
<1> SUFFICES ASSUME B!TypeInv, CountInv, LineInv, ReadyInv, [Next]_vars
             PROVE  ReadyInv'
  BY DEF OrderInv
<1>1. ASSUME UNCHANGED <<cells, pushing, pushes>>,
             \A l \in Loggers : (pc'[l] = "publish") <=> (pc[l] = "publish")
      PROVE  ReadyInv'
  BY <1>1 DEF ReadyInv
<1>2. ASSUME NEW l \in Loggers, Logging(l) PROVE ReadyInv'
  <2>1. CASE (\E s \in Sites : Execute(l, s)) \/ (\E v \in Levels : CheckLevel(l, v))
             \/ FetchSequence(l) \/ CountDrop(l)
    <3>1. \A m \in Loggers : (pc'[m] = "publish") <=> (pc[m] = "publish")
      BY <2>1 DEF Execute, CheckLevel, FetchSequence, CountDrop, Goto, CountInv
    <3> QED BY <1>1, <2>1, <3>1, LoggingBackend DEF backendVars
  <2>2. CASE Refused(l)
    <3>1. /\ UNCHANGED <<cells, pushing>> /\ l \notin pushing
          /\ pushes' = [pushes EXCEPT ![l] = @ + 1]
          /\ pushes \in [Loggers -> 0..MaxPushes] /\ pushing \subseteq Loggers
      BY <2>2, LoggingBackend
         DEF B!PushFull, B!Begin, B!ringVars, B!TypeInv, B!TypeOK
    <3>2. \A m \in pushing : pushes'[m] = pushes[m]
      BY <3>1
    <3>3. \A m \in Loggers : (pc'[m] = "publish") <=> (pc[m] = "publish")
      BY <2>2 DEF Refused, Goto, CountInv
    <3> QED BY <3>1, <3>2, <3>3 DEF ReadyInv
  <2> QED BY <1>2, <2>1, <2>2, PushReady, PublishReady DEF Logging
<1>3. CASE BackendSteps
  <2>1. UNCHANGED pc
    BY <1>3 DEF BackendSteps, loggerOnly, macroVars
  <2>2. \/ UNCHANGED <<cells, pushing, pushes>>
        \/ B!DrainPop("app") \/ B!DrainPop("worker")
    BY <1>3, ControlBackend
       DEF B!Worker, B!WorkerCheck, B!WorkerPolled, B!WorkerFinal, B!DrainAgain,
           B!DispatchWrite, B!DispatchReturn, B!Join, B!StopDrain, B!DrainReturn,
           B!ringVars, B!loggerVars
  <2> QED BY <1>1, <2>1, <2>2, PopReady
<1>4. CASE Control \/ (\E v \in Levels : SetLevel(v)) \/ UNCHANGED vars
  <2>1. UNCHANGED pc
    BY <1>4 DEF SetLevel, Control, AddSink, Start, Stop, Destroy, StopReturns, Drain,
         ResetDropCount, loggerOnly, macroVars, vars
  <2>2. UNCHANGED <<cells, pushing, pushes>>
    BY <1>4, ControlBackend
       DEF Control, B!AddSink, B!Start, B!Stop, B!FlushSinks, B!Drain, B!ringVars,
           B!loggerVars, backendVars, vars
  <2> QED BY <1>1, <2>1, <2>2
<1> QED BY <1>2, <1>3, <1>4 DEF Next

\* While no thread is inside TryPush, a drain that finds nothing to pop has
\* emptied the ring.
LEMMA QuietRingEmpty ==
  ASSUME B!TypeInv, ReadyInv, \A l \in Loggers : pc[l] = "idle", ~B!Ring!HeadReady
  PROVE  cells = << >>
<1> SUFFICES ASSUME cells # << >> PROVE FALSE
  OBVIOUS
<1>1. cells \in Seq(B!Ring!Cells)
  BY RingTyped
<1>2. 1 \in 1..Len(cells) /\ Head(cells) = cells[1]
  BY <1>1
<1>3. ~cells[1].ready
  BY <1>2 DEF B!Ring!HeadReady
<1>4. pushing = {}
  BY DEF ReadyInv
<1> QED BY <1>2, <1>3, <1>4 DEF ReadyInv

\* The steps of the drain that the destructor's Stop runs.
LEMMA DrainDestroy ==
  ASSUME B!TypeInv, B!PhaseInv, ReadyInv, DestroyInv, ~alive, BackendSteps
  PROVE  DestroyInv'
<1>0. DOMAIN where = {"worker", "app"} /\ DOMAIN batch = {"worker", "app"}
  BY DEF B!TypeInv, B!TypeOK, B!Drainers
<1>1. /\ ~running /\ \A l \in Loggers : pc[l] = "idle"
      /\ where["app"] \in {"stopping", "flushing", "idle"}
      /\ where["app"] \in {"flushing", "idle"} =>
            cells = << >> /\ \A d \in B!Drainers : ~B!Holding(d)
      /\ where["app"] = "idle" => \A s \in 1..sinks : flushed[s] = Len(written[s])
  BY DEF DestroyInv
<1>2. where["worker"] = "none"
  BY <1>1 DEF B!PhaseInv
<1>3. ~B!Holding("worker") /\ ~B!InDrain("worker")
  BY <1>2 DEF B!PhaseInv, B!InDrain, B!Drainers
<1>4. ~B!Worker /\ ~B!Join /\ ~B!DrainReturn
  BY <1>1, <1>2, <1>3
     DEF B!Worker, B!WorkerCheck, B!WorkerPolled, B!WorkerFinal, B!DrainAgain,
         B!DrainPop, B!DispatchWrite, B!DispatchReturn, B!Holding, B!Join,
         B!DrainReturn
<1>5. UNCHANGED <<alive, pc, running>>
  BY BackendStepsPhase DEF BackendSteps, loggerOnly, macroVars
<1>6. CASE B!DrainPop("app") \/ B!DispatchWrite("app") \/ B!DispatchReturn("app")
  <2>1. where["app"] = "stopping" /\ where' = where
    <3>1. B!InDrain("app") /\ where' = where
      BY <1>6 DEF B!DrainPop, B!DispatchWrite, B!DispatchReturn, B!PhaseInv, B!Holding,
         B!Drainers
    <3> QED BY <1>1, <3>1 DEF B!InDrain
  <2> QED BY <1>1, <1>5, <2>1 DEF DestroyInv
<1>7. CASE B!StopDrain
  <2>1. /\ where["app"] = "stopping" /\ batch["app"].entry = NoEntry
        /\ batch["app"].count = BatchSize \/ ~B!Ring!HeadReady
        /\ batch' = [batch EXCEPT !["app"] = B!DrainCall]
        /\ where'["app"] = IF batch["app"].count > 0 THEN "stopping" ELSE "flushing"
        /\ UNCHANGED cells
    BY <1>0, <1>7 DEF B!StopDrain, B!DrainAgain, B!DrainEnds, B!CallDrain, B!Goto,
       B!ringVars
  <2>2. CASE batch["app"].count > 0
    BY <1>1, <1>5, <2>1, <2>2 DEF DestroyInv
  <2>3. CASE ~(batch["app"].count > 0)
    <3>1. batch["app"].count # BatchSize
      BY <2>3, BackendAssumption
    <3>2. cells = << >>
      BY <1>1, <2>1, <3>1, QuietRingEmpty
    <3>3. \A d \in B!Drainers : ~B!Holding(d)'
      <4>1. B!DrainCall.entry = NoEntry
        BY DEF B!DrainCall
      <4>2. batch'["app"] = B!DrainCall /\ batch'["worker"] = batch["worker"]
        BY <1>0, <2>1
      <4> QED BY <1>3, <4>1, <4>2 DEF B!Holding, B!Drainers
    <3> QED BY <1>1, <1>5, <2>1, <2>3, <3>2, <3>3 DEF DestroyInv
  <2> QED BY <2>2, <2>3
<1> QED BY <1>4, <1>6, <1>7, ControlBackend

\* The destructor finds no worker, and from then on only its drain acts.
LEMMA NextDestroy ==
  ASSUME B!TypeInv, B!PhaseInv, StartInv, ReadyInv, DestroyInv, [Next]_vars
  PROVE  DestroyInv'
<1>0. DOMAIN where = {"worker", "app"}
  BY DEF B!TypeInv, B!TypeOK, B!Drainers
<1>1. ASSUME UNCHANGED <<running, pc, where, cells, batch, sinks, flushed, written, alive>>
      PROVE  DestroyInv'
  BY <1>1 DEF DestroyInv, B!Holding
<1>2. ASSUME NEW l \in Loggers, Logging(l) PROVE DestroyInv'
  <2>1. UNCHANGED alive
    BY <1>2, LoggingPhase
  <2>2. alive
    BY <1>2 DEF DestroyInv, Logging, Execute, CheckLevel, FetchSequence, Push, Publish,
       Refused, CountDrop
  <2> QED BY <2>1, <2>2 DEF DestroyInv
<1>3. CASE BackendSteps
  <2>1. CASE alive
    BY <1>3, <2>1, BackendStepsPhase DEF DestroyInv
  <2> QED BY <1>3, <2>1, DrainDestroy
<1>4. CASE AddSink \/ Start \/ Stop \/ Drain
  <2>1. alive /\ alive'
    BY <1>4 DEF AddSink, Start, Stop, Drain
  <2> QED BY <2>1 DEF DestroyInv
<1>5. CASE Destroy
  <2>1. /\ ~started /\ B!Stop /\ UNCHANGED pc
        /\ \A l \in Loggers : pc[l] = "idle"
    BY <1>5, ControlBackend DEF Destroy, loggerOnly, macroVars
  <2>2. where["app"] = "idle" /\ ~running'
    BY <2>1 DEF B!Stop
  <2>3. where["worker"] = "none"
    <3>1. ~running
      BY <2>1, <2>2 DEF StartInv, StartedIsRunning
    <3> QED BY <2>2, <3>1 DEF B!PhaseInv
  <2>4. where'["app"] = "stopping"
    BY <1>0, <2>1, <2>3 DEF B!Stop, B!Goto, B!joinable
  <2> QED BY <2>1, <2>2, <2>4 DEF DestroyInv
<1>6. CASE StopReturns
  <2>1. B!FlushSinks /\ UNCHANGED <<alive, pc>>
    BY <1>6, ControlBackend DEF StopReturns, loggerOnly, macroVars
  <2>2. /\ where["app"] = "flushing" /\ where'["app"] = "idle"
        /\ UNCHANGED <<running, cells, batch, sinks, written>>
        /\ flushed' = [s \in B!Sinks |-> IF s <= sinks
                                         THEN Len(written[s]) ELSE flushed[s]]
    BY <1>0, <2>1 DEF B!FlushSinks, B!Goto, B!ringVars
  <2>3. \A s \in 1..sinks : flushed'[s] = Len(written[s])
    <3>1. sinks \in 0..MaxSinks
      BY DEF B!TypeInv, B!TypeOK
    <3>2. \A s \in 1..sinks : s \in B!Sinks /\ s <= sinks
      BY <3>1, BackendAssumption DEF B!Sinks
    <3> QED BY <2>2, <3>2
  <2> QED BY <2>1, <2>2, <2>3 DEF DestroyInv, B!Holding
<1>7. CASE ResetDropCount \/ (\E v \in Levels : SetLevel(v)) \/ UNCHANGED vars
  BY <1>1, <1>7 DEF ResetDropCount, SetLevel, vars, backendVars, macroVars
<1> QED BY <1>2, <1>3, <1>4, <1>5, <1>6, <1>7 DEF Next, Control

\* Destroying the logger, started or not, leaves no entry in the ring, and every
\* sink has written and flushed all that was popped since it was added.
THEOREM DestroyDrainsCorrect == Spec => []DestroyDrains
<1>1. Init => StartInv /\ ReadyInv /\ DestroyInv
  <2> SUFFICES ASSUME Init PROVE StartInv /\ ReadyInv /\ DestroyInv
    OBVIOUS
  <2>1. /\ where["app"] = "idle" /\ running = FALSE /\ started = FALSE /\ alive = TRUE
        /\ cells = << >> /\ pushing = {} /\ pc = [l \in Loggers |-> "idle"]
    BY DEF Init, Backend!Init, Backend!Ring!QueueInit
  <2>2. ReadyInv
    BY <2>1 DEF ReadyInv
  <2> QED BY <2>1, <2>2 DEF StartInv, StartedIsRunning, DestroyInv
<1>2. B!BackendInv => B!TypeInv /\ B!PhaseInv /\ B!SinksInv
  BY DEF B!BackendInv
<1>3. ASSUME B!TypeInv, B!PhaseInv, B!SinksInv, DestroyInv
      PROVE  DestroyDrains
  <2> SUFFICES ASSUME ~alive, where["app"] = "idle", NEW s \in 1..sinks
               PROVE  /\ cells = << >> /\ flushed[s] = Len(written[s])
                      /\ written[s] = SubSeq(popped, added[s] + 1, Len(popped))
    BY <1>3 DEF DestroyDrains, DestroyInv
  <2>1. /\ cells = << >> /\ flushed[s] = Len(written[s])
        /\ \A d \in B!Drainers : ~B!Holding(d)
    BY <1>3 DEF DestroyInv
  <2>2. written[s] = B!Owed(s)
    BY <1>3, <2>1 DEF B!SinksInv, B!Due
  <2> QED BY <2>1, <2>2 DEF B!Owed
<1>4. B!TypeInv /\ B!PhaseInv /\ StartInv /\ ReadyInv /\ DestroyInv /\ [Next]_vars
         => DestroyInv'
  BY NextDestroy
<1> QED
  BY <1>1, <1>2, <1>3, <1>4, BackendInvHolds, InitCounts, InitOrder, NextCounts,
     NextOrder, NextStart, NextReady, PTL DEF Spec
=============================================================================
