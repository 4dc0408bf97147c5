------------------------ MODULE LoggerBackend_proofs ------------------------
(***************************************************************************)
(* Proofs about LoggerBackend, for any set of loggers, any ring size and   *)
(* batch size, any number of sinks, pushes and calls of Start, Stop and    *)
(* Drain, with the worker thread and without it.                           *)
(***************************************************************************)
EXTENDS LoggerBackend, SequenceTheorems, TLAPS

-----------------------------------------------------------------------------
(***************************************************************************)
(* The inductive invariant.                                                *)
(***************************************************************************)
DrainCalls ==
    [count : 0..BatchSize, entry : Entries \cup {NoEntry}, sink : Nat \ {0}]

Holding(d) == batch[d].entry # NoEntry

\* A drain that dispatches still has room in its batch.
TypeInv == TypeOK /\ \A d \in Drainers : Holding(d) => batch[d].count < BatchSize

\* Which phases of the two threads go together: Stop gets past the join only
\* when there is no worker left, and outside Stop a worker exists only while
\* running_ is set.
PhaseInv ==
    /\ where["worker"] \in {"none", "loop", "poll", "final", "exited"}
    /\ where["app"] \in {"idle", "joining", "stopping", "flushing", "manual"}
    /\ where["app"] \in {"stopping", "flushing", "manual"} => where["worker"] = "none"
    /\ where["app"] = "idle" /\ ~running => where["worker"] = "none"
    /\ \A d \in Drainers : Holding(d) => InDrain(d)

\* Due(d, s): the entry d holds has not reached sink s yet.
Due(d, s) == Holding(d) /\ batch[d].sink <= s
Owed(s) == SubSeq(popped, added[s] + 1, Len(popped))

\* What each sink has received is what was popped since it was added; the entry
\* in hand is the last one popped.
SinksInv ==
    /\ \A s \in Sinks : s > sinks => written[s] = << >>
    /\ \A s \in 1..sinks : added[s] <= Len(popped)
    /\ \A s \in 1..sinks :
          /\ (\A d \in Drainers : ~Due(d, s)) => written[s] = Owed(s)
          /\ \A d \in Drainers :
                Due(d, s) => Append(written[s], batch[d].entry) = Owed(s)
    /\ \A d \in Drainers : Holding(d) =>
          /\ popped # << >>
          /\ popped[Len(popped)] = batch[d].entry
          /\ \A s \in 1..sinks : added[s] < Len(popped)

Received(s, e) == \E k \in 1..Len(written[s]) : written[s][k] = e

\* What Stop owes has been received, is in the hands of a drain that will hand
\* it on, or stands in the ring with only published cells in front of it; once
\* Stop flushes, it has been received.
StopInv ==
    /\ where["app"] \in {"joining", "stopping"} =>
          \A e \in atStop.clear : \A s \in 1..sinks :
             \/ Received(s, e)
             \/ \E d \in Drainers : Due(d, s) /\ batch[d].entry = e
             \/ e \in Clear
    /\ where["app"] = "flushing" =>
          \A e \in atStop.clear : \A s \in 1..sinks : Received(s, e)

BackendInv == TypeInv /\ PhaseInv /\ SinksInv /\ StopInv

-----------------------------------------------------------------------------
(***************************************************************************)
(* Type correctness.                                                       *)
(***************************************************************************)
\* Marking a cell as published keeps the ring a sequence of cells.
LEMMA PublishTyped ==
  ASSUME cells \in Seq(Ring!Cells), NEW k \in DOMAIN cells, Ring!Publish(k)
  PROVE  /\ cells' \in Seq(Ring!Cells) /\ Len(cells') = Len(cells)
         /\ \A i \in 1..Len(cells) :
               /\ cells'[i].item = cells[i].item
               /\ cells[i].ready => cells'[i].ready
<1> DEFINE c == [cells[k] EXCEPT !.ready = TRUE]
<1>1. k \in 1..Len(cells) /\ cells[k] \in Ring!Cells
  OBVIOUS
<1>2. c \in Ring!Cells /\ c.item = cells[k].item /\ c.ready = TRUE
  BY <1>1 DEF Ring!Cells
<1>3. cells' = [cells EXCEPT ![k] = c]
  BY DEF Ring!Publish
<1> HIDE DEF c
<1>4. /\ cells' \in Seq(Ring!Cells) /\ Len(cells') = Len(cells)
      /\ \A i \in 1..Len(cells) : cells'[i] = IF i = k THEN c ELSE cells[i]
  BY <1>1, <1>2, <1>3, ExceptSeq
<1> QED BY <1>2, <1>4

\* What a successful pop takes out of the ring and what it leaves.
LEMMA PopTyped ==
  ASSUME cells \in Seq(Ring!Cells), popped \in Seq(Entries), Ring!Pop
  PROVE  /\ Head(cells).item \in Entries
         /\ Head(cells) = cells[1] /\ Len(cells) >= 1 /\ cells[1].ready
         /\ cells' \in Seq(Ring!Cells) /\ Len(cells') = Len(cells) - 1
         /\ \A i \in 1..Len(cells') : cells'[i] = cells[i + 1]
         /\ popped' \in Seq(Entries) /\ Len(popped') = Len(popped) + 1
         /\ popped' = Append(popped, Head(cells).item)
         /\ popped'[Len(popped')] = Head(cells).item
<1>1. /\ cells # << >> /\ Head(cells).ready /\ cells' = Tail(cells)
      /\ popped' = Append(popped, Head(cells).item)
  BY DEF Ring!Pop, Ring!HeadReady
<1>2. Head(cells) \in Ring!Cells /\ Head(cells) = cells[1] /\ Len(cells) >= 1
  BY <1>1
<1>3. Head(cells).item \in Entries
  BY <1>2 DEF Ring!Cells
<1>4. /\ cells' \in Seq(Ring!Cells) /\ Len(cells') = Len(cells) - 1
      /\ \A i \in 1..Len(cells') : cells'[i] = cells[i + 1]
  BY <1>1, HeadTailProperties
<1> QED BY <1>1, <1>2, <1>3, <1>4

\* The entries of the ring and in the hands of a drain are entries.
LEMMA AtStopTyped ==
  ASSUME TypeOK
  PROVE  Published \cup InHand \subseteq Entries /\ Clear \cup InHand \subseteq Entries
<1>1. \A k \in DOMAIN cells : cells[k].item \in Entries
  <2>1. \A k \in DOMAIN cells : cells[k] \in Ring!Cells
    BY DEF TypeOK
  <2> QED BY <2>1 DEF Ring!Cells
<1>2. Published \subseteq Entries /\ Clear \subseteq Entries
  BY <1>1 DEF Published, Clear
<1>3. InHand \subseteq Entries
  BY DEF TypeOK, InHand
<1> QED BY <1>2, <1>3

\* Initially the types are right.
LEMMA InitTyped == Init => TypeInv
<1> SUFFICES ASSUME Init PROVE TypeInv
  OBVIOUS
<1>1. where \in [Drainers -> {"none", "loop", "poll", "final", "exited", "idle",
                              "joining", "stopping", "flushing", "manual"}]
  BY DEF Init, Drainers
<1>2. /\ batch \in [Drainers -> [count : 0..BatchSize,
                                 entry : Entries \cup {NoEntry},
                                 sink : Nat \ {0}]]
      /\ \A d \in Drainers : batch[d].entry = NoEntry
  BY BoundAssumption DEF Init, DrainCall
<1>3. has_thread \in BOOLEAN /\ running \in BOOLEAN
  BY BuildsAssumption DEF Init
<1> QED
  BY <1>1, <1>2, <1>3, BoundAssumption, LimitsAssumption
  DEF Init, TypeInv, TypeOK, Holding, Ring!QueueInit

\* A step of TryPush keeps the types.
LEMMA LoggingTyped ==
  ASSUME TypeInv, NEW l \in Loggers, PushClaim(l) \/ PushPublish(l) \/ PushFull(l)
  PROVE  TypeInv'
<1> USE DEF TypeInv, TypeOK, Holding
<1>0. pushes[l] \in 0..MaxPushes /\ MaxPushes \in Nat
  BY LimitsAssumption
<1>1. CASE PushClaim(l)
  <2>1. <<l, pushes[l] + 1>> \in Entries /\ pushes' \in [Loggers -> 0..MaxPushes]
    BY <1>0, <1>1 DEF PushClaim, Begin, Entries
  <2> DEFINE c == [item |-> <<l, pushes[l] + 1>>, ready |-> FALSE]
  <2>2. c \in Ring!Cells
    BY <2>1 DEF Ring!Cells
  <2>3. cells' = Append(cells, c) /\ Len(cells) < Bound /\ popped' = popped
    BY <1>1 DEF PushClaim, Ring!Claim
  <2> HIDE DEF c
  <2>4. cells' \in Seq(Ring!Cells) /\ Len(cells') <= Bound
    BY <2>2, <2>3, BoundAssumption
  <2> QED BY <1>1, <2>1, <2>3, <2>4 DEF PushClaim, sinkVars, drainVars
<1>2. CASE PushPublish(l)
  <2>1. PICK k \in DOMAIN cells : Ring!Publish(k)
    BY <1>2 DEF PushPublish
  <2>2. cells' \in Seq(Ring!Cells) /\ Len(cells') = Len(cells)
    BY <2>1, PublishTyped
  <2>3. popped' = popped
    BY <2>1 DEF Ring!Publish
  <2> QED BY <1>2, <2>2, <2>3 DEF PushPublish, sinkVars, drainVars
<1>3. CASE PushFull(l)
  <2>1. <<l, pushes[l] + 1>> \in Entries /\ pushes' \in [Loggers -> 0..MaxPushes]
    BY <1>0, <1>3 DEF PushFull, Begin, Entries
  <2> QED BY <1>3, <2>1 DEF PushFull, ringVars, sinkVars, drainVars
<1> QED BY <1>1, <1>2, <1>3

\* What a step that replaces the local variables of one Drain does.
LEMMA BatchUpdate ==
  ASSUME TypeInv, NEW d \in Drainers, NEW r \in DrainCalls,
         r.entry # NoEntry => r.count < BatchSize,
         batch' = [batch EXCEPT ![d] = r]
  PROVE  /\ batch' \in [Drainers -> DrainCalls]
         /\ \A c \in Drainers : Holding(c)' => batch'[c].count < BatchSize
         /\ \A c \in Drainers : c # d => batch'[c] = batch[c]
         /\ batch'[d] = r
<1>1. batch \in [Drainers -> DrainCalls]
  BY DEF TypeInv, TypeOK, DrainCalls
<1>2. /\ batch' \in [Drainers -> DrainCalls]
      /\ batch'[d] = r /\ \A c \in Drainers : c # d => batch'[c] = batch[c]
  BY <1>1
<1> QED BY <1>2 DEF TypeInv, Holding

\* A call of Drain starts an empty batch.
LEMMA CallDrainTyped ==
  ASSUME TypeInv, NEW d \in Drainers, batch' = [batch EXCEPT ![d] = DrainCall]
  PROVE  /\ batch' \in [Drainers -> DrainCalls]
         /\ \A c \in Drainers : Holding(c)' => batch'[c].count < BatchSize
         /\ \A c \in Drainers : c # d => batch'[c] = batch[c]
         /\ ~Holding(d)'
<1>1. DrainCall \in DrainCalls /\ DrainCall.entry = NoEntry
  BY BoundAssumption DEF DrainCall, DrainCalls
<1> QED BY <1>1, BatchUpdate DEF Holding

\* The updates that Drain and Dispatch make to their local variables.
Taken(r, e) == [r EXCEPT !.entry = e, !.sink = 1]
Handed(r) == [r EXCEPT !.sink = @ + 1]
Returned(r) == [r EXCEPT !.entry = NoEntry, !.count = @ + 1]

\* The updates written out.
LEMMA TwoFields ==
  ASSUME NEW C, NEW E, NEW S, NEW r \in [count : C, entry : E, sink : S], NEW e
  PROVE  /\ Taken(r, e) = [count |-> r.count, entry |-> e, sink |-> 1]
         /\ Returned(r) = [count |-> r.count + 1, entry |-> NoEntry, sink |-> r.sink]
<1> DEFINE Fields == {"count", "entry", "sink"}
           a == Taken(r, e)
           b == [count |-> r.count, entry |-> e, sink |-> 1]
           c == Returned(r)
           d == [count |-> r.count + 1, entry |-> NoEntry, sink |-> r.sink]
<1>1. a = [x \in Fields |-> a[x]] /\ b = [x \in Fields |-> b[x]]
  BY DEF Taken
<1>2. c = [x \in Fields |-> c[x]] /\ d = [x \in Fields |-> d[x]]
  BY DEF Returned
<1>3. a["count"] = b["count"] /\ a["entry"] = b["entry"] /\ a["sink"] = b["sink"]
  BY DEF Taken
<1>4. c["count"] = d["count"] /\ c["entry"] = d["entry"] /\ c["sink"] = d["sink"]
  BY DEF Returned
<1> HIDE DEF a, b, c, d
<1>5. a = b /\ c = d
  BY <1>1, <1>2, <1>3, <1>4
<1> QED BY <1>5 DEF a, b, c, d

\* What these updates do to each field.
LEMMA UpdateFields ==
  ASSUME NEW r \in DrainCalls
  PROVE  /\ \A e \in Entries :
              /\ Taken(r, e) \in DrainCalls
              /\ Taken(r, e).count = r.count
              /\ Taken(r, e).entry = e
              /\ Taken(r, e).sink = 1
         /\ Handed(r) \in DrainCalls
         /\ Handed(r).count = r.count
         /\ Handed(r).entry = r.entry
         /\ Handed(r).sink = r.sink + 1
         /\ r.count < BatchSize =>
              /\ Returned(r) \in DrainCalls
              /\ Returned(r).entry = NoEntry
              /\ Returned(r).sink = r.sink
<1> USE BoundAssumption
<1>1. r.count \in 0..BatchSize /\ r.sink \in Nat \ {0}
  BY DEF DrainCalls
<1> DEFINE C == 0..BatchSize
           E == Entries \cup {NoEntry}
           S == Nat \ {0}
<1>r. r \in [count : C, entry : E, sink : S]
  BY DEF DrainCalls
<1> HIDE DEF C, E, S
<1>2. \A e \in Entries : /\ Taken(r, e) \in DrainCalls
                         /\ Taken(r, e).count = r.count
                         /\ Taken(r, e).entry = e
                         /\ Taken(r, e).sink = 1
  <2>1. \A e \in Entries :
          Taken(r, e) = [count |-> r.count, entry |-> e, sink |-> 1]
    BY <1>r, TwoFields
  <2> QED BY <1>1, <2>1 DEF DrainCalls
<1>3. /\ Handed(r) \in DrainCalls /\ Handed(r).count = r.count
      /\ Handed(r).entry = r.entry /\ Handed(r).sink = r.sink + 1
  BY <1>1 DEF DrainCalls, Handed
<1>4. ASSUME r.count < BatchSize
      PROVE  /\ Returned(r) \in DrainCalls
             /\ Returned(r).entry = NoEntry /\ Returned(r).sink = r.sink
  <2>1. Returned(r) = [count |-> r.count + 1, entry |-> NoEntry, sink |-> r.sink]
    BY <1>r, TwoFields
  <2> QED BY <1>1, <1>4, <2>1 DEF DrainCalls
<1> QED BY <1>2, <1>3, <1>4

\* The steps of Drain and Dispatch, on the local variables.
LEMMA DrainBatch ==
  ASSUME TypeInv, NEW d \in Drainers
  PROVE  /\ DrainPop(d) =>
              /\ batch[d].count < BatchSize
              /\ batch' = [batch EXCEPT ![d] = Taken(batch[d], Head(cells).item)]
         /\ DispatchWrite(d) => batch' = [batch EXCEPT ![d] = Handed(batch[d])]
         /\ DispatchReturn(d) => batch' = [batch EXCEPT ![d] = Returned(batch[d])]
BY DEF DrainPop, DispatchWrite, DispatchReturn, Taken, Handed, Returned

\* A step of Drain or Dispatch keeps the types.
LEMMA DrainTyped ==
  ASSUME TypeInv, NEW d \in Drainers,
         DrainPop(d) \/ DispatchWrite(d) \/ DispatchReturn(d)
  PROVE  TypeInv'
<1>0. /\ batch[d] \in DrainCalls
      /\ batch[d].sink \in Nat \ {0} /\ batch[d].entry \in Entries \cup {NoEntry}
  BY DEF TypeInv, TypeOK, DrainCalls
<1>1. CASE DrainPop(d)
  <2>1. /\ Head(cells).item \in Entries
        /\ cells' \in Seq(Ring!Cells) /\ Len(cells') = Len(cells) - 1
        /\ popped' \in Seq(Entries)
    BY <1>1, PopTyped DEF DrainPop, TypeInv, TypeOK
  <2>2. /\ batch' \in [Drainers -> DrainCalls]
        /\ \A c \in Drainers : Holding(c)' => batch'[c].count < BatchSize
    <3> DEFINE r == Taken(batch[d], Head(cells).item)
    <3>1. /\ batch' = [batch EXCEPT ![d] = r] /\ batch[d].count < BatchSize
      BY <1>1, DrainBatch
    <3>2. r \in DrainCalls /\ r.count = batch[d].count
      BY <1>0, <2>1, UpdateFields
    <3> HIDE DEF r
    <3> QED BY <3>1, <3>2, BatchUpdate
  <2>3. Len(cells') <= Bound
    BY <2>1, BoundAssumption DEF TypeInv, TypeOK
  <2> QED
    BY <1>1, <2>1, <2>2, <2>3
    DEF DrainPop, TypeInv, TypeOK, DrainCalls, loggerVars, sinkVars
<1>2. CASE DispatchWrite(d)
  <2>1. batch[d].sink \in Sinks /\ batch[d].entry \in Entries
    BY <1>0, <1>2, LimitsAssumption DEF DispatchWrite, Sinks, TypeInv, TypeOK
  <2>2. written' \in [Sinks -> Seq(Entries)]
    <3>1. written \in [Sinks -> Seq(Entries)]
      BY DEF TypeInv, TypeOK
    <3>2. Append(written[batch[d].sink], batch[d].entry) \in Seq(Entries)
      BY <2>1, <3>1
    <3> QED BY <1>2, <3>1, <3>2 DEF DispatchWrite
  <2>3. batch[d].count < BatchSize
    BY <1>2 DEF DispatchWrite, TypeInv, Holding
  <2>4. /\ batch' \in [Drainers -> DrainCalls]
        /\ \A c \in Drainers : Holding(c)' => batch'[c].count < BatchSize
    BY <1>0, <1>2, <2>3, DrainBatch, UpdateFields, BatchUpdate
  <2> QED
    BY <1>2, <2>2, <2>4
    DEF DispatchWrite, TypeInv, TypeOK, DrainCalls, ringVars, loggerVars
<1>3. CASE DispatchReturn(d)
  <2>1. batch[d].count < BatchSize
    BY <1>3 DEF DispatchReturn, TypeInv, Holding
  <2>2. /\ batch' \in [Drainers -> DrainCalls]
        /\ \A c \in Drainers : Holding(c)' => batch'[c].count < BatchSize
    BY <1>0, <1>3, <2>1, DrainBatch, UpdateFields, BatchUpdate
  <2> QED
    BY <1>3, <2>2
    DEF DispatchReturn, TypeInv, TypeOK, DrainCalls, ringVars, loggerVars, sinkVars
<1> QED BY <1>1, <1>2, <1>3

\* So does a step of the worker's loop or of the application.
LEMMA ControlTyped ==
  ASSUME TypeInv,
         \/ WorkerCheck \/ WorkerPolled \/ WorkerFinal \/ AddSink \/ Start \/ Stop
         \/ Join \/ StopDrain \/ FlushSinks \/ Drain \/ DrainReturn
  PROVE  TypeInv'
<1> USE LimitsAssumption, BoundAssumption DEF TypeInv, Drainers
<1>1. CASE WorkerCheck
  <2>1. batch' = [batch EXCEPT !["worker"] = DrainCall]
    BY <1>1 DEF WorkerCheck, CallDrain
  <2> QED
    BY <1>1, <2>1, CallDrainTyped
    DEF WorkerCheck, Goto, TypeOK, DrainCalls, ringVars, loggerVars, sinkVars
<1>2. CASE WorkerPolled
  BY <1>2 DEF WorkerPolled, Goto, TypeOK, Holding, ringVars, loggerVars, sinkVars
<1>3. CASE WorkerFinal
  <2>1. batch' = [batch EXCEPT !["worker"] = DrainCall]
    BY <1>3 DEF WorkerFinal, DrainAgain, CallDrain
  <2> QED
    BY <1>3, <2>1, CallDrainTyped
    DEF WorkerFinal, DrainAgain, Goto, TypeOK, DrainCalls, ringVars, loggerVars, sinkVars
<1>4. CASE AddSink
  <2>1. sinks' \in 0..MaxSinks /\ added' \in [Sinks -> Nat]
    <3>1. /\ Len(popped) \in Nat /\ added \in [Sinks -> Nat]
          /\ sinks \in Nat /\ sinks < MaxSinks
      BY <1>4 DEF AddSink, TypeOK
    <3>2. sinks' = sinks + 1 /\ added' = [added EXCEPT ![sinks + 1] = Len(popped)]
      BY <1>4 DEF AddSink
    <3>3. sinks + 1 \in 0..MaxSinks
      BY <3>1
    <3>4. [added EXCEPT ![sinks + 1] = Len(popped)] \in [Sinks -> Nat]
      BY <3>1
    <3> QED BY <3>2, <3>3, <3>4
  <2> QED
    BY <1>4, <2>1 DEF AddSink, TypeOK, Holding, ringVars, loggerVars, drainVars
<1>5. CASE Start
  <2>1. where' \in [Drainers -> {"none", "loop", "poll", "final", "exited", "idle",
                                 "joining", "stopping", "flushing", "manual"}]
    BY <1>5 DEF Start, Goto, TypeOK
  <2> QED BY <1>5, <2>1 DEF Start, TypeOK, Holding, ringVars, loggerVars, sinkVars
<1>6. CASE Stop
  <2>1. batch' = [batch EXCEPT !["app"] = DrainCall]
    BY <1>6 DEF Stop
  <2>2. atStop' \in [accepted : SUBSET Entries, clear : SUBSET Entries]
    BY <1>6, AtStopTyped DEF Stop
  <2> QED
    BY <1>6, <2>1, <2>2, CallDrainTyped
    DEF Stop, Goto, TypeOK, DrainCalls, ringVars, loggerVars, sinkVars
<1>7. CASE Join
  <2>1. batch' = [batch EXCEPT !["app"] = DrainCall]
    BY <1>7 DEF Join, CallDrain
  <2>2. where' \in [Drainers -> {"none", "loop", "poll", "final", "exited", "idle",
                                 "joining", "stopping", "flushing", "manual"}]
    BY <1>7 DEF Join
  <2> QED
    BY <1>7, <2>1, <2>2, CallDrainTyped
    DEF Join, TypeOK, DrainCalls, ringVars, loggerVars, sinkVars
<1>8. CASE StopDrain
  <2>1. batch' = [batch EXCEPT !["app"] = DrainCall]
    BY <1>8 DEF StopDrain, DrainAgain, CallDrain
  <2> QED
    BY <1>8, <2>1, CallDrainTyped
    DEF StopDrain, DrainAgain, Goto, TypeOK, DrainCalls, ringVars, loggerVars, sinkVars
<1>9. CASE FlushSinks
  <2>1. flushed' \in [Sinks -> Nat]
    BY <1>9 DEF FlushSinks, TypeOK
  <2> QED BY <1>9, <2>1 DEF FlushSinks, Goto, TypeOK, Holding, ringVars, loggerVars
<1>10. CASE Drain
  <2>1. batch' = [batch EXCEPT !["app"] = DrainCall]
    BY <1>10 DEF Drain, CallDrain
  <2>2. starts' \in 0..MaxStarts
    BY <1>10, LimitsAssumption DEF Drain, TypeOK
  <2> QED
    BY <1>10, <2>1, <2>2, CallDrainTyped
    DEF Drain, Goto, TypeOK, DrainCalls, ringVars, loggerVars, sinkVars
<1>11. CASE DrainReturn
  BY <1>11 DEF DrainReturn, Goto, TypeOK, Holding, ringVars, loggerVars, sinkVars
<1> QED
  BY <1>1, <1>2, <1>3, <1>4, <1>5, <1>6, <1>7, <1>8, <1>9, <1>10, <1>11

\* The steps of Next, as the lemmas of this module group them.
LEMMA NextSteps ==
  Next =>
    \/ \E l \in Loggers : PushClaim(l) \/ PushPublish(l) \/ PushFull(l)
    \/ \E d \in Drainers : DrainPop(d) \/ DispatchWrite(d) \/ DispatchReturn(d)
    \/ WorkerCheck \/ WorkerPolled \/ WorkerFinal \/ AddSink \/ Start \/ Stop
    \/ Join \/ StopDrain \/ FlushSinks \/ Drain \/ DrainReturn
BY DEF Next, Worker, App, StopSteps, Logging, Drainers

\* Every step keeps the types.
LEMMA NextTyped == TypeInv /\ [Next]_vars => TypeInv'
<1>1. TypeInv /\ UNCHANGED vars => TypeInv'
  BY DEF vars, ringVars, loggerVars, sinkVars, drainVars, TypeInv, TypeOK, Holding
<1> QED BY <1>1, NextSteps, LoggingTyped, DrainTyped, ControlTyped

\* The ring never exceeds its size, a batch never its limit, and only entries
\* that were pushed are dispatched, written or accounted for.
THEOREM BackendTypeCorrect == Spec => []TypeOK
<1>1. TypeInv => TypeOK
  BY DEF TypeInv
<1> QED BY <1>1, InitTyped, NextTyped, PTL DEF Spec

-----------------------------------------------------------------------------
(***************************************************************************)
(* One consumer at a time.                                                 *)
(***************************************************************************)
\* A step that changes neither the phases nor the batches.
LEMMA PhaseFrame ==
  ASSUME PhaseInv, UNCHANGED <<where, running, batch>>
  PROVE  PhaseInv'
BY DEF PhaseInv, Holding, InDrain

\* TryPush does not touch the consumers.
LEMMA LoggingFrame ==
  ASSUME NEW l \in Loggers, PushClaim(l) \/ PushPublish(l) \/ PushFull(l)
  PROVE  /\ UNCHANGED <<popped, sinks, written, flushed, added, running, where, batch,
                        atStop>>
         /\ (PushFull(l) => UNCHANGED cells)
BY DEF PushClaim, PushPublish, PushFull, Ring!Claim, Ring!Publish, ringVars,
       sinkVars, drainVars

\* Only a thread inside Drain holds an entry, and a step of Drain or Dispatch
\* moves no thread.
LEMMA DrainPhase ==
  ASSUME TypeInv, PhaseInv, NEW d \in Drainers,
         DrainPop(d) \/ DispatchWrite(d) \/ DispatchReturn(d)
  PROVE  /\ PhaseInv'
         /\ UNCHANGED <<where, running, sinks>>
         /\ \A c \in Drainers : c # d => batch'[c] = batch[c] /\ ~Holding(c)
<1>1. UNCHANGED <<where, running, sinks>> /\ InDrain(d)
  BY DEF DrainPop, DispatchWrite, DispatchReturn, sinkVars, PhaseInv, Holding
<1>2. \A c \in Drainers : c # d => batch'[c] = batch[c]
  BY DEF DrainPop, DispatchWrite, DispatchReturn, TypeInv, TypeOK
<1>3. \A c \in Drainers : c # d => ~InDrain(c)
  BY <1>1 DEF PhaseInv, InDrain, Drainers
<1>4. \A c \in Drainers : Holding(c)' => InDrain(c)'
  BY <1>1, <1>2 DEF PhaseInv, Holding, InDrain
<1> QED BY <1>1, <1>2, <1>3, <1>4 DEF PhaseInv

\* A step outside Drain that starts or ends a call of Drain happens with no
\* entry in the caller's hands, before and after.
LEMMA ControlBatch ==
  ASSUME TypeInv, PhaseInv,
         \/ WorkerCheck \/ WorkerPolled \/ WorkerFinal \/ AddSink \/ Start \/ Stop
         \/ Join \/ StopDrain \/ FlushSinks \/ Drain \/ DrainReturn,
         NEW c \in Drainers
  PROVE  /\ Holding(c)' <=> Holding(c)
         /\ Holding(c) => batch'[c] = batch[c]
<1> SUFFICES ASSUME batch' # batch
             PROVE  /\ Holding(c)' <=> Holding(c)
                    /\ Holding(c) => batch'[c] = batch[c]
  BY DEF Holding
<1>1. PICK d \in Drainers : batch' = [batch EXCEPT ![d] = DrainCall] /\ ~Holding(d)
  BY DEF WorkerCheck, WorkerPolled, WorkerFinal, AddSink, Start, Stop, Join, StopDrain,
         FlushSinks, Drain, DrainReturn, DrainAgain, DrainEnds, CallDrain, PhaseInv,
         Holding, InDrain, Drainers, drainVars
<1>2. /\ \A b \in Drainers : b # d => batch'[b] = batch[b]
      /\ ~Holding(d)'
  BY <1>1, CallDrainTyped
<1> QED BY <1>1, <1>2 DEF Holding

\* Each step of the worker's loop and of the application keeps the phases in
\* step.
LEMMA ControlPhase ==
  ASSUME TypeInv, PhaseInv,
         \/ WorkerCheck \/ WorkerPolled \/ WorkerFinal \/ AddSink \/ Start \/ Stop
         \/ Join \/ StopDrain \/ FlushSinks \/ Drain \/ DrainReturn
  PROVE  PhaseInv'
<1>0. DOMAIN where = {"worker", "app"}
  BY DEF TypeInv, TypeOK, Drainers
<1>1. \A c \in Drainers : Holding(c)' => Holding(c)
  BY ControlBatch
<1>2. \A c \in Drainers : Holding(c) => InDrain(c)
  BY DEF PhaseInv
<1> SUFFICES
      /\ where'["worker"] \in {"none", "loop", "poll", "final", "exited"}
      /\ where'["app"] \in {"idle", "joining", "stopping", "flushing", "manual"}
      /\ where'["app"] \in {"stopping", "flushing", "manual"} =>
            where'["worker"] = "none"
      /\ where'["app"] = "idle" /\ ~running' => where'["worker"] = "none"
      /\ \A c \in Drainers : Holding(c) => InDrain(c)'
  BY <1>1 DEF PhaseInv
<1> USE <1>0, <1>2 DEF PhaseInv, InDrain, Drainers
<1>3. CASE WorkerCheck
  BY <1>3 DEF WorkerCheck, Goto
<1>4. CASE WorkerPolled
  BY <1>4 DEF WorkerPolled, Goto, DrainEnds, Holding
<1>5. CASE WorkerFinal
  BY <1>5 DEF WorkerFinal, DrainAgain, DrainEnds, Goto, Holding
<1>6. CASE AddSink
  BY <1>6 DEF AddSink, drainVars
<1>7. CASE Start
  BY <1>7 DEF Start, Goto
<1>8. CASE Stop
  BY <1>8 DEF Stop, Goto, joinable
<1>9. CASE Join
  BY <1>9 DEF Join
<1>10. CASE StopDrain
  BY <1>10 DEF StopDrain, DrainAgain, DrainEnds, Goto, Holding
<1>11. CASE FlushSinks
  BY <1>11 DEF FlushSinks, Goto
<1>12. CASE Drain
  BY <1>12 DEF Drain, Goto, joinable
<1>13. CASE DrainReturn
  BY <1>13 DEF DrainReturn, DrainEnds, Goto, Holding
<1> QED
  BY <1>3, <1>4, <1>5, <1>6, <1>7, <1>8, <1>9, <1>10, <1>11, <1>12, <1>13

\* Initially the worker does not exist and the application does nothing.
LEMMA InitPhase == Init => PhaseInv
<1> SUFFICES ASSUME Init PROVE PhaseInv
  OBVIOUS
<1>1. where["worker"] = "none" /\ where["app"] = "idle"
  BY DEF Init
<1>2. \A d \in Drainers : ~Holding(d)
  BY DEF Init, DrainCall, Holding
<1> QED BY <1>1, <1>2 DEF PhaseInv

\* The phases stay in step.
LEMMA NextPhase == TypeInv /\ PhaseInv /\ [Next]_vars => PhaseInv'
<1> SUFFICES ASSUME TypeInv, PhaseInv, [Next]_vars PROVE PhaseInv'
  OBVIOUS
<1>1. ASSUME NEW l \in Loggers, PushClaim(l) \/ PushPublish(l) \/ PushFull(l)
      PROVE  PhaseInv'
  BY <1>1, LoggingFrame, PhaseFrame
<1>2. CASE UNCHANGED vars
  BY <1>2, PhaseFrame DEF vars, drainVars
<1> QED BY <1>1, <1>2, NextSteps, DrainPhase, ControlPhase

\* TryPop and the sinks have one caller at a time, and Start never replaces a
\* thread that was not joined, whatever the order of the application's calls.
THEOREM SingleConsumerCorrect == Spec => []SingleConsumer
<1>1. TypeInv /\ PhaseInv => SingleConsumer
  BY DEF PhaseInv, SingleConsumer, InDrain, joinable
<1>2. TypeInv /\ PhaseInv /\ [Next]_vars => TypeInv' /\ PhaseInv'
  BY NextTyped, NextPhase
<1> QED BY <1>1, <1>2, InitTyped, InitPhase, PTL DEF Spec

-----------------------------------------------------------------------------
(***************************************************************************)
(* Every sink receives every entry.                                        *)
(***************************************************************************)
\* The part of a history after its first a elements grows with the history.
LEMMA SuffixAppend ==
  ASSUME NEW S, NEW p \in Seq(S), NEW e \in S, NEW a \in 0..Len(p)
  PROVE  /\ SubSeq(Append(p, e), a + 1, Len(p) + 1)
               = Append(SubSeq(p, a + 1, Len(p)), e)
         /\ SubSeq(p, a + 1, Len(p)) \in Seq(S)
<1> DEFINE n == Len(p)
           q == Append(p, e)
           u == SubSeq(q, a + 1, n + 1)
           v == SubSeq(p, a + 1, n)
<1>1. /\ n \in Nat /\ a \in Nat /\ a <= n
      /\ q \in Seq(S) /\ Len(q) = n + 1
      /\ \A i \in 1..n : q[i] = p[i] /\ p[i] \in S
      /\ q[n + 1] = e
  OBVIOUS
<1> HIDE DEF n, q
<1>2. /\ u \in Seq(S) /\ Len(u) = n + 1 - a
      /\ \A i \in 1..(n + 1 - a) : u[i] = q[a + i]
  <2>1. \A i \in (a + 1)..(n + 1) : q[i] \in S
    BY <1>1
  <2> QED BY <1>1, <2>1, SubSeqProperties
<1>3. /\ v \in Seq(S) /\ Len(v) = n - a
      /\ \A i \in 1..(n - a) : v[i] = p[a + i]
  <2>1. \A i \in (a + 1)..n : p[i] \in S
    BY <1>1
  <2> QED BY <1>1, <2>1, SubSeqProperties
<1> HIDE DEF u, v
<1>4. /\ Append(v, e) \in Seq(S) /\ Len(Append(v, e)) = n - a + 1
      /\ \A i \in 1..(n - a) : Append(v, e)[i] = v[i]
      /\ Append(v, e)[n - a + 1] = e
  BY <1>1, <1>3
<1>5. \A i \in 1..(n + 1 - a) : u[i] = Append(v, e)[i]
  <2> SUFFICES ASSUME NEW i \in 1..(n + 1 - a) PROVE u[i] = Append(v, e)[i]
    OBVIOUS
  <2>1. CASE i \in 1..(n - a)
    <3>1. a + i \in 1..n
      BY <1>1, <2>1
    <3> QED BY <1>1, <1>2, <1>3, <1>4, <2>1, <3>1
  <2>2. CASE i = n - a + 1
    <3>1. a + i = n + 1
      BY <1>1, <2>2
    <3> QED BY <1>1, <1>2, <1>4, <2>2, <3>1
  <2>3. i \in 1..(n - a) \/ i = n - a + 1
    BY <1>1
  <2> QED BY <2>1, <2>2, <2>3
<1>6. Len(u) = Len(Append(v, e))
  BY <1>1, <1>2, <1>4
<1>7. u = Append(v, e)
  BY <1>2, <1>4, <1>5, <1>6, SeqEqual
<1> QED BY <1>3, <1>7 DEF u, v, q, n

\* A step that changes neither the histories nor what is in hand.
LEMMA SinksFrame ==
  ASSUME SinksInv, UNCHANGED <<popped, sinks, written, added>>,
         \A c \in Drainers : /\ Holding(c)' <=> Holding(c)
                             /\ Holding(c) => batch'[c] = batch[c]
  PROVE  SinksInv'
<1>1. \A c \in Drainers : \A s : Due(c, s)' <=> Due(c, s)
  BY DEF Due, Holding
<1>2. \A s : Owed(s)' = Owed(s)
  BY DEF Owed
<1>3. /\ \A s \in Sinks : s > sinks' => written'[s] = << >>
      /\ \A s \in 1..sinks' : added'[s] <= Len(popped')
  BY DEF SinksInv
<1>4. \A s \in 1..sinks' :
         /\ (\A d \in Drainers : ~Due(d, s)') => written'[s] = Owed(s)'
         /\ \A d \in Drainers :
               Due(d, s)' => Append(written'[s], batch'[d].entry) = Owed(s)'
  BY <1>1, <1>2 DEF SinksInv, Due
<1>5. \A d \in Drainers : Holding(d)' =>
          /\ popped' # << >>
          /\ popped'[Len(popped')] = batch'[d].entry
          /\ \A s \in 1..sinks' : added'[s] < Len(popped')
  BY DEF SinksInv
<1> QED BY <1>3, <1>4, <1>5 DEF SinksInv

\* Popping an entry makes it due at every sink.
LEMMA DrainPopSinks ==
  ASSUME TypeInv, PhaseInv, SinksInv, NEW d \in Drainers, DrainPop(d)
  PROVE  SinksInv'
<1> DEFINE e == Head(cells).item
<1>1. UNCHANGED <<sinks, written, added>> /\ ~Holding(d)
  BY DEF DrainPop, sinkVars, Holding
<1>2. /\ e \in Entries /\ popped \in Seq(Entries) /\ popped' \in Seq(Entries)
      /\ popped' = Append(popped, e) /\ Len(popped') = Len(popped) + 1
      /\ popped'[Len(popped')] = e /\ Len(popped) \in Nat
  BY PopTyped DEF DrainPop, TypeInv, TypeOK
<1>3. \A c \in Drainers : ~Holding(c)
  BY <1>1, DrainPhase
<1>4. /\ batch'[d].entry = e /\ batch'[d].sink = 1
      /\ \A c \in Drainers : c # d => batch'[c] = batch[c]
  <2>1. batch[d] \in DrainCalls
    BY DEF TypeInv, TypeOK, DrainCalls
  <2>2. Taken(batch[d], e).entry = e /\ Taken(batch[d], e).sink = 1
    BY <1>2, <2>1, UpdateFields
  <2>3. batch' = [batch EXCEPT ![d] = Taken(batch[d], e)]
    BY DrainBatch
  <2> QED BY <2>2, <2>3 DEF TypeInv, TypeOK
<1> HIDE DEF e
<1>5. e # NoEntry
  BY <1>2, NoEntryAssumption DEF Entries
<1>6. \A c \in Drainers : Holding(c)' <=> c = d
  BY <1>3, <1>4, <1>5 DEF Holding
<1>7. \A s \in 1..sinks : /\ added[s] \in 0..Len(popped)
                          /\ Owed(s)' = Append(Owed(s), e)
                          /\ written[s] = Owed(s)
  <2> SUFFICES ASSUME NEW s \in 1..sinks
               PROVE  /\ added[s] \in 0..Len(popped)
                      /\ Owed(s)' = Append(Owed(s), e)
                      /\ written[s] = Owed(s)
    OBVIOUS
  <2>1. added[s] \in 0..Len(popped)
    <3>1. s \in Sinks
      BY LimitsAssumption DEF TypeInv, TypeOK, Sinks
    <3>2. added[s] \in Nat /\ added[s] <= Len(popped)
      BY <3>1 DEF TypeInv, TypeOK, SinksInv
    <3> QED BY <1>2, <3>2
  <2>2. Owed(s)' = Append(Owed(s), e)
    <3>1. Owed(s)' = SubSeq(popped', added[s] + 1, Len(popped'))
      BY <1>1 DEF Owed
    <3>2. SubSeq(Append(popped, e), added[s] + 1, Len(popped) + 1)
            = Append(SubSeq(popped, added[s] + 1, Len(popped)), e)
      <4>1. popped \in Seq(Entries) /\ e \in Entries
        BY <1>2
      <4> DEFINE a == added[s]
                 q == popped
      <4>2. a \in 0..Len(q)
        BY <2>1
      <4> HIDE DEF a
      <4> QED BY <4>1, <4>2, SuffixAppend DEF a
    <3> QED BY <1>2, <3>1, <3>2 DEF Owed
  <2>3. written[s] = Owed(s)
    BY <1>3 DEF SinksInv, Due
  <2> QED BY <2>1, <2>2, <2>3
<1>8. \A s \in 1..sinks : Due(d, s)'
  BY <1>1, <1>4, <1>6 DEF Due, TypeInv, TypeOK
<1>9. /\ \A s \in Sinks : s > sinks' => written'[s] = << >>
      /\ \A s \in 1..sinks' : added'[s] <= Len(popped')
      /\ \A s \in 1..sinks' : added'[s] < Len(popped')
  BY <1>1, <1>2, <1>7 DEF SinksInv
<1>10. \A s \in 1..sinks' :
         /\ ~(\A c \in Drainers : ~Due(c, s)')
         /\ \A c \in Drainers :
               Due(c, s)' => Append(written'[s], batch'[c].entry) = Owed(s)'
  BY <1>1, <1>4, <1>6, <1>7, <1>8 DEF Due
<1>11. popped' # << >>
  BY <1>2
<1> QED BY <1>2, <1>4, <1>6, <1>9, <1>10, <1>11 DEF SinksInv

\* Dispatch hands the entry to one sink, where it is no longer due.
LEMMA DispatchWriteSinks ==
  ASSUME TypeInv, PhaseInv, SinksInv, NEW d \in Drainers, DispatchWrite(d)
  PROVE  SinksInv'
<1> DEFINE t == batch[d].sink
           e == batch[d].entry
<1>1. /\ UNCHANGED <<sinks, added, popped>> /\ Holding(d) /\ t <= sinks
      /\ written' = [written EXCEPT ![t] = Append(written[t], e)]
      /\ DOMAIN written = Sinks
  BY DEF DispatchWrite, Holding, ringVars, TypeInv, TypeOK
<1>2. t \in Nat \ {0} /\ t \in 1..sinks /\ t \in Sinks /\ sinks \in Nat
  <2>1. t \in Nat \ {0} /\ sinks \in 0..MaxSinks
    BY DEF TypeInv, TypeOK
  <2> HIDE DEF t
  <2> QED BY <1>1, <2>1, LimitsAssumption DEF Sinks
<1>3. \A c \in Drainers : c # d => ~Holding(c) /\ batch'[c] = batch[c]
  BY DrainPhase
<1>4. batch'[d].entry = e /\ batch'[d].sink = t + 1
  <2>1. batch[d] \in DrainCalls
    BY DEF TypeInv, TypeOK, DrainCalls
  <2>2. Handed(batch[d]).entry = e /\ Handed(batch[d]).sink = t + 1
    BY <2>1, UpdateFields
  <2>3. batch' = [batch EXCEPT ![d] = Handed(batch[d])]
    BY DrainBatch
  <2> QED BY <2>2, <2>3 DEF TypeInv, TypeOK
<1> HIDE DEF t, e
<1>5. \A c \in Drainers : Holding(c)' <=> c = d
  BY <1>1, <1>3, <1>4 DEF Holding, e
<1>6. \A s \in 1..sinks : Due(d, s)' <=> Due(d, s) /\ s # t
  BY <1>1, <1>2, <1>4, <1>5 DEF Due, t
<1>7. Due(d, t) /\ \A c \in Drainers : \A s : c # d => ~Due(c, s) /\ ~Due(c, s)'
  BY <1>1, <1>2, <1>3, <1>5 DEF Due, t
<1>8. \A s : Owed(s)' = Owed(s)
  BY <1>1 DEF Owed
<1>9. \A s \in 1..sinks :
         /\ (\A c \in Drainers : ~Due(c, s)') => written'[s] = Owed(s)'
         /\ \A c \in Drainers :
               Due(c, s)' => Append(written'[s], batch'[c].entry) = Owed(s)'
  <2> SUFFICES ASSUME NEW s \in 1..sinks
               PROVE  /\ ~Due(d, s)' => written'[s] = Owed(s)'
                      /\ Due(d, s)' => Append(written'[s], e) = Owed(s)'
    BY <1>4, <1>7
  <2>0. s \in Sinks
    BY <1>2, LimitsAssumption DEF TypeInv, TypeOK, Sinks
  <2>1. CASE s = t
    <3>1. written'[t] = Append(written[t], e)
      BY <1>1, <1>2
    <3>2. Append(written[t], e) = Owed(t)
      BY <1>2, <1>7 DEF SinksInv, e
    <3> QED BY <1>6, <1>8, <2>1, <3>1, <3>2
  <2>2. CASE s # t
    <3>1. written'[s] = written[s]
      BY <1>1, <2>0, <2>2
    <3>2. Due(d, s)' <=> Due(d, s)
      BY <1>6, <2>2
    <3>3. /\ ~Due(d, s) => written[s] = Owed(s)
          /\ Due(d, s) => Append(written[s], e) = Owed(s)
      BY <1>7 DEF SinksInv, e
    <3> QED BY <1>8, <3>1, <3>2, <3>3
  <2> QED BY <2>1, <2>2
<1>10. \A s \in Sinks : s > sinks' => written'[s] = << >>
  <2>1. \A s \in Sinks : s > sinks => s # t /\ written[s] = << >>
    BY <1>2 DEF SinksInv, Sinks
  <2> QED BY <1>1, <2>1
<1>11. \A c \in Drainers : Holding(c)' =>
          /\ popped' # << >>
          /\ popped'[Len(popped')] = batch'[c].entry
          /\ \A s \in 1..sinks' : added'[s] < Len(popped')
  BY <1>1, <1>4, <1>5 DEF SinksInv, e
<1>12. \A s \in 1..sinks' : added'[s] <= Len(popped')
  BY <1>1 DEF SinksInv
<1> QED BY <1>1, <1>9, <1>10, <1>11, <1>12 DEF SinksInv

\* Dispatch returns when the entry is due nowhere any more.
LEMMA DispatchReturnSinks ==
  ASSUME TypeInv, PhaseInv, SinksInv, NEW d \in Drainers, DispatchReturn(d)
  PROVE  SinksInv'
<1>1. /\ UNCHANGED <<sinks, added, popped, written>> /\ Holding(d)
      /\ batch[d].sink > sinks
  BY DEF DispatchReturn, Holding, ringVars, sinkVars
<1>2. \A c \in Drainers : c # d => ~Holding(c) /\ batch'[c] = batch[c]
  BY DrainPhase
<1>3. ~Holding(d)'
  BY DEF DispatchReturn, Holding, TypeInv, TypeOK
<1>4. \A c \in Drainers : ~Holding(c)' /\ \A s \in 1..sinks : ~Due(c, s)
  <2>1. batch[d].sink \in Nat /\ sinks \in Nat
    BY DEF TypeInv, TypeOK
  <2> QED BY <1>1, <1>2, <1>3, <2>1 DEF Due, Holding
<1>5. \A s : Owed(s)' = Owed(s)
  BY <1>1 DEF Owed
<1>6. \A s \in 1..sinks' : written'[s] = Owed(s)'
  BY <1>1, <1>4, <1>5 DEF SinksInv
<1>7. /\ \A s \in Sinks : s > sinks' => written'[s] = << >>
      /\ \A s \in 1..sinks' : added'[s] <= Len(popped')
  BY <1>1 DEF SinksInv
<1> QED BY <1>4, <1>6, <1>7 DEF SinksInv, Due

\* A sink that is added owes nothing of the past, and no entry is in hand.
LEMMA AddSinkSinks ==
  ASSUME TypeInv, PhaseInv, SinksInv, AddSink
  PROVE  SinksInv'
<1>1. /\ UNCHANGED <<written, popped, batch>> /\ sinks' = sinks + 1
      /\ added' = [added EXCEPT ![sinks + 1] = Len(popped)]
  BY DEF AddSink, ringVars, drainVars
<1>2. /\ sinks \in Nat /\ sinks + 1 \in Sinks /\ Len(popped) \in Nat
      /\ added \in [Sinks -> Nat] /\ \A s \in 1..sinks : s \in Sinks
  <2>1. /\ sinks \in 0..MaxSinks /\ sinks < MaxSinks /\ added \in [Sinks -> Nat]
        /\ popped \in Seq(Entries)
    BY DEF AddSink, TypeInv, TypeOK
  <2>2. sinks \in Nat /\ sinks + 1 \in Sinks /\ \A s \in 1..sinks : s \in Sinks
    BY <2>1, LimitsAssumption DEF Sinks
  <2>3. Len(popped) \in Nat
    BY <2>1
  <2> QED BY <2>1, <2>2, <2>3
<1>3. \A c \in Drainers : ~Holding(c) /\ ~Holding(c)'
  <2>1. \A c \in Drainers : ~InDrain(c)
    BY DEF AddSink, PhaseInv, InDrain, Drainers
  <2> QED BY <1>1, <2>1 DEF PhaseInv, Holding
<1>4. \A s \in 1..sinks : added'[s] = added[s] /\ Owed(s)' = Owed(s)
  <2> SUFFICES ASSUME NEW s \in 1..sinks
               PROVE  added'[s] = added[s] /\ Owed(s)' = Owed(s)
    OBVIOUS
  <2>1. s \in Sinks /\ s # sinks + 1
    BY <1>2
  <2>2. added'[s] = added[s]
    BY <1>1, <1>2, <2>1
  <2> QED BY <1>1, <2>2 DEF Owed
<1>5. ASSUME NEW s, s = sinks + 1
      PROVE  added'[s] = Len(popped) /\ Owed(s)' = << >>
  <2>1. added'[s] = Len(popped)
    BY <1>1, <1>2, <1>5
  <2>2. SubSeq(popped, Len(popped) + 1, Len(popped)) = << >>
    BY <1>2, SubSeqEmpty
  <2> QED BY <1>1, <2>1, <2>2 DEF Owed
<1>6. \A s \in 1..sinks' : written'[s] = Owed(s)' /\ added'[s] <= Len(popped')
  <2> SUFFICES ASSUME NEW s \in 1..(sinks + 1)
               PROVE  written[s] = Owed(s)' /\ added'[s] <= Len(popped)
    BY <1>1
  <2>1. CASE s = sinks + 1
    <3>1. written[s] = << >>
      BY <1>2, <2>1 DEF SinksInv
    <3> QED BY <1>2, <1>5, <2>1, <3>1
  <2>2. CASE s # sinks + 1
    <3>1. s \in 1..sinks
      BY <1>2, <2>2
    <3> QED BY <1>3, <1>4, <3>1 DEF SinksInv, Due
  <2> QED BY <2>1, <2>2
<1>7. \A s \in Sinks : s > sinks' => written'[s] = << >>
  BY <1>1, <1>2 DEF SinksInv, Sinks
<1> QED BY <1>3, <1>6, <1>7 DEF SinksInv, Due

\* Initially no sink exists and no entry is in hand.
LEMMA InitSinks == Init => SinksInv
<1> SUFFICES ASSUME Init PROVE SinksInv
  OBVIOUS
<1>1. sinks = 0 /\ \A d \in Drainers : ~Holding(d)
  BY DEF Init, DrainCall, Holding
<1>2. \A s \in Sinks : written[s] = << >>
  BY DEF Init
<1> QED BY <1>1, <1>2 DEF SinksInv

\* Every step keeps what the sinks have received right.
LEMMA NextSinks == TypeInv /\ PhaseInv /\ SinksInv /\ [Next]_vars => SinksInv'
<1> SUFFICES ASSUME TypeInv, PhaseInv, SinksInv, [Next]_vars PROVE SinksInv'
  OBVIOUS
<1>1. ASSUME NEW l \in Loggers, PushClaim(l) \/ PushPublish(l) \/ PushFull(l)
      PROVE  SinksInv'
  BY <1>1, LoggingFrame, SinksFrame DEF Holding
<1>2. ASSUME NEW d \in Drainers, DrainPop(d) \/ DispatchWrite(d) \/ DispatchReturn(d)
      PROVE  SinksInv'
  BY <1>2, DrainPopSinks, DispatchWriteSinks, DispatchReturnSinks
<1>3. CASE \/ WorkerCheck \/ WorkerPolled \/ WorkerFinal \/ Start \/ Stop
           \/ Join \/ StopDrain \/ FlushSinks \/ Drain \/ DrainReturn
  <2>1. UNCHANGED <<popped, sinks, written, added>>
    BY <1>3 DEF WorkerCheck, WorkerPolled, WorkerFinal, Start, Stop, Join, StopDrain,
                FlushSinks, Drain, DrainReturn, DrainAgain, ringVars, sinkVars
  <2> QED BY <1>3, <2>1, ControlBatch, SinksFrame
<1>4. CASE AddSink
  BY <1>4, AddSinkSinks
<1>5. CASE UNCHANGED vars
  BY <1>5, SinksFrame DEF vars, ringVars, sinkVars, drainVars, Holding
<1> QED BY <1>1, <1>2, <1>3, <1>4, <1>5, NextSteps

\* The three parts of the invariant hold together.
LEMMA DeliveryInvariant == Spec => [](TypeInv /\ PhaseInv /\ SinksInv)
<1>1. TypeInv /\ PhaseInv /\ SinksInv /\ [Next]_vars => TypeInv' /\ PhaseInv' /\ SinksInv'
  BY NextTyped, NextPhase, NextSinks
<1> QED BY <1>1, InitTyped, InitPhase, InitSinks, PTL DEF Spec

\* Each sink has received, in order and once, exactly the entries popped since
\* it was added, whichever threads drained them, but for the one in hand.
THEOREM EverySinkEveryEntryCorrect == Spec => []EverySinkEveryEntry
<1>1. TypeInv /\ PhaseInv /\ SinksInv => EverySinkEveryEntry
  <2> SUFFICES ASSUME TypeInv, SinksInv, NEW s \in 1..sinks
               PROVE  LET due == {d \in Drainers : Due(d, s)}
                          inHand == IF due = {} THEN << >>
                                    ELSE <<batch[CHOOSE d \in due : TRUE].entry>>
                      IN  written[s] \o inHand = Owed(s)
    BY DEF EverySinkEveryEntry, Due, Holding, Owed
  <2> DEFINE due == {d \in Drainers : Due(d, s)}
             c == CHOOSE d \in due : TRUE
  <2>0. written[s] \in Seq(Entries)
    <3>1. s \in Sinks
      BY LimitsAssumption DEF TypeInv, TypeOK, Sinks
    <3> QED BY <3>1 DEF TypeInv, TypeOK
  <2>1. CASE due = {}
    <3>1. written[s] = Owed(s)
      BY <2>1 DEF SinksInv
    <3>2. written[s] \o << >> = written[s]
      BY <2>0, ConcatEmptySeq
    <3> QED BY <2>1, <3>1, <3>2
  <2>2. CASE due # {}
    <3>1. c \in due
      BY <2>2
    <3> HIDE DEF c
    <3>2. c \in Drainers /\ Due(c, s)
      BY <3>1
    <3>3. Append(written[s], batch[c].entry) = Owed(s)
      BY <3>2 DEF SinksInv
    <3>4. batch[c].entry \in Entries
      BY <3>2 DEF Due, Holding, TypeInv, TypeOK
    <3>5. written[s] \o <<batch[c].entry>> = Owed(s)
      BY <2>0, <3>3, <3>4, AppendIsConcat
    <3> QED BY <2>2, <3>5 DEF c
  <2> QED BY <2>1, <2>2
<1> QED BY <1>1, DeliveryInvariant, PTL

-----------------------------------------------------------------------------
(***************************************************************************)
(* Stop delivers what it owes.                                             *)
(***************************************************************************)
\* A step of Stop or beside it that loses nothing: what was received stays
\* received, what is due is received or stays due, what is clear in the ring
\* stays clear or becomes due at every sink.
LEMMA StopCarry ==
  ASSUME StopInv, UNCHANGED <<atStop, sinks>>,
         where'["app"] \in {"joining", "stopping"} =>
            where["app"] \in {"joining", "stopping"},
         where'["app"] = "flushing" => where["app"] = "flushing",
         \A e : \A s \in 1..sinks : Received(s, e) => Received(s, e)',
         \A e : \A s \in 1..sinks :
            (\E d \in Drainers : Due(d, s) /\ batch[d].entry = e) =>
                \/ Received(s, e)'
                \/ \E d \in Drainers : Due(d, s)' /\ batch'[d].entry = e,
         \A e \in Clear : \A s \in 1..sinks :
            \/ e \in Clear'
            \/ \E d \in Drainers : Due(d, s)' /\ batch'[d].entry = e
  PROVE  StopInv'
<1>1. ASSUME where'["app"] \in {"joining", "stopping"},
             NEW e \in atStop.clear, NEW s \in 1..sinks
      PROVE  \/ Received(s, e)'
             \/ \E d \in Drainers : Due(d, s)' /\ batch'[d].entry = e
             \/ e \in Clear'
  <2>1. \/ Received(s, e)
        \/ \E d \in Drainers : Due(d, s) /\ batch[d].entry = e
        \/ e \in Clear
    BY <1>1 DEF StopInv
  <2> QED BY <2>1
<1>2. ASSUME where'["app"] = "flushing", NEW e \in atStop.clear, NEW s \in 1..sinks
      PROVE  Received(s, e)'
  BY <1>2 DEF StopInv
<1> QED BY <1>1, <1>2 DEF StopInv

\* An entry is clear in the ring at some place k, with no unpublished cell up
\* to there.
LEMMA ClearView ==
  ASSUME cells \in Seq(Ring!Cells)
  PROVE  \A e : e \in Clear <=> \E k \in 1..Len(cells) :
                    cells[k].item = e /\ \A i \in 1..k : cells[i].ready
<1>1. DOMAIN cells = 1..Len(cells)
  OBVIOUS
<1> QED BY <1>1 DEF Clear

\* Publishing and claiming cells leaves what is clear in the ring clear.
LEMMA ClearGrows ==
  ASSUME TypeInv, NEW l \in Loggers, PushClaim(l) \/ PushPublish(l) \/ PushFull(l)
  PROVE  Clear \subseteq Clear'
<1>0. cells \in Seq(Ring!Cells) /\ Len(cells) \in Nat
  BY DEF TypeInv, TypeOK
<1> SUFFICES ASSUME NEW e \in Clear PROVE e \in Clear'
  OBVIOUS
<1>1. PICK k \in 1..Len(cells) : cells[k].item = e /\ \A i \in 1..k : cells[i].ready
  BY <1>0, ClearView
<1> SUFFICES /\ k \in DOMAIN cells'
             /\ cells'[k].item = e
             /\ \A i \in 1..k : cells'[i].ready
  BY DEF Clear
<1>2. CASE PushClaim(l)
  <2>1. PICK c : cells' = Append(cells, c)
    BY <1>2 DEF PushClaim, Ring!Claim
  <2>2. \A i \in 1..k : i \in 1..Len(cells)
    BY <1>0
  <2>3. DOMAIN cells' = 1..(Len(cells) + 1) /\ \A i \in 1..Len(cells) : cells'[i] = cells[i]
    BY <1>0, <2>1
  <2> QED BY <1>0, <1>1, <2>2, <2>3
<1>3. CASE PushPublish(l)
  <2>1. PICK j \in DOMAIN cells : Ring!Publish(j)
    BY <1>3 DEF PushPublish
  <2>2. /\ cells' \in Seq(Ring!Cells) /\ Len(cells') = Len(cells)
        /\ \A i \in 1..Len(cells) : /\ cells'[i].item = cells[i].item
                                    /\ cells[i].ready => cells'[i].ready
    BY <1>0, <2>1, PublishTyped
  <2>3. \A i \in 1..k : i \in 1..Len(cells)
    BY <1>0
  <2>4. DOMAIN cells' = 1..Len(cells)
    BY <2>2
  <2> QED BY <1>1, <2>2, <2>3, <2>4
<1>4. CASE PushFull(l)
  <2>1. cells' = cells
    BY <1>4, LoggingFrame
  <2> QED BY <1>0, <1>1, <2>1
<1> QED BY <1>2, <1>3, <1>4

\* Popping takes the first clear entry in hand and leaves the others clear.
LEMMA DrainPopStop ==
  ASSUME TypeInv, PhaseInv, StopInv, NEW d \in Drainers, DrainPop(d)
  PROVE  StopInv'
<1> DEFINE h == Head(cells).item
<1>1. /\ UNCHANGED <<sinks, written, where, atStop>> /\ ~Holding(d)
  BY DEF DrainPop, sinkVars, Holding
<1>2. /\ h \in Entries /\ cells \in Seq(Ring!Cells) /\ cells' \in Seq(Ring!Cells)
      /\ Head(cells) = cells[1] /\ Len(cells) \in Nat /\ Len(cells) >= 1
      /\ Len(cells') = Len(cells) - 1
      /\ \A i \in 1..Len(cells') : cells'[i] = cells[i + 1]
  BY PopTyped DEF DrainPop, TypeInv, TypeOK
<1>3. \A c \in Drainers : ~Holding(c)
  BY <1>1, DrainPhase
<1>4. batch'[d].entry = h /\ batch'[d].sink = 1
  <2>1. batch[d] \in DrainCalls
    BY DEF TypeInv, TypeOK, DrainCalls
  <2>2. Taken(batch[d], h).entry = h /\ Taken(batch[d], h).sink = 1
    BY <1>2, <2>1, UpdateFields
  <2>3. batch' = [batch EXCEPT ![d] = Taken(batch[d], h)]
    BY DrainBatch
  <2> QED BY <2>2, <2>3 DEF TypeInv, TypeOK
<1>5. h # NoEntry
  BY <1>2, NoEntryAssumption DEF Entries
<1> HIDE DEF h
<1>6. \A s \in 1..sinks : Due(d, s)'
  BY <1>4, <1>5 DEF Due, Holding
<1>7. \A e \in Clear : e \in Clear' \/ e = h
  <2> SUFFICES ASSUME NEW e \in Clear, e # h PROVE e \in Clear'
    OBVIOUS
  <2>1. PICK k \in 1..Len(cells) : cells[k].item = e /\ \A i \in 1..k : cells[i].ready
    BY <1>2, ClearView
  <2>2. k # 1
    BY <1>2, <2>1 DEF h
  <2>3. k - 1 \in 1..Len(cells') /\ (k - 1) + 1 = k
    BY <1>2, <2>2
  <2>4. cells'[k - 1].item = e
    BY <1>2, <2>1, <2>3
  <2>5. \A i \in 1..(k - 1) : cells'[i].ready
    <3> SUFFICES ASSUME NEW i \in 1..(k - 1) PROVE cells'[i].ready
      OBVIOUS
    <3>1. i \in 1..Len(cells') /\ i + 1 \in 1..k
      BY <1>2, <2>3
    <3> QED BY <1>2, <2>1, <3>1
  <2>6. k - 1 \in DOMAIN cells'
    BY <1>2, <2>3
  <2> QED BY <2>4, <2>5, <2>6 DEF Clear
<1>8. \A s, e : Received(s, e)' <=> Received(s, e)
  BY <1>1 DEF Received
<1>9. \A c \in Drainers : \A s : ~Due(c, s)
  BY <1>3 DEF Due
<1> QED BY <1>1, <1>4, <1>6, <1>7, <1>8, <1>9, StopCarry

\* Dispatch hands the entry to one sink: there it is received now.
LEMMA DispatchWriteStop ==
  ASSUME TypeInv, PhaseInv, StopInv, NEW d \in Drainers, DispatchWrite(d)
  PROVE  StopInv'
<1> DEFINE t == batch[d].sink
           x == batch[d].entry
<1>1. /\ UNCHANGED <<sinks, cells, where, atStop>> /\ Holding(d) /\ t <= sinks
      /\ written' = [written EXCEPT ![t] = Append(written[t], x)]
  BY DEF DispatchWrite, Holding, ringVars
<1>2. /\ t \in Nat \ {0} /\ t \in Sinks /\ sinks \in Nat
      /\ \A s \in 1..sinks : s \in Sinks
      /\ x \in Entries /\ written \in [Sinks -> Seq(Entries)]
  <2>1. t \in Nat \ {0} /\ x \in Entries
    BY <1>1 DEF TypeInv, TypeOK, Holding
  <2>2. sinks \in 0..MaxSinks /\ written \in [Sinks -> Seq(Entries)]
    BY DEF TypeInv, TypeOK
  <2> HIDE DEF t, x
  <2>3. sinks \in Nat /\ t \in Sinks /\ \A s \in 1..sinks : s \in Sinks
    BY <1>1, <2>1, <2>2, LimitsAssumption DEF Sinks
  <2> QED BY <2>1, <2>2, <2>3
<1>3. \A c \in Drainers : c # d => ~Holding(c) /\ batch'[c] = batch[c]
  BY DrainPhase
<1>4. batch'[d].entry = x /\ batch'[d].sink = t + 1
  <2>1. batch[d] \in DrainCalls
    BY DEF TypeInv, TypeOK, DrainCalls
  <2>2. Handed(batch[d]).entry = x /\ Handed(batch[d]).sink = t + 1
    BY <2>1, UpdateFields
  <2>3. batch' = [batch EXCEPT ![d] = Handed(batch[d])]
    BY DrainBatch
  <2> QED BY <2>2, <2>3 DEF TypeInv, TypeOK
<1> HIDE DEF t, x
<1>5. /\ Len(written'[t]) = Len(written[t]) + 1 /\ Len(written[t]) \in Nat
      /\ \A k \in 1..Len(written[t]) : written'[t][k] = written[t][k]
      /\ written'[t][Len(written[t]) + 1] = x
      /\ \A s \in 1..sinks : s # t => written'[s] = written[s]
  <2>1. written[t] \in Seq(Entries)
    BY <1>2
  <2>2. written'[t] = Append(written[t], x)
    BY <1>1, <1>2
  <2> QED BY <1>1, <1>2, <2>1, <2>2
<1>6. \A e : \A s \in 1..sinks : Received(s, e) => Received(s, e)'
  <2> SUFFICES ASSUME NEW e, NEW s \in 1..sinks,
                      NEW k \in 1..Len(written[s]), written[s][k] = e
               PROVE  \E j \in 1..Len(written'[s]) : written'[s][j] = e
    BY DEF Received
  <2>1. CASE s = t
    BY <1>5, <2>1
  <2>2. CASE s # t
    BY <1>5, <2>2
  <2> QED BY <2>1, <2>2
<1>7. \A s \in 1..sinks : Due(d, s) => Due(d, s)' \/ Received(s, x)'
  <2> SUFFICES ASSUME NEW s \in 1..sinks, Due(d, s), s # t
               PROVE  Due(d, s)'
    <3>1. \E j \in 1..Len(written'[t]) : written'[t][j] = x
      BY <1>5
    <3>2. x' = x
      BY <1>4 DEF x
    <3> QED BY <3>1, <3>2 DEF Received
  <2> QED BY <1>1, <1>2, <1>4 DEF Due, Holding, t, x
<1>8. Clear' = Clear
  BY <1>1 DEF Clear
<1>9. \A e : \A s \in 1..sinks :
         (\E c \in Drainers : Due(c, s) /\ batch[c].entry = e) =>
             \/ Received(s, e)'
             \/ \E c \in Drainers : Due(c, s)' /\ batch'[c].entry = e
  <2> SUFFICES ASSUME NEW e, NEW s \in 1..sinks, NEW c \in Drainers,
                      Due(c, s), batch[c].entry = e
               PROVE  Received(s, e)' \/ (Due(d, s)' /\ batch'[d].entry = e)
    OBVIOUS
  <2>1. c = d /\ e = x
    BY <1>3 DEF Due, x
  <2> QED BY <1>4, <1>7, <2>1 DEF Received, x
<1> QED BY <1>1, <1>6, <1>8, <1>9, StopCarry

\* Dispatch returns when the entry is due at no sink, so nothing is lost.
LEMMA DispatchReturnStop ==
  ASSUME TypeInv, PhaseInv, StopInv, NEW d \in Drainers, DispatchReturn(d)
  PROVE  StopInv'
<1>1. /\ UNCHANGED <<sinks, cells, written, where, atStop>> /\ Holding(d)
      /\ batch[d].sink > sinks
  BY DEF DispatchReturn, Holding, ringVars, sinkVars
<1>2. \A c \in Drainers : c # d => ~Holding(c)
  BY DrainPhase
<1>3. \A c \in Drainers : \A s \in 1..sinks : ~Due(c, s)
  <2>1. batch[d].sink \in Nat /\ sinks \in Nat
    BY DEF TypeInv, TypeOK
  <2> QED BY <1>1, <1>2, <2>1 DEF Due, Holding
<1>4. Clear' = Clear /\ \A s, e : Received(s, e)' <=> Received(s, e)
  BY <1>1 DEF Clear, Received
<1> QED BY <1>1, <1>3, <1>4, StopCarry

\* When Stop is called, what is in hand has reached the sinks where it is not
\* due any more.
LEMMA StopStop ==
  ASSUME TypeInv, PhaseInv, SinksInv, Stop
  PROVE  StopInv'
<1>1. /\ UNCHANGED <<sinks, cells, written>>
      /\ atStop' = [accepted |-> Published \cup InHand, clear |-> Clear \cup InHand]
      /\ where'["app"] \in {"joining", "stopping"}
  BY DEF Stop, Goto, ringVars, sinkVars, TypeInv, TypeOK, Drainers
<1>2. \A c \in Drainers : (Holding(c)' <=> Holding(c))
                          /\ (Holding(c) => batch'[c] = batch[c])
  BY ControlBatch
<1>3. ASSUME NEW e \in InHand, NEW s \in 1..sinks
      PROVE  \/ Received(s, e)'
             \/ \E d \in Drainers : Due(d, s)' /\ batch'[d].entry = e
  <2>1. PICK d \in Drainers : Holding(d) /\ batch[d].entry = e
    BY <1>3 DEF InHand, Holding
  <2>2. CASE Due(d, s)
    BY <1>2, <2>1, <2>2 DEF Due, Holding
  <2>3. CASE ~Due(d, s)
    <3>0. \A c \in Drainers : c # d => ~Holding(c)
      <4>1. where["app"] = "idle"
        BY DEF Stop
      <4> QED BY <2>1, <4>1 DEF PhaseInv, InDrain, Drainers
    <3>1. \A c \in Drainers : ~Due(c, s)
      BY <2>3, <3>0 DEF Due
    <3>2. /\ written[s] = Owed(s) /\ added[s] < Len(popped)
          /\ popped[Len(popped)] = e
      BY <2>1, <3>1 DEF SinksInv
    <3>3. s \in Sinks
      BY LimitsAssumption DEF TypeInv, TypeOK, Sinks
    <3>4. /\ popped \in Seq(Entries) /\ Len(popped) \in Nat /\ added[s] \in Nat
      BY <3>3 DEF TypeInv, TypeOK
    <3> DEFINE n == Len(popped) - added[s]
               m == added[s] + 1
    <3>5. /\ n \in Nat \ {0} /\ m \in Int /\ m <= Len(popped)
          /\ Len(popped) - m + 1 = n /\ m + n - 1 = Len(popped)
      <4> DEFINE a == added[s]
                 z == Len(popped)
      <4>1. a \in Nat /\ z \in Nat /\ a < z
        BY <3>2, <3>4
      <4> HIDE DEF a, z
      <4>2. /\ z - a \in Nat \ {0} /\ a + 1 \in Int /\ a + 1 <= z
            /\ z - (a + 1) + 1 = z - a /\ (a + 1) + (z - a) - 1 = z
        BY <4>1
      <4> QED BY <4>2 DEF a, z
    <3>6. \A i \in (added[s] + 1)..Len(popped) : popped[i] \in Entries
      BY <3>4
    <3>7. Owed(s) = SubSeq(popped, m, Len(popped))
      BY DEF Owed
    <3>8. Len(Owed(s)) = n /\ \A i \in 1..n : Owed(s)[i] = popped[m + i - 1]
      <4> HIDE DEF n, m
      <4>1. \A i \in m..Len(popped) : popped[i] \in Entries
        BY <3>6 DEF m
      <4>2. /\ Len(SubSeq(popped, m, Len(popped)))
                 = IF m <= Len(popped) THEN Len(popped) - m + 1 ELSE 0
            /\ \A i \in 1..(Len(popped) - m + 1) :
                  SubSeq(popped, m, Len(popped))[i] = popped[m + i - 1]
        BY <3>4, <3>5, <4>1, SubSeqProperties
      <4> QED BY <3>5, <3>7, <4>2
    <3>9. n \in 1..Len(written[s]) /\ written[s][n] = e
      <4> HIDE DEF n, m
      <4>1. n \in 1..n
        BY <3>5
      <4> QED BY <3>2, <3>5, <3>8, <4>1
    <3>10. Received(s, e)'
      BY <1>1, <3>9 DEF Received
    <3> QED BY <3>10
  <2> QED BY <2>2, <2>3
<1>4. Clear' = Clear
  BY <1>1 DEF Clear
<1>5. atStop'.clear = Clear \cup InHand
  BY <1>1
<1> QED BY <1>1, <1>3, <1>4, <1>5 DEF StopInv

\* The last batch of Stop was empty: nothing is in hand, and nothing in the ring
\* is clear.
LEMMA StopDrainStop ==
  ASSUME TypeInv, PhaseInv, StopInv, StopDrain
  PROVE  StopInv'
<1>1. /\ UNCHANGED <<sinks, cells, written, atStop>> /\ where["app"] = "stopping"
      /\ where'["app"] = IF batch["app"].count > 0 THEN "stopping" ELSE "flushing"
  BY DEF StopDrain, DrainAgain, Goto, ringVars, sinkVars, TypeInv, TypeOK, Drainers
<1>2. \A c \in Drainers : ~Holding(c) /\ \A s : ~Due(c, s)
  <2>1. ~Holding("app")
    BY DEF StopDrain, DrainAgain, DrainEnds, Holding
  <2>2. ~Holding("worker")
    BY <1>1 DEF PhaseInv, InDrain, Drainers
  <2> QED BY <2>1, <2>2 DEF Drainers, Due
<1>3. Clear' = Clear /\ \A s, e : Received(s, e)' <=> Received(s, e)
  BY <1>1 DEF Clear, Received
<1>4. CASE batch["app"].count > 0
  BY <1>1, <1>2, <1>3, <1>4, StopCarry
<1>5. CASE ~(batch["app"].count > 0)
  <2>1. batch["app"].count = 0 /\ BatchSize # 0
    BY <1>5, BoundAssumption DEF TypeInv, TypeOK, Drainers
  <2>2. ~Ring!HeadReady
    BY <2>1 DEF StopDrain, DrainAgain, DrainEnds
  <2>3. Clear = {}
    <3> SUFFICES ASSUME NEW e \in Clear PROVE FALSE
      OBVIOUS
    <3>1. cells \in Seq(Ring!Cells) /\ Len(cells) \in Nat
      BY DEF TypeInv, TypeOK
    <3>2. PICK k \in 1..Len(cells) : \A i \in 1..k : cells[i].ready
      BY <3>1, ClearView
    <3>3. cells # << >> /\ Head(cells) = cells[1] /\ cells[1].ready
      BY <3>1, <3>2
    <3> QED BY <2>2, <3>3 DEF Ring!HeadReady
  <2>4. \A e \in atStop.clear : \A s \in 1..sinks : Received(s, e)
    BY <1>1, <1>2, <2>3 DEF StopInv
  <2> QED BY <1>1, <1>3, <1>5, <2>4 DEF StopInv
<1> QED BY <1>4, <1>5

\* The worker goes on while Stop waits for it, and the join changes nothing of
\* what is owed.
LEMMA WaitingStop ==
  ASSUME TypeInv, PhaseInv, StopInv,
         WorkerCheck \/ WorkerPolled \/ WorkerFinal \/ Join
  PROVE  StopInv'
<1>1. UNCHANGED <<sinks, cells, written, atStop>>
  BY DEF WorkerCheck, WorkerPolled, WorkerFinal, DrainAgain, Join, ringVars, sinkVars
<1>2. /\ where'["app"] \in {"joining", "stopping"} =>
           where["app"] \in {"joining", "stopping"}
      /\ where'["app"] = "flushing" => where["app"] = "flushing"
  BY DEF WorkerCheck, WorkerPolled, WorkerFinal, DrainAgain, Join, Goto, TypeInv,
         TypeOK, Drainers
<1>3. \A c \in Drainers : (Holding(c)' <=> Holding(c))
                          /\ (Holding(c) => batch'[c] = batch[c])
  BY ControlBatch
<1>4. \A c \in Drainers : \A s : Due(c, s) => Due(c, s)' /\ batch'[c] = batch[c]
  BY <1>3 DEF Due, Holding
<1>5. Clear' = Clear /\ \A s, e : Received(s, e)' <=> Received(s, e)
  BY <1>1 DEF Clear, Received
<1> QED BY <1>1, <1>2, <1>4, <1>5, StopCarry

\* Outside Stop nothing is claimed.
LEMMA OutsideStop ==
  ASSUME TypeInv, AddSink \/ Start \/ FlushSinks \/ Drain \/ DrainReturn
  PROVE  StopInv'
<1>1. where'["app"] \in {"idle", "manual"}
  BY DEF AddSink, Start, FlushSinks, Drain, DrainReturn, Goto, TypeInv, TypeOK,
         Drainers, drainVars
<1> QED BY <1>1 DEF StopInv

\* Every step keeps what Stop owes within reach.
LEMMA NextStop ==
  TypeInv /\ PhaseInv /\ SinksInv /\ StopInv /\ [Next]_vars => StopInv'
<1> SUFFICES ASSUME TypeInv, PhaseInv, SinksInv, StopInv, [Next]_vars PROVE StopInv'
  OBVIOUS
<1>1. ASSUME NEW l \in Loggers, PushClaim(l) \/ PushPublish(l) \/ PushFull(l)
      PROVE  StopInv'
  <2>1. UNCHANGED <<sinks, written, where, batch, atStop>> /\ Clear \subseteq Clear'
    BY <1>1, LoggingFrame, ClearGrows
  <2>2. /\ \A s, e : Received(s, e)' <=> Received(s, e)
        /\ \A c, s : Due(c, s)' <=> Due(c, s)
    BY <2>1 DEF Received, Due, Holding
  <2> QED BY <2>1, <2>2, StopCarry
<1>2. ASSUME NEW d \in Drainers, DrainPop(d) \/ DispatchWrite(d) \/ DispatchReturn(d)
      PROVE  StopInv'
  BY <1>2, DrainPopStop, DispatchWriteStop, DispatchReturnStop
<1>3. CASE UNCHANGED vars
  BY <1>3
  DEF vars, ringVars, sinkVars, drainVars, StopInv, Received, Due, Holding, Clear
<1> QED
  BY <1>1, <1>2, <1>3, NextSteps, StopStop, StopDrainStop, WaitingStop, OutsideStop

\* The inductive invariant holds of every behaviour.
LEMMA BackendInvariant == Spec => []BackendInv
<1>1. Init => StopInv
  BY DEF Init, StopInv
<1>2. BackendInv /\ [Next]_vars => BackendInv'
  BY NextTyped, NextPhase, NextSinks, NextStop DEF BackendInv
<1>3. Init => BackendInv
  BY <1>1, InitTyped, InitPhase, InitSinks DEF BackendInv
<1> QED BY <1>2, <1>3, PTL DEF Spec

\* When Stop returns, every sink has received and flushed all that TryPush had
\* accepted before the call and no unpublished cell held up, whatever the
\* worker was doing and whatever is pushed meanwhile.
THEOREM StopDeliversCorrect == Spec => StopDelivers
<1>1. BackendInv /\ [Next]_vars => [StopReturns => Delivered(atStop.clear)']_vars
  <2> SUFFICES ASSUME BackendInv, Next, StopReturns
               PROVE  Delivered(atStop.clear)'
    OBVIOUS
  <2>1. where["app"] = "flushing" /\ where'["app"] = "idle"
    BY DEF StopReturns
  <2>2. FlushSinks
    <3>1. where'["app"] # where["app"]
      BY <2>1
    <3>2. ~\E l \in Loggers : PushClaim(l) \/ PushPublish(l) \/ PushFull(l)
      BY <3>1, LoggingFrame
    <3>3. ~\E d \in Drainers : DrainPop(d) \/ DispatchWrite(d) \/ DispatchReturn(d)
      BY <3>1, DrainPhase DEF BackendInv
    <3>4. ~(WorkerCheck \/ WorkerPolled \/ WorkerFinal)
      BY <3>1 DEF WorkerCheck, WorkerPolled, WorkerFinal, DrainAgain, Goto, BackendInv,
                  TypeInv, TypeOK, Drainers
    <3>5. ~(AddSink \/ Start \/ Stop \/ Join \/ StopDrain \/ Drain \/ DrainReturn)
      BY <2>1 DEF AddSink, Start, Stop, Join, StopDrain, DrainAgain, Drain, DrainReturn
    <3> QED BY <3>2, <3>3, <3>4, <3>5, NextSteps
  <2>3. /\ UNCHANGED <<sinks, written, atStop>>
        /\ \A s \in 1..sinks : flushed'[s] = Len(written[s])
    <3>1. \A s \in 1..sinks : s \in Sinks /\ s <= sinks
      BY LimitsAssumption DEF BackendInv, TypeInv, TypeOK, Sinks
    <3> QED BY <2>2, <3>1 DEF FlushSinks
  <2>4. \A e \in atStop.clear : \A s \in 1..sinks : Received(s, e)
    BY <2>1 DEF BackendInv, StopInv
  <2> QED BY <2>3, <2>4 DEF Delivered, Flushes, Received
<1> QED BY <1>1, BackendInvariant, PTL DEF Spec, StopDelivers
=============================================================================
