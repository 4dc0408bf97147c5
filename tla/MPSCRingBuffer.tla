--------------------------- MODULE MPSCRingBuffer ---------------------------
(***************************************************************************)
(* br_logger::MPSCRingBuffer<T, Capacity>: the lock-free queue between the *)
(* threads that log (TryPush) and the one consumer (TryPop).  Every atomic *)
(* access of the code is a step of its own, and so is each copy of T, so   *)
(* that producers and the consumer interleave at every point where the     *)
(* hardware lets them.                                                     *)
(*                                                                         *)
(* Positions are uint32_t in the code: here they are taken modulo Modulus, *)
(* and `seq < pos` compares the wrapped values as the code does.  The      *)
(* history variables at, claimed, popped and refused count without         *)
(* wrapping; no guard reads them.                                          *)
(***************************************************************************)
EXTENDS Integers, Sequences, FiniteSets

CONSTANTS
    Producers,  \* threads that call TryPush
    Capacity,   \* number of slots
    Modulus,    \* 2^32 in the code: positions wrap here
    Start,      \* entries pushed and popped before the behaviour starts
    MaxCalls,   \* bound: calls of TryPush per producer
    NoItem      \* contents of a slot or a local that was never written

ASSUME ProducersAssumption == IsFiniteSet(Producers)
ASSUME CapacityAssumption == Capacity \in Nat \ {0}
\* Capacity is a power of two (static_assert) and so is 2^32.
ASSUME ModulusAssumption ==
    /\ Modulus \in Nat
    /\ Capacity < Modulus
    /\ Modulus % Capacity = 0
ASSUME BoundsAssumption == Start \in Nat /\ MaxCalls \in Nat

VARIABLES
    sequence,   \* buffer_[i].sequence
    data,       \* buffer_[i].data
    write_pos,  \* write_pos_
    read_pos,   \* read_pos_, touched by the consumer only
    pc,         \* where each producer is in TryPush
    pos,        \* each producer's local pos
    calls,      \* calls of TryPush each producer has begun
    cpc,        \* where the consumer is in TryPop
    item,       \* the consumer's TryPop argument
    at,         \* history: the unwrapped value of pos
    claimed,    \* history: items in the order their compare-exchange won
    popped,     \* history: items TryPop has returned
    refused     \* history: items whose TryPush returned false

slotVars == <<sequence, data>>
producerVars == <<pc, pos, calls, at>>
consumerVars == <<read_pos, cpc, item, popped>>
vars == <<slotVars, write_pos, producerVars, consumerVars, claimed, refused>>

Slots == 0..(Capacity - 1)
Words == 0..(Modulus - 1)               \* the values of uint32_t
\* Mutant: positions that never wrap.
WordUnbounded(n) == n

Word(n) == n % Modulus
Slot(n) == n % Capacity                 \* n & (Capacity - 1)
Items == Producers \X (1..MaxCalls)     \* the n-th call of producer p
ItemOf(p) == <<p, calls[p]>>

W == Start + Len(claimed)               \* write_pos, unwrapped
R == Start + Len(popped)                \* read_pos, unwrapped

(***************************************************************************)
(* The constructor (Start = 0), or the state that Start pushes and as many *)
(* pops leave behind: the slot that position k will use next holds k.      *)
(***************************************************************************)
SlotsOpenFrom(n) ==
    \A k \in n..(n + Capacity - 1) : sequence[Slot(k)] = Word(k)

Init ==
    /\ sequence \in [Slots -> Words]
    /\ SlotsOpenFrom(Start)
    /\ data = [i \in Slots |-> NoItem]
    /\ write_pos = Word(Start)
    /\ read_pos = Word(Start)
    /\ pc = [p \in Producers |-> "idle"]
    /\ pos = [p \in Producers |-> 0]
    /\ calls = [p \in Producers |-> 0]
    /\ cpc = "idle"
    /\ item = NoItem
    /\ at = [p \in Producers |-> 0]
    /\ claimed = << >>
    /\ popped = << >>
    /\ refused = {}

-----------------------------------------------------------------------------
(***************************************************************************)
(* TryPush.                                                                *)
(***************************************************************************)
Goto(p, label) == pc' = [pc EXCEPT ![p] = label]

\* pos takes the current write_pos_.
TakePos(p) ==
    /\ pos' = [pos EXCEPT ![p] = write_pos]
    /\ at' = [at EXCEPT ![p] = W]

\* The call begins and reads write_pos_.
LoadPos(p) ==
    /\ pc[p] = "idle"
    /\ calls[p] < MaxCalls
    /\ calls' = [calls EXCEPT ![p] = @ + 1]
    /\ TakePos(p)
    /\ Goto(p, "check")
    /\ UNCHANGED <<slotVars, write_pos, consumerVars, claimed, refused>>

\* Mutant: the slot is taken to be free without looking.
SlotSeqAssumed(p) == pos[p]

\* seq = slot.sequence.load(acquire), then the branch on its value.
SlotSeq(p) == sequence[Slot(pos[p])]

SlotFree(p) ==
    /\ pc[p] = "check"
    /\ SlotSeq(p) = pos[p]
    /\ Goto(p, "cas")
    /\ UNCHANGED <<slotVars, write_pos, pos, calls, at, consumerVars, claimed,
                   refused>>

\* Mutant: TryPush gives up whenever the slot is not free.
SlotNotFree(p) ==
    /\ pc[p] = "check"
    /\ SlotSeq(p) # pos[p]
    /\ refused' = refused \cup {ItemOf(p)}
    /\ Goto(p, "idle")
    /\ UNCHANGED <<slotVars, write_pos, pos, calls, at, consumerVars, claimed>>

\* `seq < pos`: the ring is taken to be full and TryPush returns false.
SlotFull(p) ==
    /\ pc[p] = "check"
    /\ SlotSeq(p) < pos[p]
    /\ refused' = refused \cup {ItemOf(p)}
    /\ Goto(p, "idle")
    /\ UNCHANGED <<slotVars, write_pos, pos, calls, at, consumerVars, claimed>>

\* Another producer has moved on: read write_pos_ again.
SlotStale(p) ==
    /\ pc[p] = "check"
    /\ SlotSeq(p) > pos[p]
    /\ Goto(p, "reload")
    /\ UNCHANGED <<slotVars, write_pos, pos, calls, at, consumerVars, claimed,
                   refused>>

\* Mutant: the loop goes round without a new value of write_pos_.
ReloadForgotten(p) ==
    /\ pc[p] = "reload"
    /\ Goto(p, "check")
    /\ UNCHANGED <<slotVars, write_pos, pos, calls, at, consumerVars, claimed,
                   refused>>

Reload(p) ==
    /\ pc[p] = "reload"
    /\ TakePos(p)
    /\ Goto(p, "check")
    /\ UNCHANGED <<slotVars, write_pos, calls, consumerVars, claimed, refused>>

\* Mutant: a plain store in place of the compare-exchange.
StorePos(p) ==
    /\ pc[p] = "cas"
    /\ write_pos' = Word(pos[p] + 1)
    /\ claimed' = Append(claimed, ItemOf(p))
    /\ at' = [at EXCEPT ![p] = W]
    /\ Goto(p, "write")
    /\ UNCHANGED <<slotVars, pos, calls, consumerVars, refused>>

\* compare_exchange_weak succeeds.
CasOk(p) ==
    /\ pc[p] = "cas"
    /\ write_pos = pos[p]
    /\ write_pos' = Word(pos[p] + 1)
    /\ claimed' = Append(claimed, ItemOf(p))
    /\ at' = [at EXCEPT ![p] = W]
    /\ Goto(p, "write")
    /\ UNCHANGED <<slotVars, pos, calls, consumerVars, refused>>

\* compare_exchange_weak fails, for another value or spuriously, and leaves
\* the current value in pos.
CasFail(p) ==
    /\ pc[p] = "cas"
    /\ TakePos(p)
    /\ Goto(p, "check")
    /\ UNCHANGED <<slotVars, write_pos, calls, consumerVars, claimed, refused>>

WriteData(p) ==
    /\ pc[p] = "write"
    /\ data' = [data EXCEPT ![Slot(pos[p])] = ItemOf(p)]
    /\ Goto(p, "publish")
    /\ UNCHANGED <<sequence, write_pos, pos, calls, at, consumerVars, claimed,
                   refused>>

\* Mutant: the slot is published under the sequence it had.
PublishSamePos(p) ==
    /\ pc[p] = "publish"
    /\ Goto(p, "idle")
    /\ UNCHANGED <<slotVars, write_pos, pos, calls, at, consumerVars, claimed,
                   refused>>

\* slot.sequence.store(pos + 1, release) and return true.
Publish(p) ==
    /\ pc[p] = "publish"
    /\ sequence' = [sequence EXCEPT ![Slot(pos[p])] = Word(pos[p] + 1)]
    /\ Goto(p, "idle")
    /\ UNCHANGED <<data, write_pos, pos, calls, at, consumerVars, claimed,
                   refused>>

Producer(p) ==
    \/ LoadPos(p) \/ SlotFree(p) \/ SlotFull(p) \/ SlotStale(p) \/ Reload(p)
    \/ CasOk(p) \/ CasFail(p) \/ WriteData(p) \/ Publish(p)

-----------------------------------------------------------------------------
(***************************************************************************)
(* TryPop and Empty.  A TryPop that finds nothing returns false and        *)
(* changes nothing.                                                        *)
(***************************************************************************)
\* Mutant: the consumer compares positions and not the slot's sequence.
EmptyByPosition == read_pos = write_pos

Empty == sequence[Slot(read_pos)] # Word(read_pos + 1)

PopCheck ==
    /\ cpc = "idle"
    /\ ~Empty
    /\ cpc' = "copy"
    /\ UNCHANGED <<slotVars, write_pos, producerVars, read_pos, item, popped,
                   claimed, refused>>

CopyData ==
    /\ cpc = "copy"
    /\ item' = data[Slot(read_pos)]
    /\ cpc' = "release"
    /\ UNCHANGED <<slotVars, write_pos, producerVars, read_pos, popped,
                   claimed, refused>>

\* Mutant: the slot is released for the next position, not the next turn.
ReleaseSlotEarly ==
    /\ cpc = "release"
    /\ sequence' = [sequence EXCEPT ![Slot(read_pos)] = Word(read_pos + 1)]
    /\ read_pos' = Word(read_pos + 1)
    /\ popped' = Append(popped, item)
    /\ cpc' = "idle"
    /\ UNCHANGED <<data, write_pos, producerVars, item, claimed, refused>>

\* The release store, ++read_pos_ (the consumer's own) and return true.
ReleaseSlot ==
    /\ cpc = "release"
    /\ sequence' = [sequence EXCEPT ![Slot(read_pos)] = Word(read_pos + Capacity)]
    /\ read_pos' = Word(read_pos + 1)
    /\ popped' = Append(popped, item)
    /\ cpc' = "idle"
    /\ UNCHANGED <<data, write_pos, producerVars, item, claimed, refused>>

Consumer == PopCheck \/ CopyData \/ ReleaseSlot

Next == Consumer \/ \E p \in Producers : Producer(p)

Spec == Init /\ [][Next]_vars

-----------------------------------------------------------------------------
(***************************************************************************)
(* Fairness.  A thread inside TryPush keeps being scheduled, and its       *)
(* compare_exchange_weak does not fail spuriously for ever.  Nothing       *)
(* obliges a thread to log.                                                *)
(***************************************************************************)
PushStep(p) ==
    \/ SlotFree(p) \/ SlotFull(p) \/ SlotStale(p) \/ Reload(p)
    \/ CasOk(p) \/ CasFail(p) \/ WriteData(p) \/ Publish(p)

FairProducer(p) == WF_vars(PushStep(p)) /\ SF_vars(CasOk(p))

FairPushSpec == Spec /\ \A p \in Producers : FairProducer(p)

-----------------------------------------------------------------------------
(***************************************************************************)
(* Properties.                                                             *)
(***************************************************************************)
Labels == {"idle", "check", "cas", "reload", "write", "publish"}

\* The type invariant: every uint32_t of the ring stays a word, and every
\* local and history variable ranges over what the code can put there.
TypeOK ==
    /\ sequence \in [Slots -> Words]
    /\ data \in [Slots -> Items \cup {NoItem}]
    /\ write_pos \in Words
    /\ read_pos \in Words
    /\ pc \in [Producers -> Labels]
    /\ pos \in [Producers -> Words]
    /\ calls \in [Producers -> 0..MaxCalls]
    /\ cpc \in {"idle", "copy", "release"}
    /\ item \in Items \cup {NoItem}
    /\ at \in [Producers -> Nat]
    /\ claimed \in Seq(Items)
    /\ popped \in Seq(Items \cup {NoItem})
    /\ refused \subseteq Items

\* What TryPop returns is what the winning compare-exchanges claimed, in that
\* order: nothing lost, duplicated, torn, reordered or read before it is
\* written, whatever the interleaving of the producers and the consumer.
Fifo ==
    /\ Len(popped) <= Len(claimed)
    /\ \A k \in 1..Len(popped) : popped[k] = claimed[k]

\* The plain (non-atomic) T of a slot is never accessed by two threads at
\* once when one of them writes: `slot.data = item` in TryPush against the
\* same statement of another producer, and against `item = slot.data` of
\* TryPop.
NoDataRace ==
    /\ \A p, q \in Producers :
          /\ p # q
          /\ pc[p] = "write"
          /\ pc[q] = "write"
          => Slot(pos[p]) # Slot(pos[q])
    /\ \A p \in Producers :
          pc[p] = "write" /\ cpc = "copy" => Slot(pos[p]) # Slot(read_pos)

\* No producer that holds a slot number from before it was suspended has
\* been overtaken by Modulus (2^32) pushes when it comes to compare-exchange.
NoLap == \A p \in Producers : pc[p] = "cas" => W - at[p] < Modulus

\* Positions have not come round to 0: fewer than 2^32 - Capacity pushes.
NoWrap == W + Capacity < Modulus

\* TryPush returns false only at a moment when every slot is taken: an entry
\* is dropped because the ring is full, never because another producer got
\* in between.  (True until positions wrap: see the README.)
RefusedOnlyWhenFull == [][NoWrap /\ refused' # refused => W - R = Capacity]_vars

\* TryPush never waits for another thread: a producer that keeps running
\* returns from TryPush even if every other producer and the consumer stop
\* for good wherever they are.  (At the wrap it may not: AllPushesReturn.)
PushReturns ==
    \A p \in Producers :
        FairProducer(p) => (pc[p] # "idle" ~> pc[p] = "idle" \/ ~NoWrap)

\* The same, when no producer is suspended for ever.
AllPushesReturn == \A p \in Producers : pc[p] # "idle" ~> pc[p] = "idle"

\* What a compare-exchange claimed is eventually popped, if producers keep
\* running and the consumer calls TryPop again and again, as the backend's
\* loop does: a slot that is claimed and not yet published holds up the ones
\* behind it, but not for ever, and once the bounded calls are over nothing
\* is left in the ring, on either side of the wrap.
ClaimedIsPopped ==
    (\A p \in Producers : FairProducer(p)) /\ WF_vars(Consumer) =>
        <>[](popped = claimed)

\* The cells of the abstract queue: the claimed and not yet popped items, a
\* cell being ready once its slot carries the published sequence.
QueueCells ==
    [i \in 1..(Len(claimed) - Len(popped)) |->
        [item  |-> claimed[Len(popped) + i],
         ready |-> sequence[Slot(R + i - 1)] = Word(R + i)]]

Queue == INSTANCE MPSCQueue WITH Bound <- Capacity, cells <- QueueCells

\* The ring implements the abstract queue that the backend is built on.
ImplementsQueue == Queue!QueueSpec
-----------------------------------------------------------------------------
(***************************************************************************)
(* The inductive invariant.  The unwrapped positions R..(W-1) are claimed  *)
(* and not yet popped, W..(R+Capacity-1) are open; together they name each *)
(* slot once.                                                              *)
(***************************************************************************)
Unpublished(k) == sequence[Slot(k)] = Word(k)
Published(k) ==
    /\ sequence[Slot(k)] = Word(k + 1)
    /\ data[Slot(k)] = claimed[k - Start + 1]

Holds(p) == pc[p] \in {"write", "publish"}

\* The wrapped positions are the wrapped lengths of the histories, and the
\* ring never holds more than Capacity items.
PositionsInv ==
    /\ write_pos = Word(W)
    /\ read_pos = Word(R)
    /\ R <= W
    /\ W <= R + Capacity

OpenInv == \A k \in W..(R + Capacity - 1) : Unpublished(k)

TakenInv == \A k \in R..(W - 1) : Unpublished(k) \/ Published(k)

\* A producer between its compare-exchange and its publishing store owns the
\* claimed, unpublished position at[p], alone.
HolderInv ==
    \A p \in Producers : Holds(p) =>
        /\ at[p] \in R..(W - 1)
        /\ Unpublished(at[p])
        /\ claimed[at[p] - Start + 1] = ItemOf(p)
        /\ pc[p] = "publish" => data[Slot(at[p])] = ItemOf(p)
        /\ \A q \in Producers \ {p} : Holds(q) => at[q] # at[p]

\* pos is a value write_pos had; if it is still the value of write_pos when
\* the compare-exchange comes, there is room.
PosInv ==
    \A p \in Producers : pc[p] # "idle" =>
        /\ pos[p] = Word(at[p])
        /\ at[p] <= W
        /\ pc[p] = "cas" /\ at[p] = W => W < R + Capacity

\* Inside TryPop the head is published, and the copy is the head's item.
ConsumerInv ==
    cpc # "idle" =>
        /\ R < W
        /\ Published(R)
        /\ cpc = "release" => item = claimed[Len(popped) + 1]

\* Items are pushed by calls that have begun.
CallsInv == \A p \in Producers : pc[p] # "idle" => calls[p] >= 1

RingInv ==
    /\ PositionsInv /\ OpenInv /\ TakenInv /\ HolderInv /\ PosInv
    /\ ConsumerInv /\ CallsInv /\ Fifo

=============================================================================
