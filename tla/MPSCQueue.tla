------------------------------ MODULE MPSCQueue ------------------------------
(***************************************************************************)
(* What MPSCRingBuffer promises to LoggerBackend: a bounded first-in       *)
(* first-out queue whose push takes effect in two steps.  A push first     *)
(* claims the next cell (the compare-exchange on write_pos_), which fixes  *)
(* the entry's place in the order, and later publishes it (the release     *)
(* store of the slot's sequence).  A pop only ever takes the oldest cell,  *)
(* and finds nothing while that cell is claimed but not yet published.     *)
(***************************************************************************)
EXTENDS Naturals, Sequences

CONSTANTS
    Items,      \* what can be pushed
    Bound       \* how many cells the queue holds

VARIABLES
    cells,      \* the queue, oldest first: records [item, ready]
    popped      \* history: what pops have returned, in order

queueVars == <<cells, popped>>

Cells == [item : Items, ready : BOOLEAN]

QueueInit == cells = << >> /\ popped = << >>

(***************************************************************************)
(* A push takes the next place; the cell is not readable yet.              *)
(***************************************************************************)
Claim(i) ==
    /\ Len(cells) < Bound
    /\ cells' = Append(cells, [item |-> i, ready |-> FALSE])
    /\ UNCHANGED popped

(***************************************************************************)
(* The push that holds cell k makes it readable.                           *)
(***************************************************************************)
Publish(k) ==
    /\ ~cells[k].ready
    /\ cells' = [cells EXCEPT ![k].ready = TRUE]
    /\ UNCHANGED popped

HeadReady == cells # << >> /\ Head(cells).ready

(***************************************************************************)
(* A successful pop.  A failed one (~HeadReady) changes nothing.           *)
(***************************************************************************)
Pop ==
    /\ HeadReady
    /\ popped' = Append(popped, Head(cells).item)
    /\ cells' = Tail(cells)

QueueNext ==
    \/ \E i \in Items : Claim(i)
    \/ \E k \in DOMAIN cells : Publish(k)
    \/ Pop

QueueSpec == QueueInit /\ [][QueueNext]_queueVars
=============================================================================
