----------------------- MODULE MPSCRingBuffer_proofs -----------------------
(***************************************************************************)
(* Proofs about MPSCRingBuffer, for every set of producers, every capacity *)
(* and every modulus the assumptions of that module allow.                 *)
(***************************************************************************)
EXTENDS MPSCRingBuffer, TLAPS

-----------------------------------------------------------------------------
(***************************************************************************)
(* What taking a position modulo a size keeps and tells apart.             *)
(***************************************************************************)
\* A product with a factor of at least 1 is no smaller than the other factor.
LEMMA MulBound ==
  ASSUME NEW c \in Nat, NEW d \in Int, d >= 1
  PROVE  c * d >= c
OBVIOUS

\* What \div and % are, for natural numbers.
LEMMA DivDef ==
  ASSUME NEW c \in Nat \ {0}, NEW a \in Nat
  PROVE  /\ a \div c \in Nat /\ a % c \in 0..(c-1) /\ a = c * (a \div c) + (a % c)
OBVIOUS

\* Quotient and remainder are determined by these facts.
LEMMA ModUnique ==
  ASSUME NEW c \in Nat \ {0}, NEW a \in Nat, NEW q \in Int, NEW r \in 0..(c - 1),
         a = c * q + r
  PROVE  a % c = r /\ a \div c = q
<1> DEFINE p == a \div c
           s == a % c
<1>1. p \in Nat /\ s \in 0..(c-1) /\ a = c * p + s
  BY DivDef
<1> HIDE DEF p, s
<1>2. c * (q - p) = s - r /\ c * (p - q) = r - s
  BY <1>1
<1>3. ~(q - p >= 1)
  BY <1>1, <1>2, MulBound
<1>4. ~(p - q >= 1)
  BY <1>1, <1>2, MulBound
<1>5. p = q
  BY <1>1, <1>3, <1>4
<1>6. s = r
  BY <1>1, <1>5
<1> QED BY <1>5, <1>6 DEF p, s

\* One turn later a position has the same slot number.
LEMMA ModPlus ==
  ASSUME NEW c \in Nat \ {0}, NEW a \in Nat
  PROVE  (a + c) % c = a % c
<1>1. a \div c \in Nat /\ a % c \in 0..(c-1) /\ a = c * (a \div c) + (a % c)
  BY DivDef
<1> DEFINE y == a + c
           q == (a \div c) + 1
           r == a % c
<1>2. y \in Nat /\ q \in Int /\ r \in 0..(c-1) /\ y = c * q + r
  BY <1>1
<1>3. y % c = r
  <2> HIDE DEF y, q, r
  <2> QED BY <1>2, ModUnique
<1> QED BY <1>3

\* A sum may be reduced before or after it is taken: uint32_t addition.
LEMMA ModAdd ==
  ASSUME NEW c \in Nat \ {0}, NEW a \in Nat, NEW b \in Nat
  PROVE  ((a % c) + b) % c = (a + b) % c
<1> DEFINE x == (a % c) + b
<1>1. a \div c \in Nat /\ a % c \in 0..(c-1) /\ a = c * (a \div c) + (a % c)
  BY DivDef
<1>2. x \in Nat
  BY <1>1
<1>3. x \div c \in Nat /\ x % c \in 0..(c-1) /\ x = c * (x \div c) + (x % c)
  BY <1>2, DivDef
<1>4. a + b = c * (a \div c) + x
  BY <1>1
<1>5. a + b = c * ((a \div c) + (x \div c)) + (x % c)
  <2> HIDE DEF x
  <2> QED BY <1>1, <1>2, <1>3, <1>4
<1> QED
  <2> DEFINE y == a + b
             q == (a \div c) + (x \div c)
             r == x % c
  <2>1. y \in Nat /\ q \in Int /\ r \in 0..(c-1) /\ y = c * q + r
    <3> HIDE DEF x
    <3> QED BY <1>1, <1>3, <1>5
  <2>2. y % c = r
    <3> HIDE DEF y, q, r
    <3> QED BY <2>1, ModUnique
  <2> QED BY <2>2

\* Positions less than a turn apart have different slot numbers.
LEMMA ModDistinct ==
  ASSUME NEW c \in Nat \ {0}, NEW a \in Nat, NEW b \in Nat, a < b, b < a + c
  PROVE  a % c # b % c
<1>1. /\ a \div c \in Nat /\ a % c \in 0..(c-1) /\ a = c * (a \div c) + (a % c)
      /\ b \div c \in Nat /\ b % c \in 0..(c-1) /\ b = c * (b \div c) + (b % c)
  BY DivDef
<1> SUFFICES ASSUME a % c = b % c PROVE FALSE
  OBVIOUS
<1> DEFINE d == (b \div c) - (a \div c)
<1>2. b - a = c * d /\ d \in Int
  BY <1>1
<1>3. CASE d >= 1
  <2> HIDE DEF d
  <2> QED BY <1>2, <1>3, MulBound
<1>4. CASE d <= 0
  <2> HIDE DEF d
  <2>1. c * d <= 0
    BY <1>2, <1>4
  <2> QED BY <1>2, <2>1
<1> QED BY <1>2, <1>3, <1>4

\* The slot number of a wrapped position is that of the position.
LEMMA ModMod ==
  ASSUME NEW c \in Nat \ {0}, NEW m \in Nat \ {0}, m % c = 0, NEW a \in Nat
  PROVE  (a % m) % c = a % c
<1> DEFINE x == a % m
           e == m \div c
<1>1. a \div m \in Nat /\ x \in Nat /\ a = m * (a \div m) + x
  BY DivDef
<1>2. e \in Nat /\ m = c * e
  BY DivDef
<1>3. x \div c \in Nat /\ x % c \in 0..(c-1) /\ x = c * (x \div c) + (x % c)
  BY <1>1, DivDef
<1> HIDE DEF x, e
<1> DEFINE f == a \div m
           g == x \div c
           r == x % c
           q == e * f + g
<1>4. f \in Nat /\ g \in Nat /\ r \in 0..(c-1) /\ a = m * f + x /\ x = c * g + r
  BY <1>1, <1>3
<1>r. r \in 0..(c-1)
  BY <1>3
<1>5. a % c = r
  <2> HIDE DEF f, g, r
  <2>1. m * f = c * (e * f)
    BY <1>2, <1>4
  <2>2. q \in Int /\ c * q = c * (e * f) + c * g
    BY <1>2, <1>4
  <2>3. a = c * q + r
    <3> DEFINE u == c * (e * f)
               v == c * g
    <3>1. u \in Int /\ v \in Int
      BY <1>2, <1>4
    <3>2. a = u + (v + r) /\ c * q = u + v
      BY <1>4, <2>1, <2>2
    <3> HIDE DEF u, v, q
    <3> QED BY <1>4, <2>2, <3>1, <3>2
  <2>4. q \in Int
    BY <2>2
  <2> HIDE DEF q
  <2> QED BY <1>r, <2>3, <2>4, ModUnique
<1> QED BY <1>5 DEF x

-----------------------------------------------------------------------------
(***************************************************************************)
(* Wrapped positions.                                                      *)
(***************************************************************************)
\* The two ways a position is reduced, as the invariant's proof uses them; with
\* these facts Word and Slot need not be expanded again.
LEMMA WordSlot ==
  /\ \A n \in Nat : Word(n) \in Words
  /\ \A n \in Nat : Slot(n) \in Slots
  /\ \A n \in Nat : Slot(Word(n)) = Slot(n)
  /\ \A n, k \in Nat : Word(Word(n) + k) = Word(n + k)
  /\ \A n \in Nat : Slot(n + Capacity) = Slot(n)
  /\ \A m, n \in Nat : m < n /\ n < m + Capacity => Slot(m) # Slot(n)
  /\ \A m, n \in Nat : m < n /\ n < m + Modulus => Word(m) # Word(n)
<1> USE CapacityAssumption, ModulusAssumption
<1>0. Modulus \in Nat \ {0} /\ Modulus % Capacity = 0
  OBVIOUS
<1>1. \A n \in Nat : Word(n) \in Words
  BY <1>0, DivDef DEF Word, Words
<1>2. \A n \in Nat : Slot(n) \in Slots
  BY DivDef DEF Slot, Slots
<1>3. \A n \in Nat : Slot(Word(n)) = Slot(n)
  BY <1>0, ModMod DEF Slot, Word
<1>4. \A n, k \in Nat : Word(Word(n) + k) = Word(n + k)
  BY <1>0, ModAdd DEF Word
<1>5. \A n \in Nat : Slot(n + Capacity) = Slot(n)
  BY ModPlus DEF Slot
<1>6. \A m, n \in Nat : m < n /\ n < m + Capacity => Slot(m) # Slot(n)
  BY ModDistinct DEF Slot
<1>7. \A m, n \in Nat : m < n /\ n < m + Modulus => Word(m) # Word(n)
  BY <1>0, ModDistinct DEF Word
<1> QED BY <1>1, <1>2, <1>3, <1>4, <1>5, <1>6, <1>7

-----------------------------------------------------------------------------
(***************************************************************************)
(* Type correctness.  TypeOK is not inductive alone: the item of a call is *)
(* one of Items only if the call has been counted, which is CallsInv.      *)
(***************************************************************************)
TypeInv == TypeOK /\ CallsInv

\* The item a producer pushes is an item.
LEMMA ItemTyped ==
  ASSUME TypeInv, NEW p \in Producers, pc[p] # "idle"
  PROVE  ItemOf(p) \in Items
BY BoundsAssumption DEF TypeInv, TypeOK, CallsInv, ItemOf, Items

\* The unwrapped positions are natural numbers.
LEMMA PositionsTyped ==
  ASSUME TypeOK
  PROVE  W \in Nat /\ R \in Nat
BY BoundsAssumption DEF TypeOK, W, R

\* Adding to a word and wrapping gives a word.
LEMMA WordPlus ==
  ASSUME NEW n \in Words, NEW k \in Nat
  PROVE  Word(n + k) \in Words
<1>1. n + k \in Nat
  BY ModulusAssumption, CapacityAssumption DEF Words
<1> QED BY <1>1, WordSlot

\* Initially the types are right.
LEMMA InitTyped == Init => TypeInv
<1> SUFFICES ASSUME Init PROVE TypeInv
  OBVIOUS
<1>1. Word(Start) \in Words
  BY WordSlot, BoundsAssumption
<1>2. 0 \in Words
  BY ModulusAssumption, CapacityAssumption DEF Words
<1> QED
  BY <1>1, <1>2, BoundsAssumption
  DEF Init, TypeInv, TypeOK, CallsInv, Labels

\* Every step keeps them.
LEMMA NextTyped == TypeInv /\ [Next]_vars => TypeInv'
<1> SUFFICES ASSUME TypeInv, [Next]_vars PROVE TypeInv'
  OBVIOUS
<1> USE DEF TypeInv, TypeOK, CallsInv, Labels
<1>w. Words \subseteq Nat /\ W \in Nat
  BY PositionsTyped, ModulusAssumption DEF Words
<1>1. ASSUME NEW p \in Producers, LoadPos(p) PROVE TypeInv'
  BY <1>1, <1>w, BoundsAssumption
  DEF LoadPos, TakePos, Goto, slotVars, consumerVars
<1>2. ASSUME NEW p \in Producers, SlotFree(p) PROVE TypeInv'
  BY <1>2 DEF SlotFree, Goto, slotVars, consumerVars
<1>3. ASSUME NEW p \in Producers, SlotFull(p) PROVE TypeInv'
  <2>1. ItemOf(p) \in Items
    BY <1>3, ItemTyped DEF SlotFull
  <2> QED BY <1>3, <2>1 DEF SlotFull, Goto, slotVars, consumerVars
<1>4. ASSUME NEW p \in Producers, SlotStale(p) PROVE TypeInv'
  BY <1>4 DEF SlotStale, Goto, slotVars, consumerVars
<1>5. ASSUME NEW p \in Producers, Reload(p) PROVE TypeInv'
  BY <1>5, <1>w DEF Reload, TakePos, Goto, slotVars, consumerVars
<1>6. ASSUME NEW p \in Producers, CasOk(p) PROVE TypeInv'
  <2>1. ItemOf(p) \in Items
    BY <1>6, ItemTyped DEF CasOk
  <2>2. Word(pos[p] + 1) \in Words
    BY WordPlus
  <2> QED BY <1>6, <1>w, <2>1, <2>2 DEF CasOk, Goto, slotVars, consumerVars
<1>7. ASSUME NEW p \in Producers, CasFail(p) PROVE TypeInv'
  BY <1>7, <1>w DEF CasFail, TakePos, Goto, slotVars, consumerVars
<1>8. ASSUME NEW p \in Producers, WriteData(p) PROVE TypeInv'
  <2>1. ItemOf(p) \in Items
    BY <1>8, ItemTyped DEF WriteData
  <2> QED BY <1>8, <2>1 DEF WriteData, Goto, consumerVars
<1>9. ASSUME NEW p \in Producers, Publish(p) PROVE TypeInv'
  <2>1. Word(pos[p] + 1) \in Words
    BY WordPlus
  <2> QED BY <1>9, <2>1 DEF Publish, Goto, consumerVars
<1>10. CASE PopCheck
  BY <1>10 DEF PopCheck, slotVars, producerVars
<1>11. CASE CopyData
  <2>1. Slot(read_pos) \in Slots
    BY <1>w, WordSlot
  <2> QED BY <1>11, <2>1 DEF CopyData, slotVars, producerVars
<1>12. CASE ReleaseSlot
  <2>1. Word(read_pos + Capacity) \in Words /\ Word(read_pos + 1) \in Words
    BY WordPlus, CapacityAssumption
  <2>2. popped' \in Seq(Items \cup {NoItem})
    BY <1>12 DEF ReleaseSlot
  <2> QED BY <1>12, <2>1, <2>2 DEF ReleaseSlot, producerVars
<1>13. CASE UNCHANGED vars
  BY <1>13 DEF vars, slotVars, producerVars, consumerVars
<1> QED
  BY <1>1, <1>2, <1>3, <1>4, <1>5, <1>6, <1>7, <1>8, <1>9, <1>10, <1>11, <1>12,
     <1>13
  DEF Next, Producer, Consumer

\* Every value the ring computes is a word, every slot index is in range, and
\* only items that were pushed are stored, popped or refused.
THEOREM TypeCorrect == Spec => []TypeOK
<1>1. TypeInv => TypeOK
  BY DEF TypeInv
<1> QED BY <1>1, InitTyped, NextTyped, PTL DEF Spec

-----------------------------------------------------------------------------
(***************************************************************************)
(* The ring invariant.                                                     *)
(***************************************************************************)
\* The part of the invariant that speaks of the slots, the positions and the
\* consumer only.
SlotsInv == PositionsInv /\ OpenInv /\ TakenInv /\ ConsumerInv /\ Fifo

\* A step that touches nothing of that keeps it.
LEMMA SlotsFrame ==
  ASSUME SlotsInv, UNCHANGED <<slotVars, write_pos, consumerVars, claimed>>
  PROVE  SlotsInv' /\ W' = W /\ R' = R
BY DEF SlotsInv, PositionsInv, OpenInv, TakenInv, ConsumerInv, Fifo, W, R,
       Unpublished, Published, slotVars, consumerVars

\* A step of producer p on its local variables that ends outside the window
\* between compare-exchange and publication keeps what is known of holders and
\* of local positions, if it leaves p a position that write_pos has had.
LEMMA LocalStep ==
  ASSUME TypeInv, HolderInv, PosInv,
         UNCHANGED <<slotVars, write_pos, consumerVars, claimed>>,
         NEW p \in Producers,
         NEW label \in Labels \ {"write", "publish"},
         pc' = [pc EXCEPT ![p] = label],
         \A q \in Producers \ {p} :
            calls'[q] = calls[q] /\ at'[q] = at[q] /\ pos'[q] = pos[q],
         label # "idle" =>
            /\ pos'[p] = Word(at'[p])
            /\ at'[p] <= W
            /\ label = "cas" /\ at'[p] = W => W < R + Capacity
  PROVE  HolderInv' /\ PosInv'
<1>1. W' = W /\ R' = R
  BY DEF W, R, consumerVars
<1>2. pc'[p] = label /\ \A q \in Producers \ {p} : pc'[q] = pc[q]
  BY DEF TypeInv, TypeOK
<1>3. HolderInv'
  <2> SUFFICES ASSUME NEW q \in Producers, Holds(q)'
               PROVE  /\ at'[q] \in R..(W - 1)
                      /\ sequence[Slot(at'[q])] = Word(at'[q])
                      /\ claimed[at'[q] - Start + 1] = <<q, calls'[q]>>
                      /\ pc'[q] = "publish" =>
                            data[Slot(at'[q])] = <<q, calls'[q]>>
                      /\ \A r \in Producers \ {q} :
                            Holds(r)' => at'[r] # at'[q]
    BY <1>1 DEF HolderInv, Unpublished, ItemOf, slotVars
  <2>1. \A r \in Producers : Holds(r)' => r # p /\ Holds(r)
    BY <1>2 DEF Holds
  <2>2. q # p /\ Holds(q) /\ at'[q] = at[q] /\ calls'[q] = calls[q]
        /\ pc'[q] = pc[q]
    BY <1>2, <2>1
  <2>3. \A r \in Producers \ {q} : Holds(r)' => at'[r] # at'[q]
    BY <2>1, <2>2 DEF HolderInv
  <2> QED BY <2>2, <2>3 DEF HolderInv, Unpublished, ItemOf
<1>4. PosInv'
  BY <1>1, <1>2 DEF PosInv
<1> QED BY <1>3, <1>4

\* What the invariant says of the position a producer has just loaded.
LEMMA LoadedPos ==
  ASSUME TypeInv, PositionsInv, NEW p \in Producers, TakePos(p)
  PROVE  pos'[p] = Word(at'[p]) /\ at'[p] = W
BY DEF TypeInv, TypeOK, PositionsInv, TakePos

\* A slot that carries the position a producer is looking at is free: if that
\* position is the next one, the ring has room.  This is where Capacity > 1 is
\* needed: with one slot, "published at W - 1" and "open for W" are the same
\* number.
LEMMA FreeSlot ==
  ASSUME Capacity > 1, TypeInv, RingInv, NEW p \in Producers,
         pc[p] = "check", SlotSeq(p) = pos[p], at[p] = W
  PROVE  W < R + Capacity
<1>1. W \in Nat /\ R \in Nat /\ R <= W /\ W <= R + Capacity
  BY PositionsTyped DEF TypeInv, RingInv, PositionsInv
<1>2. sequence[Slot(W)] = Word(W)
  <2>1. pos[p] = Word(W)
    BY DEF RingInv, PosInv
  <2>2. Slot(pos[p]) = Slot(W)
    BY <1>1, <2>1, WordSlot
  <2> QED BY <2>1, <2>2 DEF SlotSeq
<1> SUFFICES ASSUME W = R + Capacity PROVE FALSE
  BY <1>1, CapacityAssumption
<1>3. Slot(W) = Slot(R)
  BY <1>1, WordSlot
<1>4. sequence[Slot(R)] = Word(R) \/ sequence[Slot(R)] = Word(R + 1)
  BY <1>1, CapacityAssumption
  DEF RingInv, TakenInv, Unpublished, Published
<1>5. Word(R) # Word(W)
  <2>1. R < W /\ W < R + Modulus
    BY <1>1, CapacityAssumption, ModulusAssumption
  <2> QED BY <1>1, <2>1, WordSlot
<1>6. Word(R + 1) # Word(W)
  <2>1. R + 1 \in Nat /\ R + 1 < W /\ W < (R + 1) + Modulus
    BY <1>1, CapacityAssumption, ModulusAssumption
  <2> QED BY <1>1, <2>1, WordSlot
<1> QED BY <1>2, <1>3, <1>4, <1>5, <1>6

\* The ring starts in the invariant.
LEMMA RingInit == Init => RingInv
<1> SUFFICES ASSUME Init PROVE RingInv
  OBVIOUS
<1>1. W = Start /\ R = Start /\ Len(claimed) = 0 /\ Len(popped) = 0
  BY BoundsAssumption DEF Init, W, R
<1>2. PositionsInv
  BY <1>1, BoundsAssumption, CapacityAssumption DEF PositionsInv, Init
<1>3. OpenInv
  BY <1>1 DEF OpenInv, Unpublished, Init, SlotsOpenFrom
<1>4. TakenInv
  BY <1>1, BoundsAssumption DEF TakenInv
<1>5. HolderInv /\ PosInv /\ CallsInv
  BY DEF HolderInv, PosInv, CallsInv, Holds, Init
<1>6. ConsumerInv
  BY DEF ConsumerInv, Init
<1>7. Fifo
  BY <1>1 DEF Fifo
<1> QED BY <1>2, <1>3, <1>4, <1>5, <1>6, <1>7 DEF RingInv

\* Two positions of the window R..(R+Capacity-1) use different slots.
LEMMA Window ==
  ASSUME TypeInv, NEW j \in R..(R + Capacity - 1), NEW k \in R..(R + Capacity - 1),
         j # k
  PROVE  Slot(j) # Slot(k)
<1>1. R \in Nat /\ j \in Nat /\ k \in Nat
  BY PositionsTyped, CapacityAssumption DEF TypeInv
<1>2. CASE j < k
  <2>1. k < j + Capacity
    BY <1>1, CapacityAssumption
  <2> QED BY <1>1, <1>2, <2>1, WordSlot
<1>3. CASE k < j
  <2>1. j < k + Capacity
    BY <1>1, CapacityAssumption
  <2> QED BY <1>1, <1>3, <2>1, WordSlot
<1> QED BY <1>1, <1>2, <1>3

\* The steps of TryPush up to the compare-exchange, a failed compare-exchange
\* and a refusal change local variables only.
LEMMA LocalActions ==
  ASSUME Capacity > 1, TypeInv, RingInv, NEW p \in Producers,
         \/ LoadPos(p) \/ SlotFree(p) \/ SlotFull(p) \/ SlotStale(p)
         \/ Reload(p) \/ CasFail(p)
  PROVE  SlotsInv' /\ HolderInv' /\ PosInv'
<1>0. /\ SlotsInv /\ HolderInv /\ PosInv /\ PositionsInv
      /\ W \in Nat /\ R \in Nat
      /\ pc \in [Producers -> Labels] /\ at \in [Producers -> Nat]
      /\ pos \in [Producers -> Words] /\ calls \in [Producers -> 0..MaxCalls]
  BY PositionsTyped DEF RingInv, SlotsInv, TypeInv, TypeOK
<1>1. UNCHANGED <<slotVars, write_pos, consumerVars, claimed>>
  BY DEF LoadPos, SlotFree, SlotFull, SlotStale, Reload, CasFail
<1>2. SlotsInv'
  BY <1>0, <1>1, SlotsFrame
<1>3. HolderInv' /\ PosInv'
  <2>1. CASE LoadPos(p)
    <3>1. pos'[p] = Word(at'[p]) /\ at'[p] = W
      BY <1>0, <2>1, LoadedPos DEF LoadPos
    <3>2. \A q \in Producers \ {p} :
             calls'[q] = calls[q] /\ at'[q] = at[q] /\ pos'[q] = pos[q]
      BY <1>0, <2>1 DEF LoadPos, TakePos
    <3>3. pc' = [pc EXCEPT ![p] = "check"] /\ "check" \in Labels \ {"write", "publish"}
      BY <2>1 DEF LoadPos, Goto, Labels
    <3>4. at'[p] <= W /\ "check" # "cas"
      BY <1>0, <3>1
    <3> QED BY <1>0, <1>1, <3>1, <3>2, <3>3, <3>4, LocalStep
  <2>2. CASE SlotFree(p)
    <3>1. at[p] = W => W < R + Capacity
      BY <2>2, FreeSlot DEF SlotFree
    <3>2. pos' = pos /\ at' = at /\ calls' = calls
      BY <2>2 DEF SlotFree
    <3>3. pc' = [pc EXCEPT ![p] = "cas"] /\ "cas" \in Labels \ {"write", "publish"}
      BY <2>2 DEF SlotFree, Goto, Labels
    <3>4. pos[p] = Word(at[p]) /\ at[p] <= W
      BY <1>0, <2>2 DEF SlotFree, PosInv
    <3> QED BY <1>0, <1>1, <3>1, <3>2, <3>3, <3>4, LocalStep
  <2>3. CASE SlotFull(p)
    <3>2. pos' = pos /\ at' = at /\ calls' = calls
      BY <2>3 DEF SlotFull
    <3>3. pc' = [pc EXCEPT ![p] = "idle"] /\ "idle" \in Labels \ {"write", "publish"}
      BY <2>3 DEF SlotFull, Goto, Labels
    <3> QED BY <1>0, <1>1, <3>2, <3>3, LocalStep
  <2>4. CASE SlotStale(p)
    <3>2. pos' = pos /\ at' = at /\ calls' = calls
      BY <2>4 DEF SlotStale
    <3>3. pc' = [pc EXCEPT ![p] = "reload"] /\ "reload" \in Labels \ {"write", "publish"}
      BY <2>4 DEF SlotStale, Goto, Labels
    <3>4. pos[p] = Word(at[p]) /\ at[p] <= W
      BY <1>0, <2>4 DEF SlotStale, PosInv
    <3> QED BY <1>0, <1>1, <3>2, <3>3, <3>4, LocalStep
  <2>5. CASE Reload(p) \/ CasFail(p)
    <3>1. pos'[p] = Word(at'[p]) /\ at'[p] = W
      BY <1>0, <2>5, LoadedPos DEF Reload, CasFail
    <3>2. \A q \in Producers \ {p} :
             calls'[q] = calls[q] /\ at'[q] = at[q] /\ pos'[q] = pos[q]
      BY <1>0, <2>5 DEF Reload, CasFail, TakePos
    <3>3. pc' = [pc EXCEPT ![p] = "check"] /\ "check" \in Labels \ {"write", "publish"}
      BY <2>5 DEF Reload, CasFail, Goto, Labels
    <3>4. at'[p] <= W /\ "check" # "cas"
      BY <1>0, <3>1
    <3> QED BY <1>0, <1>1, <3>1, <3>2, <3>3, <3>4, LocalStep
  <2> QED BY <2>1, <2>2, <2>3, <2>4, <2>5
<1> QED BY <1>2, <1>3

\* A winning compare-exchange: without a lap, the position it compared is the
\* current one, so it takes the next open slot.
LEMMA CasWins ==
  ASSUME TypeInv, RingInv, NoLap, NEW p \in Producers, CasOk(p)
  PROVE  at[p] = W /\ W < R + Capacity
<1>1. W \in Nat /\ at[p] \in Nat
  BY PositionsTyped DEF TypeInv, TypeOK
<1>2. pc[p] = "cas" /\ write_pos = pos[p] /\ write_pos = Word(W)
      /\ pos[p] = Word(at[p]) /\ at[p] <= W
      /\ (at[p] = W => W < R + Capacity)
  BY DEF CasOk, RingInv, PosInv, PositionsInv
<1>3. W < at[p] + Modulus
  BY <1>1, <1>2, ModulusAssumption DEF NoLap
<1>4. ~(at[p] < W)
  BY <1>1, <1>2, <1>3, WordSlot
<1> QED BY <1>1, <1>2, <1>4

\* The compare-exchange that wins takes position W from the open slots to the
\* claimed ones and makes its producer the only holder of it.
LEMMA CasOkStep ==
  ASSUME TypeInv, RingInv, NoLap, NEW p \in Producers, CasOk(p)
  PROVE  SlotsInv' /\ HolderInv' /\ PosInv'
<1>0. /\ W \in Nat /\ R \in Nat /\ R <= W /\ W <= R + Capacity
      /\ write_pos = Word(W) /\ read_pos = Word(R)
      /\ W = Start + Len(claimed) /\ R = Start + Len(popped)
      /\ Len(claimed) \in Nat /\ Len(popped) \in Nat /\ Start \in Nat
  BY PositionsTyped, BoundsAssumption
  DEF TypeInv, TypeOK, RingInv, PositionsInv, W, R
<1>1. at[p] = W /\ W < R + Capacity
  BY CasWins
<1>2. /\ Len(claimed') = Len(claimed) + 1
      /\ \A k \in 1..Len(claimed) : claimed'[k] = claimed[k]
      /\ claimed'[Len(claimed) + 1] = ItemOf(p)
  BY DEF CasOk, TypeInv, TypeOK
<1>3. W' = W + 1 /\ R' = R /\ popped' = popped
  BY <1>0, <1>2 DEF CasOk, W, R, consumerVars
<1>4. /\ UNCHANGED <<sequence, data, read_pos, cpc, item, pos, calls>>
      /\ pc' = [pc EXCEPT ![p] = "write"]
      /\ at' = [at EXCEPT ![p] = W]
  BY DEF CasOk, Goto, slotVars, consumerVars
<1>5. at' = at
  BY <1>1, <1>4 DEF TypeInv, TypeOK
<1>6. pc'[p] = "write" /\ \A q \in Producers \ {p} : pc'[q] = pc[q]
  BY <1>4 DEF TypeInv, TypeOK
<1>7. sequence[Slot(W)] = Word(W)
  BY <1>0, <1>1, CapacityAssumption DEF RingInv, OpenInv, Unpublished
<1>8. PositionsInv'
  <2>1. write_pos' = Word(W + 1)
    <3>1. write_pos' = Word(Word(W) + 1)
      BY <1>0 DEF CasOk
    <3> QED BY <1>0, <3>1, WordSlot
  <2> QED BY <1>0, <1>1, <1>3, <1>4, <2>1, CapacityAssumption DEF PositionsInv
<1>9. OpenInv'
  BY <1>0, <1>3, <1>4, CapacityAssumption DEF RingInv, OpenInv, Unpublished
<1>10. TakenInv'
  <2> SUFFICES ASSUME NEW k \in R..W
               PROVE  Unpublished(k)' \/ Published(k)'
    BY <1>0, <1>3 DEF TakenInv
  <2>1. CASE k = W
    BY <1>4, <1>7, <2>1 DEF Unpublished
  <2>2. CASE k # W
    <3>1. k \in R..(W - 1) /\ k - Start + 1 \in 1..Len(claimed)
      BY <1>0, <2>2
    <3> QED BY <1>2, <1>4, <3>1 DEF RingInv, TakenInv, Unpublished, Published
  <2> QED BY <2>1, <2>2
<1>11. HolderInv'
  <2> SUFFICES ASSUME NEW q \in Producers, Holds(q)'
               PROVE  /\ at[q] \in R'..(W' - 1)
                      /\ sequence[Slot(at[q])] = Word(at[q])
                      /\ claimed'[at[q] - Start + 1] = ItemOf(q)
                      /\ pc'[q] = "publish" => data[Slot(at[q])] = ItemOf(q)
                      /\ \A r \in Producers \ {q} : Holds(r)' => at[r] # at[q]
    BY <1>4, <1>5 DEF HolderInv, Unpublished, ItemOf
  <2>1. \A r \in Producers \ {p} : Holds(r)' => Holds(r) /\ at[r] \in R..(W - 1)
    BY <1>6 DEF Holds, RingInv, HolderInv
  <2>2. CASE q = p
    <3>1. at[p] \in R'..(W' - 1)
      BY <1>0, <1>1, <1>3
    <3>2. at[p] - Start + 1 = Len(claimed) + 1
      BY <1>0, <1>1
    <3>3. \A r \in Producers \ {p} : Holds(r)' => at[r] # W
      BY <1>0, <2>1
    <3> QED BY <1>1, <1>2, <1>6, <1>7, <2>2, <3>1, <3>2, <3>3
  <2>3. CASE q # p
    <3>1. Holds(q) /\ at[q] \in R..(W - 1) /\ pc'[q] = pc[q]
      BY <1>6, <2>1, <2>3
    <3>2. at[q] - Start + 1 \in 1..Len(claimed)
      <4>1. at[q] \in Int /\ Start <= at[q] /\ at[q] < Start + Len(claimed)
        BY <1>0, <3>1
      <4> QED BY <1>0, <4>1
    <3>3. ASSUME NEW r \in Producers, r # q, Holds(r)'
          PROVE  at[r] # at[q]
      <4>1. CASE r = p
        BY <1>0, <1>1, <3>1, <4>1
      <4>2. CASE r # p
        <5>1. Holds(r)
          BY <1>6, <3>3, <4>2 DEF Holds
        <5> QED BY <3>1, <3>3, <5>1 DEF RingInv, HolderInv
      <4> QED BY <4>1, <4>2
    <3>4. at[q] \in R'..(W' - 1)
      BY <1>0, <1>3, <3>1
    <3>5. /\ sequence[Slot(at[q])] = Word(at[q])
          /\ claimed[at[q] - Start + 1] = ItemOf(q)
          /\ pc[q] = "publish" => data[Slot(at[q])] = ItemOf(q)
      BY <3>1 DEF RingInv, HolderInv, Unpublished
    <3> QED BY <1>2, <3>1, <3>2, <3>3, <3>4, <3>5
  <2> QED BY <2>2, <2>3
<1>12. PosInv'
  BY <1>0, <1>1, <1>3, <1>4, <1>5, <1>6 DEF RingInv, PosInv, TypeInv, TypeOK, CasOk
<1>13. ConsumerInv'
  <2>1. cpc # "idle" => R - Start + 1 \in 1..Len(claimed)
                        /\ Len(popped) + 1 \in 1..Len(claimed)
    BY <1>0 DEF RingInv, ConsumerInv
  <2> SUFFICES ASSUME cpc # "idle"
               PROVE  /\ R' < W'
                      /\ Published(R)'
                      /\ cpc = "release" => item = claimed'[Len(popped) + 1]
    BY <1>3, <1>4 DEF ConsumerInv
  <2>2. /\ R < W
        /\ sequence[Slot(R)] = Word(R + 1)
        /\ data[Slot(R)] = claimed[R - Start + 1]
        /\ cpc = "release" => item = claimed[Len(popped) + 1]
    BY DEF RingInv, ConsumerInv, Published
  <2>3. /\ claimed'[R - Start + 1] = claimed[R - Start + 1]
        /\ claimed'[Len(popped) + 1] = claimed[Len(popped) + 1]
    BY <1>2, <2>1
  <2>4. Published(R)'
    BY <1>3, <1>4, <2>2, <2>3 DEF Published
  <2> QED BY <1>0, <1>3, <2>2, <2>3, <2>4
<1>14. Fifo'
  BY <1>0, <1>2, <1>3 DEF RingInv, Fifo
<1> QED BY <1>8, <1>9, <1>10, <1>11, <1>12, <1>13, <1>14 DEF SlotsInv

\* What is known of a producer that holds a slot.
LEMMA Holder ==
  ASSUME TypeInv, RingInv, NEW p \in Producers, Holds(p)
  PROVE  /\ W \in Nat /\ R \in Nat /\ R <= W /\ W <= R + Capacity
         /\ at[p] \in Nat /\ at[p] \in R..(W - 1)
         /\ at[p] \in R..(R + Capacity - 1)
         /\ Slot(pos[p]) = Slot(at[p])
         /\ Word(pos[p] + 1) = Word(at[p] + 1)
         /\ sequence[Slot(at[p])] = Word(at[p])
         /\ claimed[at[p] - Start + 1] = ItemOf(p)
         /\ cpc # "idle" => at[p] # R
<1>1. W \in Nat /\ R \in Nat /\ R <= W /\ W <= R + Capacity
  BY PositionsTyped DEF TypeInv, RingInv, PositionsInv
<1>2. /\ at[p] \in R..(W - 1)
      /\ sequence[Slot(at[p])] = Word(at[p])
      /\ claimed[at[p] - Start + 1] = ItemOf(p)
      /\ pos[p] = Word(at[p])
  BY DEF RingInv, HolderInv, PosInv, Holds, Unpublished
<1>3. at[p] \in Nat /\ at[p] \in R..(R + Capacity - 1)
  BY <1>1, <1>2, CapacityAssumption
<1>4. Slot(pos[p]) = Slot(at[p]) /\ Word(pos[p] + 1) = Word(at[p] + 1)
  BY <1>2, <1>3, WordSlot
<1>5. cpc # "idle" => at[p] # R
  <2>1. cpc # "idle" => sequence[Slot(R)] = Word(R + 1)
    BY DEF RingInv, ConsumerInv, Published
  <2>2. R + 1 \in Nat /\ R < R + 1 /\ R + 1 < R + Modulus
    BY <1>1, CapacityAssumption, ModulusAssumption
  <2>3. Word(R) # Word(R + 1)
    BY <1>1, <2>2, WordSlot
  <2> QED BY <1>2, <2>1, <2>3
<1> QED BY <1>1, <1>2, <1>3, <1>4, <1>5

\* slot.data = item touches only the slot its producer holds, which is not
\* published yet.
LEMMA WriteDataStep ==
  ASSUME TypeInv, RingInv, NEW p \in Producers, WriteData(p)
  PROVE  SlotsInv' /\ HolderInv' /\ PosInv'
<1>0. Holds(p)
  BY DEF WriteData, Holds
<1>1. /\ W \in Nat /\ R \in Nat /\ R <= W /\ W <= R + Capacity
      /\ at[p] \in Nat /\ at[p] \in R..(W - 1)
      /\ at[p] \in R..(R + Capacity - 1)
      /\ Slot(pos[p]) = Slot(at[p])
      /\ sequence[Slot(at[p])] = Word(at[p])
      /\ claimed[at[p] - Start + 1] = ItemOf(p)
      /\ cpc # "idle" => at[p] # R
  BY <1>0, Holder
<1>2. /\ UNCHANGED <<sequence, write_pos, read_pos, cpc, item, popped, claimed,
                     pos, calls, at>>
      /\ data' = [data EXCEPT ![Slot(at[p])] = ItemOf(p)]
      /\ pc' = [pc EXCEPT ![p] = "publish"]
  BY <1>1 DEF WriteData, Goto, consumerVars
<1>3. W' = W /\ R' = R
  BY <1>2 DEF W, R
<1>4. /\ data'[Slot(at[p])] = ItemOf(p)
      /\ \A k \in R..(R + Capacity - 1) : k # at[p] =>
            data'[Slot(k)] = data[Slot(k)] /\ Slot(k) # Slot(at[p])
  <2>1. Slot(at[p]) \in Slots
    BY <1>1, WordSlot
  <2>2. \A k \in R..(R + Capacity - 1) : k # at[p] => Slot(k) # Slot(at[p])
    BY <1>1, Window
  <2>3. \A k \in R..(R + Capacity - 1) : Slot(k) \in Slots
    BY <1>1, WordSlot, CapacityAssumption
  <2> QED BY <1>2, <2>1, <2>2, <2>3 DEF TypeInv, TypeOK
<1>5. pc'[p] = "publish" /\ \A q \in Producers \ {p} : pc'[q] = pc[q]
  BY <1>2 DEF TypeInv, TypeOK
<1>6. PositionsInv' /\ OpenInv' /\ Fifo'
  BY <1>2, <1>3 DEF RingInv, PositionsInv, OpenInv, Fifo, Unpublished
<1>7. TakenInv'
  <2> SUFFICES ASSUME NEW k \in R..(W - 1)
               PROVE  Unpublished(k)' \/ Published(k)'
    BY <1>3 DEF TakenInv
  <2>1. CASE k = at[p]
    BY <1>1, <1>2, <2>1 DEF Unpublished
  <2>2. CASE k # at[p]
    <3>1. k \in R..(R + Capacity - 1)
      BY <1>1, CapacityAssumption
    <3> QED
      BY <1>2, <1>4, <2>2, <3>1 DEF RingInv, TakenInv, Unpublished, Published
  <2> QED BY <2>1, <2>2
<1>8. ConsumerInv'
  <2>1. R \in R..(R + Capacity - 1)
    BY <1>1, CapacityAssumption
  <2> QED BY <1>1, <1>2, <1>3, <1>4, <2>1 DEF RingInv, ConsumerInv, Published
<1>9. HolderInv'
  <2> SUFFICES ASSUME NEW q \in Producers, Holds(q)'
               PROVE  /\ at[q] \in R..(W - 1)
                      /\ sequence[Slot(at[q])] = Word(at[q])
                      /\ claimed[at[q] - Start + 1] = ItemOf(q)
                      /\ pc'[q] = "publish" => data'[Slot(at[q])] = ItemOf(q)
                      /\ \A r \in Producers \ {q} : Holds(r)' => at[r] # at[q]
    BY <1>2, <1>3 DEF HolderInv, Unpublished, ItemOf
  <2>1. \A r \in Producers : Holds(r)' => Holds(r)
    BY <1>0, <1>5 DEF Holds
  <2>2. Holds(q) /\ \A r \in Producers \ {q} : Holds(r)' => at[r] # at[q]
    BY <2>1 DEF RingInv, HolderInv
  <2>3. /\ at[q] \in R..(W - 1) /\ sequence[Slot(at[q])] = Word(at[q])
        /\ claimed[at[q] - Start + 1] = ItemOf(q)
    BY <2>2 DEF RingInv, HolderInv, Unpublished
  <2>4. pc'[q] = "publish" => data'[Slot(at[q])] = ItemOf(q)
    <3>1. CASE q = p
      BY <1>4, <3>1
    <3>2. CASE q # p
      <4>1. at[q] # at[p] /\ at[q] \in R..(R + Capacity - 1)
        BY <1>0, <1>1, <2>2, <2>3, <3>2, CapacityAssumption DEF RingInv, HolderInv
      <4> QED BY <1>4, <1>5, <2>2, <3>2, <4>1 DEF RingInv, HolderInv
    <3> QED BY <3>1, <3>2
  <2> QED BY <2>2, <2>3, <2>4
<1>10. PosInv'
  <2>1. pc[p] = "write"
    BY DEF WriteData
  <2> QED BY <1>2, <1>3, <1>5, <2>1 DEF RingInv, PosInv
<1> QED BY <1>6, <1>7, <1>8, <1>9, <1>10 DEF SlotsInv

\* The release store turns the holder's claimed position into a published one
\* that carries its item.
LEMMA PublishStep ==
  ASSUME TypeInv, RingInv, NEW p \in Producers, Publish(p)
  PROVE  SlotsInv' /\ HolderInv' /\ PosInv'
<1>0. Holds(p) /\ pc[p] = "publish"
  BY DEF Publish, Holds
<1>1. /\ W \in Nat /\ R \in Nat /\ R <= W /\ W <= R + Capacity
      /\ at[p] \in Nat /\ at[p] \in R..(W - 1)
      /\ at[p] \in R..(R + Capacity - 1)
      /\ Slot(pos[p]) = Slot(at[p])
      /\ Word(pos[p] + 1) = Word(at[p] + 1)
      /\ claimed[at[p] - Start + 1] = ItemOf(p)
      /\ cpc # "idle" => at[p] # R
  BY <1>0, Holder
<1>2. /\ UNCHANGED <<data, write_pos, read_pos, cpc, item, popped, claimed,
                     pos, calls, at>>
      /\ sequence' = [sequence EXCEPT ![Slot(at[p])] = Word(at[p] + 1)]
      /\ pc' = [pc EXCEPT ![p] = "idle"]
  BY <1>1 DEF Publish, Goto, consumerVars
<1>3. W' = W /\ R' = R
  BY <1>2 DEF W, R
<1>4. /\ sequence'[Slot(at[p])] = Word(at[p] + 1)
      /\ \A k \in R..(R + Capacity - 1) : k # at[p] =>
            sequence'[Slot(k)] = sequence[Slot(k)]
  <2>1. Slot(at[p]) \in Slots
    BY <1>1, WordSlot
  <2>2. \A k \in R..(R + Capacity - 1) : k # at[p] => Slot(k) # Slot(at[p])
    BY <1>1, Window
  <2>3. \A k \in R..(R + Capacity - 1) : Slot(k) \in Slots
    BY <1>1, WordSlot, CapacityAssumption
  <2> QED BY <1>2, <2>1, <2>2, <2>3 DEF TypeInv, TypeOK
<1>5. pc'[p] = "idle" /\ \A q \in Producers \ {p} : pc'[q] = pc[q]
  BY <1>2 DEF TypeInv, TypeOK
<1>6. PositionsInv' /\ Fifo'
  BY <1>2, <1>3 DEF RingInv, PositionsInv, Fifo
<1>7. OpenInv'
  <2> SUFFICES ASSUME NEW k \in W..(R + Capacity - 1)
               PROVE  sequence'[Slot(k)] = Word(k)
    BY <1>3 DEF OpenInv, Unpublished
  <2>1. k \in R..(R + Capacity - 1) /\ k # at[p]
    BY <1>1, CapacityAssumption
  <2> QED BY <1>4, <2>1 DEF RingInv, OpenInv, Unpublished
<1>8. TakenInv'
  <2> SUFFICES ASSUME NEW k \in R..(W - 1)
               PROVE  Unpublished(k)' \/ Published(k)'
    BY <1>3 DEF TakenInv
  <2>1. CASE k = at[p]
    <3>1. data[Slot(at[p])] = ItemOf(p)
      BY <1>0 DEF RingInv, HolderInv
    <3> QED BY <1>1, <1>2, <1>4, <2>1, <3>1 DEF Published
  <2>2. CASE k # at[p]
    <3>1. k \in R..(R + Capacity - 1)
      BY <1>1, CapacityAssumption
    <3> QED
      BY <1>2, <1>4, <2>2, <3>1 DEF RingInv, TakenInv, Unpublished, Published
  <2> QED BY <2>1, <2>2
<1>9. ConsumerInv'
  <2>1. R \in R..(R + Capacity - 1)
    BY <1>1, CapacityAssumption
  <2> QED BY <1>1, <1>2, <1>3, <1>4, <2>1 DEF RingInv, ConsumerInv, Published
<1>10. HolderInv'
  <2> SUFFICES ASSUME NEW q \in Producers, Holds(q)'
               PROVE  /\ at[q] \in R..(W - 1)
                      /\ sequence'[Slot(at[q])] = Word(at[q])
                      /\ claimed[at[q] - Start + 1] = ItemOf(q)
                      /\ pc'[q] = "publish" => data[Slot(at[q])] = ItemOf(q)
                      /\ \A r \in Producers \ {q} : Holds(r)' => at[r] # at[q]
    BY <1>2, <1>3 DEF HolderInv, Unpublished, ItemOf
  <2>1. \A r \in Producers : Holds(r)' => Holds(r) /\ r # p
    BY <1>5 DEF Holds
  <2>2. Holds(q) /\ q # p /\ pc'[q] = pc[q]
        /\ \A r \in Producers \ {q} : Holds(r)' => at[r] # at[q]
    BY <1>5, <2>1 DEF RingInv, HolderInv
  <2>3. /\ at[q] \in R..(W - 1) /\ sequence[Slot(at[q])] = Word(at[q])
        /\ claimed[at[q] - Start + 1] = ItemOf(q)
        /\ pc[q] = "publish" => data[Slot(at[q])] = ItemOf(q)
    BY <2>2 DEF RingInv, HolderInv, Unpublished
  <2>4. at[q] # at[p] /\ at[q] \in R..(R + Capacity - 1)
    BY <1>0, <1>1, <2>2, <2>3, CapacityAssumption DEF RingInv, HolderInv
  <2> QED BY <1>4, <2>2, <2>3, <2>4
<1>11. PosInv'
  BY <1>2, <1>3, <1>5 DEF RingInv, PosInv
<1> QED BY <1>6, <1>7, <1>8, <1>9, <1>10, <1>11 DEF SlotsInv

\* What the consumer knows of the head.
LEMMA ConsumerPosition ==
  ASSUME TypeInv, RingInv
  PROVE  /\ W \in Nat /\ R \in Nat /\ R <= W /\ W <= R + Capacity
         /\ R - Start + 1 = Len(popped) + 1
         /\ Slot(read_pos) = Slot(R)
         /\ Word(read_pos + 1) = Word(R + 1)
         /\ Word(read_pos + Capacity) = Word(R + Capacity)
         /\ Word(R) # Word(R + 1)
<1>1. /\ W \in Nat /\ R \in Nat /\ R <= W /\ W <= R + Capacity
      /\ read_pos = Word(R)
  BY PositionsTyped DEF TypeInv, RingInv, PositionsInv
<1>2. R - Start + 1 = Len(popped) + 1
  BY BoundsAssumption DEF R, TypeInv, TypeOK
<1>3. /\ Slot(read_pos) = Slot(R)
      /\ Word(read_pos + 1) = Word(R + 1)
      /\ Word(read_pos + Capacity) = Word(R + Capacity)
  BY <1>1, WordSlot, CapacityAssumption
<1>4. R + 1 \in Nat /\ R < R + 1 /\ R + 1 < R + Modulus
  BY <1>1, CapacityAssumption, ModulusAssumption
<1>5. Word(R) # Word(R + 1)
  BY <1>1, <1>4, WordSlot
<1> QED BY <1>1, <1>2, <1>3, <1>5

\* TryPop finds the head published: then the queue is not empty, and the head
\* holds its item.
LEMMA PopCheckStep ==
  ASSUME TypeInv, RingInv, PopCheck
  PROVE  SlotsInv' /\ HolderInv' /\ PosInv'
<1>0. /\ W \in Nat /\ R \in Nat /\ R <= W
      /\ Slot(read_pos) = Slot(R)
      /\ Word(read_pos + 1) = Word(R + 1)
      /\ Word(R) # Word(R + 1)
  BY ConsumerPosition
<1>1. /\ UNCHANGED <<sequence, data, write_pos, read_pos, item, popped, claimed,
                     pc, pos, calls, at>>
      /\ cpc' = "copy"
  BY DEF PopCheck, slotVars, producerVars
<1>2. W' = W /\ R' = R
  BY <1>1 DEF W, R
<1>3. sequence[Slot(R)] = Word(R + 1)
  BY <1>0 DEF PopCheck, Empty
<1>4. R < W
  <2> SUFFICES ASSUME R = W PROVE FALSE
    BY <1>0
  <2>1. R \in W..(R + Capacity - 1)
    BY <1>0, CapacityAssumption
  <2> QED BY <1>0, <1>3, <2>1 DEF RingInv, OpenInv, Unpublished
<1>5. Published(R)
  BY <1>0, <1>3, <1>4 DEF RingInv, TakenInv, Unpublished
<1>6. ConsumerInv'
  BY <1>1, <1>2, <1>4, <1>5 DEF ConsumerInv, Published
<1>7. PositionsInv' /\ OpenInv' /\ TakenInv' /\ Fifo'
  BY <1>1, <1>2
  DEF RingInv, PositionsInv, OpenInv, TakenInv, Fifo, Unpublished, Published
<1>8. HolderInv' /\ PosInv'
  BY <1>1, <1>2 DEF RingInv, HolderInv, PosInv, Holds, Unpublished, ItemOf
<1> QED BY <1>6, <1>7, <1>8 DEF SlotsInv

\* item = slot.data copies the item of the published head.
LEMMA CopyDataStep ==
  ASSUME TypeInv, RingInv, CopyData
  PROVE  SlotsInv' /\ HolderInv' /\ PosInv'
<1>0. Slot(read_pos) = Slot(R) /\ R - Start + 1 = Len(popped) + 1
  BY ConsumerPosition
<1>1. /\ UNCHANGED <<sequence, data, write_pos, read_pos, popped, claimed,
                     pc, pos, calls, at>>
      /\ cpc = "copy" /\ cpc' = "release"
      /\ item' = data[Slot(R)]
  BY <1>0 DEF CopyData, slotVars, producerVars
<1>2. W' = W /\ R' = R
  BY <1>1 DEF W, R
<1>3. ConsumerInv'
  BY <1>0, <1>1, <1>2 DEF RingInv, ConsumerInv, Published
<1>4. PositionsInv' /\ OpenInv' /\ TakenInv' /\ Fifo'
  BY <1>1, <1>2
  DEF RingInv, PositionsInv, OpenInv, TakenInv, Fifo, Unpublished, Published
<1>5. HolderInv' /\ PosInv'
  BY <1>1, <1>2 DEF RingInv, HolderInv, PosInv, Holds, Unpublished, ItemOf
<1> QED BY <1>3, <1>4, <1>5 DEF SlotsInv

\* Releasing the head opens its slot for the position one turn later.
LEMMA ReleaseSlotStep ==
  ASSUME TypeInv, RingInv, ReleaseSlot
  PROVE  SlotsInv' /\ HolderInv' /\ PosInv'
<1>0. /\ W \in Nat /\ R \in Nat /\ R <= W /\ W <= R + Capacity
      /\ R - Start + 1 = Len(popped) + 1
      /\ Slot(read_pos) = Slot(R)
      /\ Word(read_pos + 1) = Word(R + 1)
      /\ Word(read_pos + Capacity) = Word(R + Capacity)
  BY ConsumerPosition
<1>1. /\ UNCHANGED <<data, write_pos, item, claimed, pc, pos, calls, at>>
      /\ cpc = "release" /\ cpc' = "idle"
      /\ sequence' = [sequence EXCEPT ![Slot(R)] = Word(R + Capacity)]
      /\ read_pos' = Word(R + 1)
      /\ popped' = Append(popped, item)
  BY <1>0 DEF ReleaseSlot, producerVars
<1>2. /\ R < W
      /\ item = claimed[Len(popped) + 1]
  BY <1>1 DEF RingInv, ConsumerInv
<1>3. /\ Len(popped') = Len(popped) + 1
      /\ \A k \in 1..Len(popped) : popped'[k] = popped[k]
      /\ popped'[Len(popped) + 1] = item
      /\ Len(popped) \in Nat /\ Len(claimed) \in Nat
  BY <1>1 DEF TypeInv, TypeOK
<1>4. W' = W /\ R' = R + 1
  BY <1>1, <1>3, BoundsAssumption DEF W, R
<1>5. /\ sequence'[Slot(R)] = Word(R + Capacity)
      /\ \A k \in (R + 1)..(R + Capacity - 1) : sequence'[Slot(k)] = sequence[Slot(k)]
  <2>1. Slot(R) \in Slots
    BY <1>0, WordSlot
  <2>2. \A k \in (R + 1)..(R + Capacity - 1) : Slot(k) # Slot(R)
    <3> SUFFICES ASSUME NEW k \in (R + 1)..(R + Capacity - 1)
                 PROVE  Slot(k) # Slot(R)
      OBVIOUS
    <3>1. k \in R..(R + Capacity - 1) /\ R \in R..(R + Capacity - 1) /\ k # R
      BY <1>0, CapacityAssumption
    <3> QED BY <3>1, Window
  <2>3. \A k \in (R + 1)..(R + Capacity - 1) : Slot(k) \in Slots
    BY <1>0, WordSlot, CapacityAssumption
  <2> QED BY <1>1, <2>1, <2>2, <2>3 DEF TypeInv, TypeOK
<1>6. PositionsInv'
  BY <1>0, <1>1, <1>2, <1>4, CapacityAssumption DEF RingInv, PositionsInv
<1>7. OpenInv'
  <2> SUFFICES ASSUME NEW k \in W..((R + 1) + Capacity - 1)
               PROVE  sequence'[Slot(k)] = Word(k)
    BY <1>4 DEF OpenInv, Unpublished
  <2>1. CASE k = R + Capacity
    BY <1>0, <1>5, <2>1, WordSlot
  <2>2. CASE k # R + Capacity
    <3>1. k \in W..(R + Capacity - 1) /\ k \in (R + 1)..(R + Capacity - 1)
      BY <1>0, <1>2, <2>2, CapacityAssumption
    <3> QED BY <1>5, <3>1 DEF RingInv, OpenInv, Unpublished
  <2> QED BY <2>1, <2>2
<1>8. TakenInv'
  <2> SUFFICES ASSUME NEW k \in (R + 1)..(W - 1)
               PROVE  Unpublished(k)' \/ Published(k)'
    BY <1>4 DEF TakenInv
  <2>1. k \in R..(W - 1) /\ k \in (R + 1)..(R + Capacity - 1)
    BY <1>0, CapacityAssumption
  <2> QED BY <1>1, <1>5, <2>1 DEF RingInv, TakenInv, Unpublished, Published
<1>9. ConsumerInv'
  BY <1>1 DEF ConsumerInv
<1>10. Fifo'
  <2>1. Len(popped) + 1 <= Len(claimed)
    BY <1>0, <1>2, <1>3, BoundsAssumption DEF W, R
  <2> QED BY <1>1, <1>2, <1>3, <2>1 DEF RingInv, Fifo
<1>11. HolderInv'
  <2> SUFFICES ASSUME NEW q \in Producers, Holds(q)
               PROVE  /\ at[q] \in (R + 1)..(W - 1)
                      /\ sequence'[Slot(at[q])] = Word(at[q])
                      /\ claimed[at[q] - Start + 1] = ItemOf(q)
                      /\ pc[q] = "publish" => data[Slot(at[q])] = ItemOf(q)
                      /\ \A r \in Producers \ {q} : Holds(r) => at[r] # at[q]
    BY <1>1, <1>4 DEF HolderInv, Unpublished, ItemOf, Holds
  <2>1. at[q] \in R..(W - 1) /\ at[q] # R
    BY <1>1, Holder
  <2>2. at[q] \in (R + 1)..(W - 1) /\ at[q] \in (R + 1)..(R + Capacity - 1)
    BY <1>0, <2>1, CapacityAssumption
  <2> QED BY <1>5, <2>2 DEF RingInv, HolderInv, Unpublished
<1>12. PosInv'
  BY <1>0, <1>1, <1>4, CapacityAssumption DEF RingInv, PosInv
<1> QED BY <1>6, <1>7, <1>8, <1>9, <1>10, <1>11, <1>12 DEF SlotsInv

\* Every step keeps the invariant.
LEMMA RingNext ==
  ASSUME Capacity > 1
  PROVE  TypeInv /\ RingInv /\ NoLap /\ [Next]_vars => RingInv'
<1> SUFFICES ASSUME TypeInv, RingInv, NoLap, [Next]_vars PROVE RingInv'
  OBVIOUS
<1>1. CallsInv'
  BY NextTyped DEF TypeInv
<1> SUFFICES SlotsInv' /\ HolderInv' /\ PosInv'
  BY <1>1 DEF RingInv, SlotsInv
<1>2. ASSUME NEW p \in Producers,
             \/ LoadPos(p) \/ SlotFree(p) \/ SlotFull(p) \/ SlotStale(p)
             \/ Reload(p) \/ CasFail(p)
      PROVE  SlotsInv' /\ HolderInv' /\ PosInv'
  BY <1>2, LocalActions
<1>3. ASSUME NEW p \in Producers, CasOk(p)
      PROVE  SlotsInv' /\ HolderInv' /\ PosInv'
  BY <1>3, CasOkStep
<1>4. ASSUME NEW p \in Producers, WriteData(p)
      PROVE  SlotsInv' /\ HolderInv' /\ PosInv'
  BY <1>4, WriteDataStep
<1>5. ASSUME NEW p \in Producers, Publish(p)
      PROVE  SlotsInv' /\ HolderInv' /\ PosInv'
  BY <1>5, PublishStep
<1>6. CASE PopCheck
  BY <1>6, PopCheckStep
<1>7. CASE CopyData
  BY <1>7, CopyDataStep
<1>8. CASE ReleaseSlot
  BY <1>8, ReleaseSlotStep
<1>9. CASE UNCHANGED vars
  <2>1. UNCHANGED <<slotVars, write_pos, consumerVars, claimed, producerVars>>
    BY <1>9 DEF vars
  <2>2. SlotsInv' /\ W' = W /\ R' = R
    BY <2>1, SlotsFrame DEF RingInv, SlotsInv
  <2> QED
    BY <2>1, <2>2
    DEF RingInv, HolderInv, PosInv, Holds, Unpublished, ItemOf, slotVars,
        producerVars
<1> QED
  BY <1>2, <1>3, <1>4, <1>5, <1>6, <1>7, <1>8, <1>9 DEF Next, Producer, Consumer

\* The invariant holds throughout, for every number of producers, every ring of
\* at least two slots and every word size, across any number of wraps of the
\* positions, as long as no producer is lapped.
THEOREM RingCorrect ==
  ASSUME Capacity > 1
  PROVE  Spec /\ []NoLap => []RingInv
<1>1. TypeInv /\ RingInv /\ NoLap /\ [Next]_vars => TypeInv' /\ RingInv'
  BY NextTyped, RingNext
<1> QED BY <1>1, InitTyped, RingInit, PTL DEF Spec

\* TryPop returns the pushed items in the order in which their compare-
\* exchanges won, each once.
THEOREM FifoCorrect ==
  ASSUME Capacity > 1
  PROVE  Spec /\ []NoLap => []Fifo
<1>1. RingInv => Fifo
  BY DEF RingInv
<1> QED BY <1>1, RingCorrect, PTL

\* No two threads access the payload of a slot at once when one writes it.
THEOREM NoDataRaceCorrect ==
  ASSUME Capacity > 1
  PROVE  Spec /\ []NoLap => []NoDataRace
<1>1. ASSUME TypeInv, RingInv PROVE NoDataRace
  <2>1. ASSUME NEW p \in Producers, NEW q \in Producers, p # q,
               pc[p] = "write", pc[q] = "write"
        PROVE  Slot(pos[p]) # Slot(pos[q])
    <3>1. Holds(p) /\ Holds(q)
      BY <2>1 DEF Holds
    <3>2. /\ at[p] \in R..(R + Capacity - 1) /\ Slot(pos[p]) = Slot(at[p])
          /\ at[q] \in R..(R + Capacity - 1) /\ Slot(pos[q]) = Slot(at[q])
      BY <1>1, <3>1, Holder
    <3>3. at[p] # at[q]
      BY <1>1, <2>1, <3>1 DEF RingInv, HolderInv
    <3> QED BY <1>1, <3>2, <3>3, Window
  <2>2. ASSUME NEW p \in Producers, pc[p] = "write", cpc = "copy"
        PROVE  Slot(pos[p]) # Slot(read_pos)
    <3>1. Holds(p)
      BY <2>2 DEF Holds
    <3>2. /\ at[p] \in R..(R + Capacity - 1) /\ Slot(pos[p]) = Slot(at[p])
          /\ at[p] # R /\ R \in Nat
      BY <1>1, <2>2, <3>1, Holder
    <3>3. R \in R..(R + Capacity - 1)
      BY <3>2, CapacityAssumption
    <3>4. Slot(read_pos) = Slot(R)
      BY <1>1, ConsumerPosition
    <3> QED BY <1>1, <3>2, <3>3, <3>4, Window
  <2> QED BY <2>1, <2>2 DEF NoDataRace
<1>2. TypeInv /\ RingInv /\ NoLap /\ [Next]_vars => TypeInv' /\ RingInv'
  BY NextTyped, RingNext
<1>3. TypeInv /\ RingInv => NoDataRace
  BY <1>1
<1> QED BY <1>2, <1>3, InitTyped, RingInit, PTL DEF Spec

-----------------------------------------------------------------------------
(***************************************************************************)
(* Refusals.  Before the positions wrap, `seq < pos` compares what it      *)
(* means to compare.                                                       *)
(***************************************************************************)
\* A position below the modulus is its own word.
LEMMA SmallWord ==
  ASSUME NEW n \in Nat, n < Modulus
  PROVE  Word(n) = n
<1>1. Modulus \in Nat \ {0} /\ 0 \in Int /\ n \in 0..(Modulus - 1)
  BY ModulusAssumption, CapacityAssumption
<1>2. n = Modulus * 0 + n
  BY <1>1
<1> QED BY <1>1, <1>2, ModUnique DEF Word

\* The window that starts at r has a position for the slot of every position.
LEMMA Covering ==
  ASSUME NEW r \in Nat, NEW a \in Nat
  PROVE  \E k \in r..(r + Capacity - 1) : Slot(k) = Slot(a)
<1> DEFINE q == r \div Capacity
           s == r % Capacity
           t == a % Capacity
<1>0. Capacity \in Nat \ {0}
  BY CapacityAssumption
<1>1. q \in Nat /\ s \in 0..(Capacity - 1) /\ r = Capacity * q + s
      /\ t \in 0..(Capacity - 1)
  BY <1>0, DivDef
<1>2. CASE s <= t
  <2> DEFINE k == r + (t - s)
  <2>1. k \in Nat /\ k \in r..(r + Capacity - 1) /\ k = Capacity * q + t /\ q \in Int
    <3> HIDE DEF q, s, t
    <3> QED BY <1>0, <1>1, <1>2
  <2>2. k % Capacity = t
    <3> HIDE DEF k, q, t
    <3> QED BY <1>0, <1>1, <2>1, ModUnique
  <2> QED BY <2>1, <2>2 DEF Slot
<1>3. CASE t < s
  <2> DEFINE k == r + (Capacity + t - s)
             u == q + 1
  <2>1. k \in Nat /\ k \in r..(r + Capacity - 1) /\ k = Capacity * u + t /\ u \in Int
    <3> HIDE DEF q, s, t
    <3> QED BY <1>0, <1>1, <1>3
  <2>2. k % Capacity = t
    <3> HIDE DEF k, u, t
    <3> QED BY <1>0, <1>1, <2>1, ModUnique
  <2> QED BY <2>1, <2>2 DEF Slot
<1>4. s <= t \/ t < s
  BY <1>1
<1> QED BY <1>2, <1>3, <1>4

\* A slot's sequence is never behind the first position of the window that
\* uses it.
LEMMA SequenceNotBehind ==
  ASSUME TypeInv, RingInv, NoWrap, NEW k \in R..(R + Capacity - 1)
  PROVE  sequence[Slot(k)] \in Nat /\ (k < W \/ W < R + Capacity => sequence[Slot(k)] >= k)
<1>1. W \in Nat /\ R \in Nat /\ R <= W /\ W <= R + Capacity /\ k \in Nat
      /\ W + Capacity < Modulus /\ k + 1 < Modulus /\ k < Modulus
  BY PositionsTyped, CapacityAssumption, ModulusAssumption
  DEF TypeInv, RingInv, PositionsInv, NoWrap
<1>2. Word(k) = k /\ Word(k + 1) = k + 1
  BY <1>1, SmallWord
<1>3. sequence[Slot(k)] = Word(k) \/ sequence[Slot(k)] = Word(k + 1)
  <2>1. CASE k < W
    <3>1. k \in R..(W - 1)
      BY <1>1, <2>1
    <3> QED BY <3>1 DEF RingInv, TakenInv, Unpublished, Published
  <2>2. CASE ~(k < W)
    <3>1. k \in W..(R + Capacity - 1)
      BY <1>1, <2>2, CapacityAssumption
    <3> QED BY <3>1 DEF RingInv, OpenInv, Unpublished
  <2> QED BY <2>1, <2>2
<1> QED BY <1>1, <1>2, <1>3

\* A producer that is refused looks at the next position of a full ring.
LEMMA RefusedFull ==
  ASSUME TypeInv, RingInv, NoWrap, NEW p \in Producers, SlotFull(p)
  PROVE  W - R = Capacity
<1>1. /\ W \in Nat /\ R \in Nat /\ R <= W /\ W <= R + Capacity
      /\ W < Modulus /\ at[p] \in Nat /\ at[p] <= W /\ pos[p] = Word(at[p])
  BY PositionsTyped, CapacityAssumption, ModulusAssumption
  DEF TypeInv, TypeOK, RingInv, PositionsInv, PosInv, NoWrap, SlotFull
<1>2. pos[p] = at[p]
  BY <1>1, SmallWord, ModulusAssumption
<1>3. sequence[Slot(at[p])] < at[p]
  BY <1>2 DEF SlotFull, SlotSeq
<1> SUFFICES ASSUME W < R + Capacity PROVE FALSE
  BY <1>1, CapacityAssumption
<1>4. PICK k \in R..(R + Capacity - 1) : Slot(k) = Slot(at[p])
  BY <1>1, Covering
<1>5. sequence[Slot(k)] \in Nat /\ sequence[Slot(k)] >= k
  BY SequenceNotBehind
<1>6. CASE at[p] < R
  BY <1>1, <1>3, <1>4, <1>5, <1>6, CapacityAssumption
<1>7. CASE R <= at[p]
  <2>1. at[p] \in R..(R + Capacity - 1)
    BY <1>1, <1>7, CapacityAssumption
  <2>2. sequence[Slot(at[p])] \in Nat /\ sequence[Slot(at[p])] >= at[p]
    BY <2>1, SequenceNotBehind
  <2> QED BY <1>1, <1>3, <2>2
<1> QED BY <1>1, <1>6, <1>7

\* Once positions have wrapped they stay wrapped.
LEMMA WrapIsForEver ==
  ASSUME TypeInv, [Next]_vars, NoWrap'
  PROVE  NoWrap
<1>1. claimed \in Seq(Items)
  BY DEF TypeInv, TypeOK
<1>2. claimed' = claimed \/ \E x : claimed' = Append(claimed, x)
  BY DEF Next, Producer, Consumer, LoadPos, SlotFree, SlotFull, SlotStale, Reload, CasOk,
         CasFail, WriteData, Publish, PopCheck, CopyData, ReleaseSlot, vars
<1>3. Len(claimed) \in Nat /\ Len(claimed') \in {Len(claimed), Len(claimed) + 1}
  BY <1>1, <1>2
<1> QED BY <1>3, BoundsAssumption, CapacityAssumption, ModulusAssumption DEF NoWrap, W

\* TryPush returns false only when the ring is full, until positions wrap.
THEOREM RefusedCorrect ==
  ASSUME Capacity > 1
  PROVE  Spec => RefusedOnlyWhenFull
<1> DEFINE Unwrapped == TypeInv /\ (NoWrap => RingInv)
<1>1. TypeInv /\ RingInv /\ NoWrap => NoLap
  <2> SUFFICES ASSUME TypeInv, RingInv, NoWrap, NEW p \in Producers
               PROVE  W - at[p] < Modulus
    BY DEF NoLap
  <2>1. W \in Nat /\ at[p] \in Nat /\ W + Capacity < Modulus
    BY PositionsTyped DEF TypeInv, TypeOK, NoWrap
  <2> QED BY <2>1, CapacityAssumption, ModulusAssumption
<1>2. Unwrapped /\ [Next]_vars => Unwrapped'
  BY <1>1, NextTyped, RingNext, WrapIsForEver
<1>3. ASSUME Unwrapped, [Next]_vars
      PROVE  [NoWrap /\ refused' # refused => W - R = Capacity]_vars
  <2> SUFFICES ASSUME NoWrap, refused' # refused PROVE W - R = Capacity
    OBVIOUS
  <2>1. \E p \in Producers : SlotFull(p)
    BY <1>3
    DEF Next, Producer, Consumer, LoadPos, SlotFree, SlotStale, Reload, CasOk,
        CasFail, WriteData, Publish, PopCheck, CopyData, ReleaseSlot, vars
  <2> QED BY <1>3, <2>1, RefusedFull
<1>4. Unwrapped /\ [Next]_vars
        => [NoWrap /\ refused' # refused => W - R = Capacity]_vars
  BY <1>3
<1>5. Init => Unwrapped
  BY InitTyped, RingInit
<1> QED BY <1>2, <1>4, <1>5, PTL DEF Spec, RefusedOnlyWhenFull

-----------------------------------------------------------------------------
(***************************************************************************)
(* The ring implements MPSCQueue.  A successful compare-exchange is a      *)
(* Claim, the publishing store a Publish, the release of the slot a Pop;   *)
(* every other step leaves the queue as it is.                             *)
(***************************************************************************)
\* The cells of the queue, one per claimed and not yet popped position.
LEMMA CellsView ==
  ASSUME TypeInv, RingInv
  PROVE  /\ Len(claimed) - Len(popped) \in Nat
         /\ Len(claimed) - Len(popped) = W - R
         /\ QueueCells \in Seq(Queue!Cells)
         /\ Len(QueueCells) = Len(claimed) - Len(popped)
         /\ \A i \in 1..(Len(claimed) - Len(popped)) :
                QueueCells[i] = [item  |-> claimed[Len(popped) + i],
                                 ready |-> sequence[Slot(R + i - 1)] = Word(R + i)]
<1> DEFINE n == Len(claimed) - Len(popped)
           Cell(i) == [item  |-> claimed[Len(popped) + i],
                       ready |-> sequence[Slot(R + i - 1)] = Word(R + i)]
<1>1. /\ Len(claimed) \in Nat /\ Len(popped) \in Nat
      /\ n \in Nat /\ n = W - R
  BY BoundsAssumption DEF TypeInv, TypeOK, RingInv, Fifo, W, R
<1>2. QueueCells = [i \in 1..n |-> Cell(i)]
  BY DEF QueueCells
<1>3. \A i \in 1..n : Cell(i) \in Queue!Cells
  <2> SUFFICES ASSUME NEW i \in 1..n PROVE Cell(i) \in Queue!Cells
    OBVIOUS
  <2>1. claimed[Len(popped) + i] \in Items
    <3>1. Len(popped) + i \in 1..Len(claimed)
      BY <1>1
    <3> QED BY <3>1 DEF TypeInv, TypeOK
  <2>2. (sequence[Slot(R + i - 1)] = Word(R + i)) \in BOOLEAN
    OBVIOUS
  <2> QED BY <2>1, <2>2 DEF Queue!Cells
<1> HIDE DEF n, Cell
<1>4. QueueCells \in Seq(Queue!Cells) /\ Len(QueueCells) = n
  BY <1>1, <1>2, <1>3
<1>5. \A i \in 1..n : QueueCells[i] = Cell(i)
  BY <1>2
<1> QED BY <1>1, <1>4, <1>5 DEF n, Cell

\* A function on 1..n with the elements of a sequence is the sequence.
LEMMA SeqExtensional ==
  ASSUME NEW S, NEW s \in Seq(S), NEW f, NEW n, Len(s) = n,
         f = [i \in 1..n |-> f[i]], \A i \in 1..n : f[i] = s[i]
  PROVE  f = s
<1>1. s = [i \in 1..n |-> s[i]]
  OBVIOUS
<1> QED BY <1>1

\* The new ring is the empty queue.
LEMMA QueueInitStep == Init => Queue!QueueInit
BY DEF Init, Queue!QueueInit, QueueCells

\* A step that leaves the sequences and the histories alone leaves the queue
\* alone.
LEMMA QueueFrame ==
  ASSUME UNCHANGED <<sequence, claimed, popped>>
  PROVE  UNCHANGED Queue!queueVars
BY DEF Queue!queueVars, QueueCells, R

\* The compare-exchange that wins claims the next cell.
LEMMA CasOkClaims ==
  ASSUME TypeInv, RingInv, NoLap, NEW p \in Producers, CasOk(p)
  PROVE  Queue!Claim(ItemOf(p)) /\ ItemOf(p) \in Items
<1> DEFINE n == Len(claimed) - Len(popped)
           new == [item |-> ItemOf(p), ready |-> FALSE]
<1>1. /\ n \in Nat /\ n = W - R /\ QueueCells \in Seq(Queue!Cells)
      /\ Len(QueueCells) = n
  BY CellsView
<1>2. /\ W \in Nat /\ R \in Nat /\ W < R + Capacity /\ ItemOf(p) \in Items
  BY PositionsTyped, CasWins, ItemTyped DEF TypeInv, CasOk
<1>3. /\ Len(claimed) \in Nat /\ Len(popped) \in Nat
      /\ Len(claimed') = Len(claimed) + 1
      /\ \A k \in 1..Len(claimed) : claimed'[k] = claimed[k]
      /\ claimed'[Len(claimed) + 1] = ItemOf(p)
      /\ UNCHANGED <<sequence, popped>> /\ R' = R
  BY DEF CasOk, TypeInv, TypeOK, R, slotVars, consumerVars
<1>4. (sequence[Slot(W)] = Word(W + 1)) = FALSE
  <2>1. sequence[Slot(W)] = Word(W)
    BY <1>2, CapacityAssumption DEF RingInv, PositionsInv, OpenInv, Unpublished
  <2>2. Word(W) # Word(W + 1)
    <3>1. W + 1 \in Nat /\ W < W + 1 /\ W + 1 < W + Modulus
      BY <1>2, CapacityAssumption, ModulusAssumption
    <3> QED BY <1>2, <3>1, WordSlot
  <2> QED BY <2>1, <2>2
<1>5. /\ QueueCells' = [i \in 1..(n + 1) |->
                          [item  |-> claimed'[Len(popped) + i],
                           ready |-> sequence[Slot(R + i - 1)] = Word(R + i)]]
  BY <1>3 DEF QueueCells
<1>6. \A i \in 1..(n + 1) : QueueCells'[i] = Append(QueueCells, new)[i]
  <2> SUFFICES ASSUME NEW i \in 1..(n + 1)
               PROVE  QueueCells'[i] = Append(QueueCells, new)[i]
    OBVIOUS
  <2>1. CASE i = n + 1
    <3>1. Append(QueueCells, new)[i] = new
      BY <1>1, <2>1
    <3>2. Len(popped) + i = Len(claimed) + 1 /\ R + i - 1 = W /\ R + i = W + 1
      BY <1>1, <1>2, <1>3, <2>1
    <3>3. QueueCells'[i] = [item  |-> claimed'[Len(popped) + i],
                            ready |-> sequence[Slot(R + i - 1)] = Word(R + i)]
      BY <1>5
    <3>4. QueueCells'[i] = [item  |-> ItemOf(p),
                            ready |-> sequence[Slot(W)] = Word(W + 1)]
      BY <1>3, <3>2, <3>3
    <3> QED BY <1>4, <3>1, <3>4
  <2>2. CASE i # n + 1
    <3>1. i \in 1..n /\ Len(popped) + i \in 1..Len(claimed)
      BY <1>1, <1>3, <2>2
    <3>2. Append(QueueCells, new)[i] = QueueCells[i]
      BY <1>1, <3>1
    <3>3. QueueCells[i] = [item  |-> claimed[Len(popped) + i],
                           ready |-> sequence[Slot(R + i - 1)] = Word(R + i)]
      BY <3>1, CellsView
    <3>4. QueueCells'[i] = [item  |-> claimed'[Len(popped) + i],
                            ready |-> sequence[Slot(R + i - 1)] = Word(R + i)]
      BY <1>5
    <3> QED BY <1>3, <3>1, <3>2, <3>3, <3>4
  <2> QED BY <2>1, <2>2
<1>7. QueueCells' = Append(QueueCells, new)
  <2>1. new \in Queue!Cells
    BY <1>2 DEF Queue!Cells
  <2>2. Append(QueueCells, new) \in Seq(Queue!Cells)
        /\ Len(Append(QueueCells, new)) = n + 1
    <3> HIDE DEF new, n
    <3> QED BY <1>1, <2>1
  <2>3. QueueCells' = [i \in 1..(n + 1) |-> QueueCells'[i]]
    BY <1>5
  <2> HIDE DEF new, n
  <2> QED BY <1>6, <2>2, <2>3, SeqExtensional
<1> QED BY <1>1, <1>2, <1>3, <1>7, CapacityAssumption DEF Queue!Claim

\* Setting one field of a cell.
LEMMA ReadyRecord ==
  ASSUME NEW x, NEW b
  PROVE  [[item |-> x, ready |-> b] EXCEPT !.ready = TRUE]
            = [item |-> x, ready |-> TRUE]
<1> DEFINE r == [item |-> x, ready |-> b]
           s == [r EXCEPT !.ready = TRUE]
           t == [item |-> x, ready |-> TRUE]
<1>1. DOMAIN r = {"item", "ready"} /\ r["item"] = x
  OBVIOUS
<1>2. /\ DOMAIN t = {"item", "ready"} /\ t["item"] = x /\ t["ready"] = TRUE
      /\ t = [c \in {"item", "ready"} |-> t[c]]
  OBVIOUS
<1> HIDE DEF r
<1>3. /\ DOMAIN s = {"item", "ready"} /\ s["item"] = x /\ s["ready"] = TRUE
      /\ s = [c \in {"item", "ready"} |-> s[c]]
  BY <1>1
<1> HIDE DEF s, t
<1>4. s = t
  BY <1>2, <1>3
<1> QED BY <1>4 DEF r, s, t

\* The publishing store makes the producer's own cell readable.
LEMMA PublishPublishes ==
  ASSUME TypeInv, RingInv, NEW p \in Producers, Publish(p)
  PROVE  \E k \in DOMAIN QueueCells : Queue!Publish(k)
<1> DEFINE n == Len(claimed) - Len(popped)
           k == at[p] - R + 1
           marked == [QueueCells EXCEPT ![k].ready = TRUE]
<1>0. Holds(p)
  BY DEF Publish, Holds
<1>1. /\ n \in Nat /\ n = W - R /\ QueueCells \in Seq(Queue!Cells)
      /\ Len(QueueCells) = n
  BY CellsView
<1>2. /\ W \in Nat /\ R \in Nat /\ W <= R + Capacity
      /\ at[p] \in Nat /\ at[p] \in R..(W - 1)
      /\ at[p] \in R..(R + Capacity - 1)
      /\ Slot(pos[p]) = Slot(at[p]) /\ Word(pos[p] + 1) = Word(at[p] + 1)
      /\ sequence[Slot(at[p])] = Word(at[p])
  BY <1>0, Holder
<1>3. k \in 1..n /\ R + k - 1 = at[p] /\ R + k = at[p] + 1
  <2> HIDE DEF n
  <2> QED BY <1>1, <1>2
<1>4. Word(at[p]) # Word(at[p] + 1)
  <2>1. at[p] + 1 \in Nat /\ at[p] < at[p] + 1 /\ at[p] + 1 < at[p] + Modulus
    BY <1>2, CapacityAssumption, ModulusAssumption
  <2> QED BY <1>2, <2>1, WordSlot
<1>5. /\ UNCHANGED <<claimed, popped>> /\ R' = R
      /\ sequence' = [sequence EXCEPT ![Slot(at[p])] = Word(at[p] + 1)]
  BY <1>2 DEF Publish, consumerVars, R
<1>6. \A j \in R..(R + Capacity - 1) : j # at[p] =>
        sequence'[Slot(j)] = sequence[Slot(j)]
  <2>1. \A j \in R..(R + Capacity - 1) : j # at[p] => Slot(j) # Slot(at[p])
    BY <1>2, Window
  <2>2. \A j \in R..(R + Capacity - 1) : Slot(j) \in Slots
    BY <1>2, WordSlot, CapacityAssumption
  <2> QED BY <1>5, <2>1, <2>2 DEF TypeInv, TypeOK
<1>7. sequence'[Slot(at[p])] = Word(at[p] + 1)
  <2>1. Slot(at[p]) \in Slots
    BY <1>2, WordSlot
  <2> QED BY <1>5, <2>1 DEF TypeInv, TypeOK
<1>8. QueueCells' = [i \in 1..n |->
                      [item  |-> claimed[Len(popped) + i],
                       ready |-> sequence'[Slot(R + i - 1)] = Word(R + i)]]
  BY <1>5 DEF QueueCells
<1>9. QueueCells[k].ready = FALSE
  <2>1. QueueCells[k] = [item  |-> claimed[Len(popped) + k],
                         ready |-> sequence[Slot(R + k - 1)] = Word(R + k)]
    <3> HIDE DEF k
    <3> QED BY <1>3, CellsView
  <2>2. (sequence[Slot(R + k - 1)] = Word(R + k)) = FALSE
    <3> HIDE DEF k
    <3> QED BY <1>2, <1>3, <1>4
  <2>3. QueueCells[k] = [item |-> claimed[Len(popped) + k], ready |-> FALSE]
    BY <2>1, <2>2
  <2> QED BY <2>3
<1>10. \A i \in 1..n : QueueCells'[i] = marked[i]
  <2> SUFFICES ASSUME NEW i \in 1..n PROVE QueueCells'[i] = marked[i]
    OBVIOUS
  <2>1. QueueCells[i] = [item  |-> claimed[Len(popped) + i],
                         ready |-> sequence[Slot(R + i - 1)] = Word(R + i)]
    BY CellsView
  <2>2. QueueCells'[i] = [item  |-> claimed[Len(popped) + i],
                          ready |-> sequence'[Slot(R + i - 1)] = Word(R + i)]
    BY <1>8
  <2>3. CASE i = k
    <3>1. (sequence'[Slot(R + i - 1)] = Word(R + i)) = TRUE
      <4> HIDE DEF k
      <4> QED BY <1>3, <1>7, <2>3
    <3>2. marked[i] = [QueueCells[i] EXCEPT !.ready = TRUE]
      <4> HIDE DEF k
      <4>1. i \in DOMAIN QueueCells
        BY <1>1
      <4> QED BY <2>3, <4>1
    <3>3. marked[i] = [item |-> claimed[Len(popped) + i], ready |-> TRUE]
      <4> DEFINE x == claimed[Len(popped) + i]
                 b == sequence[Slot(R + i - 1)] = Word(R + i)
      <4>1. QueueCells[i] = [item |-> x, ready |-> b]
        BY <2>1
      <4>2. [[item |-> x, ready |-> b] EXCEPT !.ready = TRUE]
              = [item |-> x, ready |-> TRUE]
        <5> HIDE DEF x, b
        <5> QED BY ReadyRecord
      <4> HIDE DEF x, b, marked
      <4>3. marked[i] = [item |-> x, ready |-> TRUE]
        BY <3>2, <4>1, <4>2
      <4> QED BY <4>3 DEF x
    <3> QED BY <2>2, <3>1, <3>3
  <2>4. CASE i # k
    <3>1. marked[i] = QueueCells[i]
      <4> HIDE DEF k
      <4> QED BY <1>1, <1>3, <2>4
    <3>2. R + i - 1 \in R..(R + Capacity - 1) /\ R + i - 1 # at[p]
      <4> DEFINE r == R
                 w == W
                 h == at[p]
      <4>1. /\ r \in Nat /\ w \in Nat /\ w <= r + Capacity /\ n = w - r /\ n \in Nat
            /\ h \in Nat /\ i # h - r + 1 /\ Capacity \in Nat
        BY <1>1, <1>2, <2>4, CapacityAssumption
      <4> HIDE DEF n, r, w, h
      <4>2. r + i - 1 \in r..(r + Capacity - 1) /\ r + i - 1 # h
        BY <4>1
      <4> QED BY <4>2 DEF r, h
    <3>3. sequence'[Slot(R + i - 1)] = sequence[Slot(R + i - 1)]
      BY <1>6, <3>2
    <3> QED BY <2>1, <2>2, <3>1, <3>3
  <2> QED BY <2>3, <2>4
<1>11. QueueCells' = marked
  <2>1. DOMAIN marked = 1..n /\ marked = [i \in 1..n |-> marked[i]]
    <3> HIDE DEF k
    <3>1. DOMAIN QueueCells = 1..n
      BY <1>1
    <3> QED BY <3>1
  <2>2. DOMAIN QueueCells' = 1..n /\ QueueCells' = [i \in 1..n |-> QueueCells'[i]]
    BY <1>8
  <2> HIDE DEF marked
  <2> QED BY <1>10, <2>1, <2>2
<1>12. k \in DOMAIN QueueCells
  BY <1>1, <1>3
<1>13. Queue!Publish(k)
  BY <1>5, <1>9, <1>11 DEF Queue!Publish
<1> QED BY <1>12, <1>13

\* Releasing the slot pops the oldest cell, which is ready, and returns its item.
LEMMA ReleaseSlotPops ==
  ASSUME TypeInv, RingInv, ReleaseSlot
  PROVE  Queue!Pop
<1> DEFINE n == Len(claimed) - Len(popped)
<1>1. /\ n \in Nat /\ n = W - R /\ QueueCells \in Seq(Queue!Cells)
      /\ Len(QueueCells) = n
  BY CellsView
<1>2. /\ W \in Nat /\ R \in Nat /\ W <= R + Capacity /\ R < W
      /\ Slot(read_pos) = Slot(R)
      /\ sequence[Slot(R)] = Word(R + 1)
      /\ item = claimed[Len(popped) + 1]
  BY ConsumerPosition DEF ReleaseSlot, RingInv, ConsumerInv, Published
<1>3. /\ Len(popped) \in Nat /\ Len(claimed) \in Nat
      /\ popped' = Append(popped, item) /\ Len(popped') = Len(popped) + 1
      /\ claimed' = claimed /\ R' = R + 1
  BY BoundsAssumption DEF ReleaseSlot, TypeInv, TypeOK, R
<1>4. 1 \in 1..n /\ QueueCells # << >>
  BY <1>1, <1>2
<1>5. Head(QueueCells) = QueueCells[1]
  BY <1>1, <1>4
<1>6. Head(QueueCells).ready /\ Head(QueueCells).item = item
  <2>1. QueueCells[1] = [item  |-> claimed[Len(popped) + 1],
                         ready |-> sequence[Slot(R + 1 - 1)] = Word(R + 1)]
    BY <1>4, CellsView
  <2>2. R + 1 - 1 = R
    BY <1>2
  <2>3. (sequence[Slot(R + 1 - 1)] = Word(R + 1)) = TRUE
    BY <1>2, <2>2
  <2>4. QueueCells[1] = [item |-> item, ready |-> TRUE]
    BY <1>2, <2>1, <2>3
  <2> QED BY <1>5, <2>4
<1>7. \A j \in R..(R + Capacity - 1) : j # R =>
        sequence'[Slot(j)] = sequence[Slot(j)]
  <2>1. R \in R..(R + Capacity - 1)
    BY <1>2, CapacityAssumption
  <2>2. \A j \in R..(R + Capacity - 1) : j # R => Slot(j) # Slot(R)
    BY <2>1, Window
  <2>3. \A j \in R..(R + Capacity - 1) : Slot(j) \in Slots
    BY <1>2, WordSlot, CapacityAssumption
  <2> QED BY <1>2, <2>2, <2>3 DEF ReleaseSlot, TypeInv, TypeOK
<1>8. QueueCells' = [i \in 1..(n - 1) |->
                      [item  |-> claimed[Len(popped) + 1 + i],
                       ready |-> sequence'[Slot(R + 1 + i - 1)] = Word(R + 1 + i)]]
  <2>1. Len(claimed) - (Len(popped) + 1) = n - 1
    BY <1>3
  <2> QED BY <1>3, <2>1 DEF QueueCells
<1>9. /\ Tail(QueueCells) \in Seq(Queue!Cells) /\ Len(Tail(QueueCells)) = n - 1
      /\ \A i \in 1..(n - 1) : Tail(QueueCells)[i] = QueueCells[i + 1]
  <2> HIDE DEF n
  <2> QED BY <1>1, <1>4
<1>10. \A i \in 1..(n - 1) : QueueCells'[i] = Tail(QueueCells)[i]
  <2> SUFFICES ASSUME NEW i \in 1..(n - 1)
               PROVE  QueueCells'[i] = QueueCells[i + 1]
    BY <1>9
  <2>1. i + 1 \in 1..n /\ i \in Nat
    BY <1>1
  <2>2. QueueCells[i + 1] =
            [item  |-> claimed[Len(popped) + (i + 1)],
             ready |-> sequence[Slot(R + (i + 1) - 1)] = Word(R + (i + 1))]
    <3> DEFINE j == i + 1
    <3>1. j \in 1..n
      BY <2>1
    <3>2. QueueCells[j] = [item  |-> claimed[Len(popped) + j],
                           ready |-> sequence[Slot(R + j - 1)] = Word(R + j)]
      <4> HIDE DEF j
      <4> QED BY <3>1, CellsView
    <3> QED BY <3>2
  <2>3. QueueCells'[i] =
            [item  |-> claimed[Len(popped) + 1 + i],
             ready |-> sequence'[Slot(R + 1 + i - 1)] = Word(R + 1 + i)]
    BY <1>8
  <2>4. /\ Len(popped) + (i + 1) = Len(popped) + 1 + i
        /\ R + (i + 1) - 1 = R + i /\ R + 1 + i - 1 = R + i
        /\ R + (i + 1) = R + 1 + i
        /\ R + i \in R..(R + Capacity - 1) /\ R + i # R
    BY <1>1, <1>2, <1>3, <2>1, CapacityAssumption
  <2>5. sequence'[Slot(R + i)] = sequence[Slot(R + i)]
    BY <1>7, <2>4
  <2> QED BY <2>2, <2>3, <2>4, <2>5
<1>11. QueueCells' = Tail(QueueCells)
  <2>1. QueueCells' = [i \in 1..(n - 1) |-> QueueCells'[i]]
    BY <1>8
  <2> HIDE DEF n
  <2> QED BY <1>9, <1>10, <2>1, SeqExtensional
<1> QED
  BY <1>3, <1>4, <1>6, <1>11 DEF Queue!Pop, Queue!HeadReady

\* Every step of the ring is a step of the queue or leaves it alone.
LEMMA QueueSteps ==
  TypeInv /\ RingInv /\ NoLap /\ [Next]_vars => [Queue!QueueNext]_(Queue!queueVars)
<1> SUFFICES ASSUME TypeInv, RingInv, NoLap, [Next]_vars
             PROVE  Queue!QueueNext \/ UNCHANGED Queue!queueVars
  OBVIOUS
<1>1. ASSUME NEW p \in Producers,
             \/ LoadPos(p) \/ SlotFree(p) \/ SlotFull(p) \/ SlotStale(p)
             \/ Reload(p) \/ CasFail(p) \/ WriteData(p)
      PROVE  UNCHANGED Queue!queueVars
  <2>1. UNCHANGED <<sequence, claimed, popped>>
    BY <1>1 DEF LoadPos, SlotFree, SlotFull, SlotStale, Reload, CasFail, WriteData,
                slotVars, consumerVars
  <2> QED BY <2>1, QueueFrame
<1>2. ASSUME NEW p \in Producers, CasOk(p)
      PROVE  Queue!QueueNext
  BY <1>2, CasOkClaims DEF Queue!QueueNext
<1>3. ASSUME NEW p \in Producers, Publish(p)
      PROVE  Queue!QueueNext
  BY <1>3, PublishPublishes DEF Queue!QueueNext
<1>4. CASE PopCheck \/ CopyData
  <2>1. UNCHANGED <<sequence, claimed, popped>>
    BY <1>4 DEF PopCheck, CopyData, slotVars
  <2> QED BY <2>1, QueueFrame
<1>5. CASE ReleaseSlot
  BY <1>5, ReleaseSlotPops DEF Queue!QueueNext
<1>6. CASE UNCHANGED vars
  <2>1. UNCHANGED <<sequence, claimed, popped>>
    BY <1>6 DEF vars, slotVars, consumerVars
  <2> QED BY <2>1, QueueFrame
<1> QED BY <1>1, <1>2, <1>3, <1>4, <1>5, <1>6 DEF Next, Producer, Consumer

\* The ring implements the queue that LoggerBackend is modelled on: every
\* theorem about the queue holds of the ring, for every number of producers,
\* every ring of at least two slots and any number of wraps, as long as no
\* producer is lapped.
THEOREM ImplementsQueueCorrect ==
  ASSUME Capacity > 1
  PROVE  Spec /\ []NoLap => ImplementsQueue
<1>1. Spec /\ []NoLap => []RingInv
  BY RingCorrect
<1>2. Spec => []TypeInv
  BY InitTyped, NextTyped, PTL DEF Spec
<1> QED
  BY <1>1, <1>2, QueueInitStep, QueueSteps, PTL
  DEF Spec, ImplementsQueue, Queue!QueueSpec
=============================================================================
