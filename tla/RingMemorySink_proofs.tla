----------------------- MODULE RingMemorySink_proofs -----------------------
(***************************************************************************)
(* Proofs about RingMemorySink, for every capacity_ above 0 and any number *)
(* of writes, dumps and restarts.                                          *)
(***************************************************************************)
EXTENDS RingMemorySink, TLAPS

-----------------------------------------------------------------------------
(***************************************************************************)
(* What taking a position modulo a size keeps and tells apart.             *)
(***************************************************************************)
\* A product with a factor of at least 1 is no smaller than the other factor.
LEMMA MulBound ==
  ASSUME NEW c \in Nat, NEW d \in Int, d >= 1
  PROVE  c * d >= c
OBVIOUS

\* What \div and % are, for natural numbers.
LEMMA DivDef ==
  ASSUME NEW c \in Nat \ {0}, NEW a \in Nat
  PROVE  /\ a \div c \in Nat /\ a % c \in 0..(c-1) /\ a = c * (a \div c) + (a % c)
OBVIOUS

\* Quotient and remainder are determined by these facts.
LEMMA ModUnique ==
  ASSUME NEW c \in Nat \ {0}, NEW a \in Nat, NEW q \in Int, NEW r \in 0..(c - 1),
         a = c * q + r
  PROVE  a % c = r /\ a \div c = q
<1> DEFINE p == a \div c
           s == a % c
<1>1. p \in Nat /\ s \in 0..(c-1) /\ a = c * p + s
  BY DivDef
<1> HIDE DEF p, s
<1>2. c * (q - p) = s - r /\ c * (p - q) = r - s
  BY <1>1
<1>3. ~(q - p >= 1)
  BY <1>1, <1>2, MulBound
<1>4. ~(p - q >= 1)
  BY <1>1, <1>2, MulBound
<1>5. p = q
  BY <1>1, <1>3, <1>4
<1>6. s = r
  BY <1>1, <1>5
<1> QED BY <1>5, <1>6 DEF p, s

\* One turn later a position has the same slot number.
LEMMA ModPlus ==
  ASSUME NEW c \in Nat \ {0}, NEW a \in Nat
  PROVE  (a + c) % c = a % c
<1>1. a \div c \in Nat /\ a % c \in 0..(c-1) /\ a = c * (a \div c) + (a % c)
  BY DivDef
<1> DEFINE y == a + c
           q == (a \div c) + 1
           r == a % c
<1>2. y \in Nat /\ q \in Int /\ r \in 0..(c-1) /\ y = c * q + r
  BY <1>1
<1>3. y % c = r
  <2> HIDE DEF y, q, r
  <2> QED BY <1>2, ModUnique
<1> QED BY <1>3

\* A sum may be reduced before or after it is taken: uint32_t addition.
LEMMA ModAdd ==
  ASSUME NEW c \in Nat \ {0}, NEW a \in Nat, NEW b \in Nat
  PROVE  ((a % c) + b) % c = (a + b) % c
<1> DEFINE x == (a % c) + b
<1>1. a \div c \in Nat /\ a % c \in 0..(c-1) /\ a = c * (a \div c) + (a % c)
  BY DivDef
<1>2. x \in Nat
  BY <1>1
<1>3. x \div c \in Nat /\ x % c \in 0..(c-1) /\ x = c * (x \div c) + (x % c)
  BY <1>2, DivDef
<1>4. a + b = c * (a \div c) + x
  BY <1>1
<1>5. a + b = c * ((a \div c) + (x \div c)) + (x % c)
  <2> HIDE DEF x
  <2> QED BY <1>1, <1>2, <1>3, <1>4
<1> QED
  <2> DEFINE y == a + b
             q == (a \div c) + (x \div c)
             r == x % c
  <2>1. y \in Nat /\ q \in Int /\ r \in 0..(c-1) /\ y = c * q + r
    <3> HIDE DEF x
    <3> QED BY <1>1, <1>3, <1>5
  <2>2. y % c = r
    <3> HIDE DEF y, q, r
    <3> QED BY <2>1, ModUnique
  <2> QED BY <2>2

\* Positions less than a turn apart have different slot numbers.
LEMMA ModDistinct ==
  ASSUME NEW c \in Nat \ {0}, NEW a \in Nat, NEW b \in Nat, a < b, b < a + c
  PROVE  a % c # b % c
<1>1. /\ a \div c \in Nat /\ a % c \in 0..(c-1) /\ a = c * (a \div c) + (a % c)
      /\ b \div c \in Nat /\ b % c \in 0..(c-1) /\ b = c * (b \div c) + (b % c)
  BY DivDef
<1> SUFFICES ASSUME a % c = b % c PROVE FALSE
  OBVIOUS
<1> DEFINE d == (b \div c) - (a \div c)
<1>2. b - a = c * d /\ d \in Int
  BY <1>1
<1>3. CASE d >= 1
  <2> HIDE DEF d
  <2> QED BY <1>2, <1>3, MulBound
<1>4. CASE d <= 0
  <2> HIDE DEF d
  <2>1. c * d <= 0
    BY <1>2, <1>4
  <2> QED BY <1>2, <2>1
<1> QED BY <1>2, <1>3, <1>4

-----------------------------------------------------------------------------
(***************************************************************************)
(* The inductive invariant.  Write makes its three assignments one by one, *)
(* so the number of entries that the buffer, head_ and count_ account for  *)
(* differ by at most one while it runs.                                    *)
(***************************************************************************)
Stored == IF step = "copy" THEN entries - 1 ELSE entries
Passed == IF step \in {"copy", "head"} THEN entries - 1 ELSE entries
Counted == IF step = "idle" THEN entries ELSE entries - 1

\* head_ has turned round the ring once per capacity_ writes.
HeadInv ==
    /\ step # "idle" => entries >= 1
    /\ head = Passed % capacity

CountInv == count = Recent(Counted)

\* Entry k sits in slot (k - 1) % capacity_ until the write that needs the
\* slot again begins.
SlotsInv ==
    \A k \in 1..Stored : k > entries - capacity => buffer[(k - 1) % capacity] = k

\* A dump that no Write has disturbed has copied the oldest entries, in order.
DumpInv ==
    expect # -1 =>
        /\ dumping => step = "idle" /\ entries = expect
        /\ ~dumping => Len(dump) = Recent(expect)
        /\ Len(dump) <= Recent(expect)
        /\ \A i \in 1..Len(dump) : dump[i] = expect - Recent(expect) + i

SinkInv == MemoryTypeOK /\ HeadInv /\ CountInv /\ SlotsInv /\ DumpInv

-----------------------------------------------------------------------------
\* The first slot has number 0.
LEMMA ZeroMod == 0 % capacity = 0
<1> DEFINE a == 0
<1>1. a \in Nat /\ a = capacity * 0 + 0 /\ 0 \in 0..(capacity - 1)
  BY CapacityAssumption
<1> HIDE DEF a
<1>2. a % capacity = 0
  BY <1>1, ModUnique, CapacityAssumption
<1> QED BY <1>2 DEF a

\* Initially the buffer is empty and no dump has begun.
LEMMA SinkInit == MemoryInit => SinkInv
BY ZeroMod, CapacityAssumption
DEF MemoryInit, SinkInv, MemoryTypeOK, HeadInv, CountInv, SlotsInv, DumpInv, Indices, Recent,
    Stored, Passed, Counted

\* Between two calls of Write the buffer shows the most recent entries.
LEMMA IdleHoldsMostRecent ==
  ASSUME SinkInv, step = "idle"
  PROVE  /\ count = Recent(entries)
         /\ \A i \in 0..(count - 1) : At(i) = entries - count + 1 + i
<1>1. /\ entries \in Nat /\ count = Recent(entries) /\ count \in Nat
      /\ head = entries % capacity /\ capacity \in Nat \ {0}
  BY CapacityAssumption DEF SinkInv, MemoryTypeOK, HeadInv, CountInv, Passed, Counted
<1> SUFFICES ASSUME NEW i \in 0..(count - 1)
             PROVE  At(i) = entries - count + 1 + i
  BY <1>1
<1> DEFINE k == entries - count + 1 + i
<1>2. k \in 1..entries /\ k > entries - capacity /\ i \in Nat
  BY <1>1 DEF Recent
<1>3. buffer[(k - 1) % capacity] = k
  BY <1>2 DEF SinkInv, SlotsInv, Stored
<1>4. CASE count < capacity
  <2>1. k - 1 = 0 + i /\ count = entries
    BY <1>1, <1>4 DEF Recent
  <2> QED BY <1>3, <1>4, <2>1 DEF At
<1>5. CASE ~(count < capacity)
  <2>1. count = capacity /\ entries >= capacity
    BY <1>1, <1>5 DEF Recent
  <2>2. (head + i) % capacity = (entries + i) % capacity
    BY <1>1, <1>2, ModAdd
  <2>3. k - 1 \in Nat /\ entries + i = (k - 1) + capacity
    BY <1>1, <1>2, <2>1
  <2>4. ((k - 1) + capacity) % capacity = (k - 1) % capacity
    <3> DEFINE j == k - 1
    <3>1. j \in Nat
      BY <2>3
    <3> HIDE DEF j
    <3>2. (j + capacity) % capacity = j % capacity
      BY <1>1, <3>1, ModPlus
    <3> QED BY <3>2 DEF j
  <2>5. (head + i) % capacity = (k - 1) % capacity
    BY <2>2, <2>3, <2>4
  <2> QED BY <1>3, <1>5, <2>5 DEF At
<1> QED BY <1>4, <1>5

-----------------------------------------------------------------------------
(***************************************************************************)
(* One lemma per action.                                                   *)
(***************************************************************************)
\* The copy that begins takes the slot of the entry that leaves the window.
LEMMA CopyBeginStep == SinkInv /\ CopyBegin => SinkInv'
<1> SUFFICES ASSUME SinkInv, CopyBegin PROVE SinkInv'
  OBVIOUS
<1> USE CapacityAssumption DEF SinkInv
<1>1. MemoryTypeOK'
  BY DEF CopyBegin, dumpVars, MemoryTypeOK, Indices
<1>2. HeadInv' /\ CountInv'
  BY DEF CopyBegin, dumpVars, MemoryTypeOK, HeadInv, CountInv, Passed, Counted, Recent
<1>3. SlotsInv'
  <2> SUFFICES ASSUME NEW k \in 1..entries, k > entries + 1 - capacity
               PROVE  buffer'[(k - 1) % capacity] = k
    BY DEF CopyBegin, SlotsInv, Stored, MemoryTypeOK
  <2>1. entries \in Nat /\ head = entries % capacity /\ capacity \in Nat \ {0}
    BY DEF CopyBegin, MemoryTypeOK, HeadInv, Passed
  <2>2. buffer[(k - 1) % capacity] = k
    BY <2>1 DEF SlotsInv, Stored, CopyBegin
  <2>3. (k - 1) % capacity # entries % capacity
    <3> DEFINE j == k - 1
    <3>1. j \in Nat /\ j < entries /\ entries < j + capacity
      BY <2>1
    <3> HIDE DEF j
    <3>2. j % capacity # entries % capacity
      BY <2>1, <3>1, ModDistinct
    <3> QED BY <3>2 DEF j
  <2>4. (k - 1) % capacity \in Indices
    <3> DEFINE j == k - 1
    <3>1. j \in Nat
      BY <2>1
    <3> HIDE DEF j
    <3>2. j % capacity \in Indices
      BY <2>1, <3>1, DivDef DEF Indices
    <3> QED BY <3>2 DEF j
  <2> HIDE DEF SinkInv
  <2> QED BY <2>1, <2>2, <2>3, <2>4 DEF CopyBegin, SinkInv, MemoryTypeOK
<1>4. DumpInv'
  BY DEF CopyBegin, dumpVars, DumpInv, MemoryTypeOK, Recent
<1> QED BY <1>1, <1>2, <1>3, <1>4

\* When the copy is complete the newest entry is in its slot.
LEMMA CopyEndStep == SinkInv /\ CopyEnd => SinkInv'
<1> SUFFICES ASSUME SinkInv, CopyEnd PROVE SinkInv'
  OBVIOUS
<1> USE CapacityAssumption DEF SinkInv
<1>1. MemoryTypeOK'
  BY DEF CopyEnd, dumpVars, MemoryTypeOK, Indices
<1>2. HeadInv' /\ CountInv'
  BY DEF CopyEnd, dumpVars, MemoryTypeOK, HeadInv, CountInv, Passed, Counted, Recent
<1>3. SlotsInv'
  <2> SUFFICES ASSUME NEW k \in 1..entries, k > entries - capacity
               PROVE  buffer'[(k - 1) % capacity] = k
    BY DEF CopyEnd, SlotsInv, Stored, MemoryTypeOK
  <2>1. /\ entries \in Nat /\ entries >= 1 /\ capacity \in Nat \ {0}
        /\ head = (entries - 1) % capacity /\ head \in Indices
        /\ buffer' = [buffer EXCEPT ![head] = entries] /\ DOMAIN buffer = Indices
    BY DEF CopyEnd, MemoryTypeOK, HeadInv, Passed
  <2>2. CASE k = entries
    BY <2>1, <2>2
  <2>3. CASE k # entries
    <3>1. buffer[(k - 1) % capacity] = k
      BY <2>1, <2>3 DEF SlotsInv, Stored, CopyEnd
    <3> DEFINE i == k - 1
               j == entries - 1
    <3>2. i \in Nat /\ j \in Nat /\ i < j /\ j < i + capacity
      BY <2>1, <2>3
    <3> HIDE DEF i, j
    <3>3. i % capacity # j % capacity
      BY <2>1, <3>2, ModDistinct
    <3>4. i % capacity # head
      BY <2>1, <3>3 DEF j
    <3>5. buffer'[i % capacity] = buffer[i % capacity]
      <4>1. i % capacity \in Indices
        BY <2>1, <3>2, DivDef DEF Indices
      <4> HIDE DEF SinkInv
      <4> QED BY <2>1, <3>4, <4>1
    <3> QED BY <3>1, <3>5 DEF i
  <2> QED BY <2>2, <2>3
<1>4. DumpInv'
  BY DEF CopyEnd, dumpVars, DumpInv, MemoryTypeOK, Recent
<1> QED BY <1>1, <1>2, <1>3, <1>4

\* head_ moves to the slot of the next entry.
LEMMA MoveHeadStep == SinkInv /\ MoveHead => SinkInv'
<1> SUFFICES ASSUME SinkInv, MoveHead PROVE SinkInv'
  OBVIOUS
<1> USE CapacityAssumption DEF SinkInv
<1>1. /\ entries \in Nat /\ entries >= 1 /\ capacity \in Nat \ {0}
      /\ head = (entries - 1) % capacity /\ head' = (head + 1) % capacity
  BY DEF MoveHead, MemoryTypeOK, HeadInv, Passed
<1>2. head' = entries % capacity /\ head' \in Indices
  <2> DEFINE j == entries - 1
  <2>1. j \in Nat /\ entries = j + 1
    BY <1>1
  <2>2. ((j % capacity) + 1) % capacity = (j + 1) % capacity
    <3> HIDE DEF j
    <3> QED BY <1>1, <2>1, ModAdd
  <2>3. entries % capacity \in Indices
    BY <1>1, DivDef DEF Indices
  <2> QED BY <1>1, <2>1, <2>2, <2>3
<1>3. MemoryTypeOK'
  BY <1>2 DEF MoveHead, dumpVars, MemoryTypeOK
<1>4. HeadInv' /\ CountInv' /\ SlotsInv' /\ DumpInv'
  BY <1>1, <1>2
  DEF MoveHead, dumpVars, HeadInv, CountInv, SlotsInv, DumpInv, Passed, Counted,
      Stored, Recent
<1> QED BY <1>3, <1>4

\* count_ grows until the buffer is full.
LEMMA MoveCountStep == SinkInv /\ MoveCount => SinkInv'
<1> SUFFICES ASSUME SinkInv, MoveCount PROVE SinkInv'
  OBVIOUS
<1> USE CapacityAssumption DEF SinkInv
<1>1. MemoryTypeOK'
  BY DEF MoveCount, dumpVars, MemoryTypeOK
<1>2. HeadInv' /\ CountInv' /\ SlotsInv' /\ DumpInv'
  BY DEF MoveCount, dumpVars, MemoryTypeOK, HeadInv, CountInv, SlotsInv, DumpInv,
         Passed, Counted, Stored, Recent
<1> QED BY <1>1, <1>2

\* A dump begins with an empty file, and knows whether a Write is running.
LEMMA DumpBeginStep == SinkInv /\ DumpBegin => SinkInv'
<1> SUFFICES ASSUME SinkInv, DumpBegin PROVE SinkInv'
  OBVIOUS
<1> USE CapacityAssumption DEF SinkInv
<1>1. MemoryTypeOK'
  BY DEF DumpBegin, MemoryTypeOK
<1>2. HeadInv' /\ CountInv' /\ SlotsInv'
  BY DEF DumpBegin, MemoryTypeOK, HeadInv, CountInv, SlotsInv, Passed, Counted, Stored,
         Recent
<1>3. DumpInv'
  BY DEF DumpBegin, MemoryTypeOK, DumpInv, Recent
<1> QED BY <1>1, <1>2, <1>3

\* A line of the dump is the next entry if nothing was written meanwhile.
LEMMA DumpLineStep == SinkInv /\ DumpLine => SinkInv'
<1> SUFFICES ASSUME SinkInv, DumpLine PROVE SinkInv'
  OBVIOUS
<1> USE CapacityAssumption
<1>1. At(Len(dump)) \in Nat \cup {Torn}
  <2>1. count \in Nat /\ head \in Nat /\ Len(dump) \in Nat /\ capacity \in Nat \ {0}
    BY DEF SinkInv, MemoryTypeOK, Indices
  <2> DEFINE n == (IF count < capacity THEN 0 ELSE head) + Len(dump)
  <2>2. n \in Nat
    BY <2>1
  <2>3. n % capacity \in Indices
    <3> HIDE DEF n
    <3> QED BY <2>1, <2>2, DivDef DEF Indices
  <2>4. buffer[n % capacity] \in Nat \cup {Torn}
    <3> HIDE DEF n
    <3> QED BY <2>3 DEF SinkInv, MemoryTypeOK
  <2> QED BY <2>4 DEF At
<1>2. MemoryTypeOK'
  BY <1>1 DEF SinkInv, DumpLine, MemoryTypeOK
<1>3. HeadInv' /\ CountInv' /\ SlotsInv'
  BY DEF SinkInv, DumpLine, HeadInv, CountInv, SlotsInv, Passed, Counted, Stored,
         Recent
<1>4. DumpInv'
  <2> SUFFICES ASSUME expect # -1 PROVE DumpInv'
    BY DEF DumpLine, DumpInv
  <2>1. /\ dumping /\ step = "idle" /\ entries = expect /\ entries \in Nat
        /\ dump \in Seq(Nat \cup {Torn}) /\ Len(dump) \in Nat
        /\ \A i \in 1..Len(dump) : dump[i] = expect - Recent(expect) + i
    BY DEF SinkInv, DumpInv, DumpLine, MemoryTypeOK
  <2>2. count = Recent(expect) /\ At(Len(dump)) = entries - count + 1 + Len(dump)
    BY <2>1, IdleHoldsMostRecent DEF DumpLine, SinkInv, MemoryTypeOK
  <2>3. /\ Len(dump') = Len(dump) + 1
        /\ \A i \in 1..Len(dump) : dump'[i] = dump[i]
        /\ dump'[Len(dump) + 1] = At(Len(dump))
    BY <1>1, <2>1 DEF DumpLine
  <2>4. UNCHANGED <<dumping, step, entries, expect, count>> /\ Len(dump) < count
    BY DEF DumpLine
  <2>5. count \in Nat
    BY DEF SinkInv, MemoryTypeOK
  <2> QED BY <2>1, <2>2, <2>3, <2>4, <2>5 DEF DumpInv, Recent
<1> QED BY <1>2, <1>3, <1>4 DEF SinkInv

\* A dump ends when it has copied count_ entries.
LEMMA DumpEndStep == SinkInv /\ DumpEnd => SinkInv'
<1> SUFFICES ASSUME SinkInv, DumpEnd PROVE SinkInv'
  OBVIOUS
<1> USE CapacityAssumption DEF SinkInv
<1>1. MemoryTypeOK'
  BY DEF DumpEnd, MemoryTypeOK
<1>2. HeadInv' /\ CountInv' /\ SlotsInv'
  BY DEF DumpEnd, HeadInv, CountInv, SlotsInv, Passed, Counted, Stored, Recent
<1>3. DumpInv'
  BY DEF DumpEnd, MemoryTypeOK, DumpInv, CountInv, Counted, Recent
<1> QED BY <1>1, <1>2, <1>3

\* A new sink is empty; a dump that was complete stays.
LEMMA ReconstructStep == SinkInv /\ Reconstruct => SinkInv'
<1> SUFFICES ASSUME SinkInv, Reconstruct PROVE SinkInv'
  OBVIOUS
<1> USE CapacityAssumption DEF SinkInv
<1>1. 0 % capacity = 0
  BY ZeroMod
<1>2. MemoryTypeOK'
  BY DEF Reconstruct, MemoryTypeOK, Indices
<1>3. HeadInv' /\ CountInv' /\ SlotsInv'
  BY <1>1 DEF Reconstruct, HeadInv, CountInv, SlotsInv, Passed, Counted, Stored, Recent
<1>4. DumpInv'
  BY DEF Reconstruct, MemoryTypeOK, DumpInv
<1> QED BY <1>2, <1>3, <1>4

\* The invariant is inductive.
LEMMA SinkNext == SinkInv /\ [MemoryNext]_memoryVars => SinkInv'
<1>1. SinkInv /\ UNCHANGED memoryVars => SinkInv'
  BY DEF memoryVars, dumpVars, SinkInv, MemoryTypeOK, HeadInv, CountInv, SlotsInv, DumpInv,
         Passed, Counted, Stored, Recent
<1> QED
  BY <1>1, CopyBeginStep, CopyEndStep, MoveHeadStep, MoveCountStep, DumpBeginStep,
     DumpLineStep, DumpEndStep, ReconstructStep
  DEF MemoryNext

\* The inductive invariant holds of every behaviour.
LEMMA SinkCorrect == MemorySpec => []SinkInv
BY SinkInit, SinkNext, PTL DEF MemorySpec

-----------------------------------------------------------------------------
(***************************************************************************)
(* The theorems.                                                           *)
(***************************************************************************)
\* head_ and count_ stay inside the buffer.
THEOREM SinkTypeCorrect == MemorySpec => []MemoryTypeOK
<1>1. SinkInv => MemoryTypeOK
  BY DEF SinkInv
<1> QED BY <1>1, SinkCorrect, PTL

\* Size and At show the most recent entries, oldest first, however often head_
\* has come round.
THEOREM HoldsMostRecentCorrect == MemorySpec => []HoldsMostRecent
<1>1. SinkInv => HoldsMostRecent
  BY IdleHoldsMostRecent DEF HoldsMostRecent
<1> QED BY <1>1, SinkCorrect, PTL

\* A dump that no Write overlapped is the list of the most recent entries.
THEOREM DumpIsSnapshotCorrect == MemorySpec => []DumpIsSnapshot
<1>1. SinkInv => DumpIsSnapshot
  <2> SUFFICES ASSUME SinkInv, ~dumping, expect # -1
               PROVE  dump = [i \in 1..Recent(expect) |-> expect - Recent(expect) + i]
    BY DEF DumpIsSnapshot
  <2>1. /\ dump \in Seq(Nat \cup {Torn}) /\ Len(dump) = Recent(expect)
        /\ \A i \in 1..Len(dump) : dump[i] = expect - Recent(expect) + i
    BY DEF SinkInv, MemoryTypeOK, DumpInv
  <2> QED BY <2>1
<1> QED BY <1>1, SinkCorrect, PTL
=============================================================================
