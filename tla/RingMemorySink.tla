--------------------------- MODULE RingMemorySink ---------------------------
(***************************************************************************)
(* br_logger::RingMemorySink: the last capacity_ entries, in memory.  The  *)
(* backend's consumer calls Write; another thread may call DumpToFile,     *)
(* which walks the buffer through At.  Neither takes a lock: each          *)
(* assignment of Write and each line of the dump is a step, and a line     *)
(* read from the slot that Write is copying into is Torn.                  *)
(*                                                                         *)
(* Entries that the sink's level rejects, lines that format to nothing and *)
(* a DumpToFile that cannot open its file change nothing and are left out. *)
(***************************************************************************)
EXTENDS Integers, Sequences

CONSTANTS
    capacity,       \* capacity_
    MaxEntries,     \* bound: entries written
    MaxDumps,       \* bound: calls of DumpToFile
    Torn            \* a LogEntry that is being copied

\* The constructor takes any capacity; with 0, Write would index an empty vector
\* and divide by zero, so a sink of no entries is outside this specification.
ASSUME CapacityAssumption == capacity \in Nat \ {0}
ASSUME EntriesAssumption == MaxEntries \in Nat /\ MaxDumps \in Nat

VARIABLES
    buffer,         \* buffer_; entries are numbered from 1, 0 is LogEntry{}
    head,           \* head_
    count,          \* count_
    step,           \* where Write is
    entries,        \* calls of Write since the sink was constructed: also
                    \* the number of the last entry
    dump,           \* lines of the file DumpToFile writes
    dumping,        \* TRUE inside DumpToFile
    dumps,          \* calls of DumpToFile so far
    expect          \* history: entries when the dump began, -1 once Write has
                    \* run during it or a kill has cut it short

memoryVars == <<buffer, head, count, step, entries, dump, dumping, dumps, expect>>
dumpVars == <<dump, dumping, dumps>>

Indices == 0..(capacity - 1)

MemoryInit ==
    /\ buffer = [i \in Indices |-> 0]
    /\ head = 0
    /\ count = 0
    /\ step = "idle"
    /\ entries = 0
    /\ dump = << >>
    /\ dumping = FALSE
    /\ dumps = 0
    /\ expect = -1

-----------------------------------------------------------------------------
(***************************************************************************)
(* Write: buffer_[head_] = entry, then head_, then count_.                 *)
(***************************************************************************)
CopyBegin ==
    /\ step = "idle"
    /\ entries < MaxEntries
    /\ entries' = entries + 1
    /\ buffer' = [buffer EXCEPT ![head] = Torn]
    /\ step' = "copy"
    /\ expect' = IF dumping THEN -1 ELSE expect
    /\ UNCHANGED <<head, count, dumpVars>>

CopyEnd ==
    /\ step = "copy"
    /\ buffer' = [buffer EXCEPT ![head] = entries]
    /\ step' = "head"
    /\ UNCHANGED <<head, count, entries, dumpVars, expect>>

\* Mutant: head_ is not taken modulo capacity_.
MoveHeadUnwrapped ==
    /\ step = "head"
    /\ head' = head + 1
    /\ step' = "count"
    /\ UNCHANGED <<buffer, count, entries, dumpVars, expect>>

MoveHead ==
    /\ step = "head"
    /\ head' = (head + 1) % capacity
    /\ step' = "count"
    /\ UNCHANGED <<buffer, count, entries, dumpVars, expect>>

MoveCount ==
    /\ step = "count"
    /\ count' = IF count < capacity THEN count + 1 ELSE count
    /\ step' = "idle"
    /\ UNCHANGED <<buffer, head, entries, dumpVars, expect>>

-----------------------------------------------------------------------------
\* Mutant: a full buffer is read from its first slot.
AtFromZero(i) == buffer[i % capacity]

\* The oldest entry has index 0.
At(i) ==
    LET start == IF count < capacity THEN 0 ELSE head
    IN  buffer[(start + i) % capacity]

\* O_TRUNC empties the file.
DumpBegin ==
    /\ ~dumping
    /\ dumps < MaxDumps
    /\ dumps' = dumps + 1
    /\ dumping' = TRUE
    /\ dump' = << >>
    /\ expect' = IF step = "idle" THEN entries ELSE -1
    /\ UNCHANGED <<buffer, head, count, step, entries>>

DumpLine ==
    /\ dumping
    /\ Len(dump) < count
    /\ dump' = Append(dump, At(Len(dump)))
    /\ UNCHANGED <<buffer, head, count, step, entries, dumping, dumps, expect>>

\* Mutant: the loop ends one entry early.
DumpEndEarly ==
    /\ dumping
    /\ Len(dump) >= count - 1
    /\ dumping' = FALSE
    /\ UNCHANGED <<buffer, head, count, step, entries, dump, dumps, expect>>

DumpEnd ==
    /\ dumping
    /\ Len(dump) >= count
    /\ dumping' = FALSE
    /\ UNCHANGED <<buffer, head, count, step, entries, dump, dumps, expect>>

(***************************************************************************)
(* The process ends, wherever Write and DumpToFile are, and the next one   *)
(* constructs its sink.  The file of an earlier dump stays.                *)
(***************************************************************************)
Reconstruct ==
    /\ buffer' = [i \in Indices |-> 0]
    /\ head' = 0
    /\ count' = 0
    /\ step' = "idle"
    /\ entries' = 0
    /\ dumping' = FALSE
    /\ expect' = IF dumping THEN -1 ELSE expect
    /\ UNCHANGED <<dump, dumps>>

MemoryNext ==
    \/ Reconstruct
    \/ CopyBegin \/ CopyEnd \/ MoveHead \/ MoveCount
    \/ DumpBegin \/ DumpLine \/ DumpEnd

MemorySpec == MemoryInit /\ [][MemoryNext]_memoryVars

-----------------------------------------------------------------------------
(***************************************************************************)
(* Properties.                                                             *)
(***************************************************************************)
\* The type invariant: head_ and count_ stay inside the buffer, so At and
\* Write never index past its end.
MemoryTypeOK ==
    /\ buffer \in [Indices -> Nat \cup {Torn}]
    /\ head \in Indices
    /\ count \in 0..capacity
    /\ step \in {"idle", "copy", "head", "count"}
    /\ entries \in Nat
    /\ dump \in Seq(Nat \cup {Torn})
    /\ dumping \in BOOLEAN
    /\ dumps \in Nat
    /\ expect \in Nat \cup {-1}

Recent(n) == IF n < capacity THEN n ELSE capacity

\* Between two calls of Write, Size and At show the most recent entries, all
\* that fit, oldest first, across any number of turns of the ring.
HoldsMostRecent ==
    step = "idle" =>
        /\ count = Recent(entries)
        /\ \A i \in 0..(count - 1) : At(i) = entries - count + 1 + i

\* A dump during which no Write ran is what the buffer held: the most recent
\* entries, oldest first, each once and whole.
DumpIsSnapshot ==
    dumps > 0 /\ ~dumping /\ expect # -1 =>
        dump = [i \in 1..Recent(expect) |-> expect - Recent(expect) + i]
=============================================================================
